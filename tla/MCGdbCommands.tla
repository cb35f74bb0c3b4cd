---------------------------- MODULE MCGdbCommands ----------------------------
(***************************************************************************)
(* Requests of gdb, in its own notation unless a comment says otherwise,   *)
(* and bounds for GdbCommands.                                             *)
(***************************************************************************)
EXTENDS GdbCommands

(* The least and the greatest number and one between; two addresses.       *)
Nums == {0, 5, Word64 - 1}
Addr == {0, Word64 - 1}
Data == {<<4>>, <<3, 1>>, <<0, 7>>}
Threads == {<<2, AnyId>>, <<2, AllId>>, <<1, 5>>, <<AllId, AllId>>, <<AnyId, 1>>}

(* "p2" is all threads of 2, "2" any of them.                              *)
GdbThread(t) ==
  IF t[2] = AnyId THEN WriteId(t[1]) ELSE IF t = <<2, AllId>> THEN <<"p", "2">> ELSE write_thread_id(t)

GdbEscaped(data) ==
  FlattenSeq([k \in DOMAIN data |->
    IF data[k] \in {1, 2, 3} THEN <<"}", Raw[Flip(data[k]) + 1]>> ELSE <<Raw[data[k] + 1]>>])

GdbBytes(data) == FlattenSeq([k \in DOMAIN data |-> Hex02(data[k])])

Pair(word, m) == {Request(m, <<<<a>>, <<n>>>>, word \o Hex(a) \o <<",">> \o Hex(n)) : a \in Addr, n \in {0, 5}}

Word(m, args, body) == {Request(m, args, body)}

RegisterRequests ==
  Word("read_general_registers", <<>>, <<"g">>)
  \cup {Request("write_general_registers", <<d>>, <<"G">> \o GdbBytes(d)) : d \in Data}
  \cup {Request("read_register", <<<<n>>>>, <<"p">> \o Hex(n)) : n \in Nums}
  \cup {Request("write_register", <<<<n>>, d>>, <<"P">> \o Hex(n) \o <<"=">> \o GdbBytes(d)) : n \in Nums, d \in Data}
  \cup Pair(<<"m">>, "read_memory")
  \cup {Request("write_memory", <<<<a>>, d>>,
                <<"M">> \o Hex(a) \o <<",">> \o Hex(Len(d)) \o <<":">> \o GdbBytes(d)) : a \in Addr, d \in Data}
  \cup {Request("write_memory", <<<<a>>, d>>,
                <<"X">> \o Hex(a) \o <<",">> \o Hex(Len(d)) \o <<":">> \o GdbEscaped(d)) : a \in Addr, d \in Data}

ThreadRequests ==
  UNION {Word("set_current_thread", << <<1>>, t>>, <<"H", "g">> \o GdbThread(t))
         \cup Word("set_current_thread", << <<0>>, t>>, <<"H", "c">> \o GdbThread(t))
         \cup Word("ping_thread", <<t>>, <<"T">> \o GdbThread(t))
         \cup Word("thread_info", <<t>>, <<"qThreadExtraInfo,">> \o GdbThread(t)) : t \in Threads}
  \cup Word("current_thread", <<>>, <<"qC">>)
  \cup Word("thread_list", << <<1>> >>, <<"qfThreadInfo">>)
  \cup Word("thread_list", << <<0>> >>, <<"qsThreadInfo">>)

ProcessRequests ==
  Word("halt_reason", <<>>, <<"?">>)
  \cup Word("none", <<>>, <<"!">>)
  \cup Word("none", <<>>, <<"r">>) \cup Word("none", <<>>, <<"R", "0", "0">>)
  \cup Word("none", <<>>, <<"v", "CtrlC">>) \cup Word("none", <<>>, <<"v", "MustReplyEmpty">>)
  \cup Word("kill", <<>>, <<"k">>)
  \cup UNION {Word("kill", <<<<n>>>>, <<"v", "Kill;">> \o Hex(n))
              \cup Word("detach", <<<<n>>>>, <<"D", ";">> \o Hex(n))
              \cup Word("attached", <<<<n>>>>, <<"qAttached", ":">> \o Hex(n)) : n \in Nums}
  \cup Word("detach", <<>>, <<"D">>)
  \cup Word("attached", <<>>, <<"qAttached">>)
  \cup Word("query_supported_vcont", <<>>, <<"v", "Cont", "?">>)
  \cup Word("vcont", << <<1>> \o NoThread>>, <<"v", "Cont", ";", "c">>)
  \cup Word("vcont", << <<6, 1, 5>> \o <<1, 5>> \o <<4, 7>> \o <<AllId, AnyId>> \o <<3>> \o NoThread>>,
            <<"v", "Cont", ";", "r", "1", ",", "1", "2", ":", "p", "1", ".", "1", "2",
              ";", "S", "2", "1", ":", "-1", ";", "s">>)

SettingRequests ==
  Word("query_supported_features", <<>>, <<"qSupported", ":", "swbreak+", ";", "multiprocess+">>)
  \cup Word("none", <<>>, <<"QStartNoAckMode">>)
  \cup {Request("invoke", <<d>>, <<"qRcmd,">> \o GdbBytes(d)) : d \in Data}
  \cup {Request("search_memory", <<<<a>>, <<5>>, d>>,
                <<"qSearch:memory:">> \o Hex(a) \o <<";">> \o Hex(5) \o <<";">> \o GdbBytes(d)) : a \in Addr, d \in Data}
  \cup Word("set_address_randomization", << <<1>> >>, <<"QDisableRandomization:0">>)
  \cup Word("set_address_randomization", << <<0>> >>, <<"QDisableRandomization:1">>)
  \cup Word("catch_syscalls", <<>>, <<"QCatchSyscalls:0">>)
  \cup Word("catch_syscalls", << <<>> >>, <<"QCatchSyscalls:1">>)
  \cup Word("catch_syscalls", << <<1, 5>> >>, <<"QCatchSyscalls:1", ";", "1", ";", "1", "2">>)
  \cup Word("set_pass_signals", << <<>> >>, <<"QPassSignals:">>)
  \cup Word("set_pass_signals", << <<5, 2>> >>, <<"QPassSignals:", "1", "2", ";", "2">>)
  \cup Word("set_program_signals", << <<0>> >>, <<"QProgramSignals:", "0">>)
  \cup Word("process_symbol", << <<>>, <<>> >>, <<"qSymbol:", ":">>)
  \cup Word("process_symbol", << <<5>>, <<7>> >>, <<"qSymbol:", "1", "2", ":", "2", "1">>)
  \cup Word("none", <<>>, <<"qC", "RC:", "0", ",", "1">>)
  \cup {Request("read_bytes", << <<Code("features")>>, <<Code("target.xml")>>, <<n>>, <<5>> >>,
                <<"qXfer:", "features", ":", "read:", "target.xml", ":">> \o Hex(n) \o <<",">> \o Hex(5)) : n \in Nums}

Point(z, kind, method, tail) ==
  {Request(method, <<<<a>>, <<2>>>> \o tail.args, <<z, kind, ",">> \o Hex(a) \o <<",", "2">> \o tail.body) : a \in Addr}

Tail0 == [args |-> <<>>, body |-> <<>>]
NoLists == [args |-> <<None, None>>, body |-> <<>>]

(* Lists as the repository's tests write them, a byte of bytecode for a    *)
(* byte: one condition of two bytes, one of one; one command, kept or not. *)
TestLists == {
  [args |-> << <<2, Code("l"), Code("c"), 1, Code("]")>>, None>>,
   body |-> <<";", "X", "2", ",", "l", "c", "X", "1", ",", "]">>],
  [args |-> <<None, <<1, Code("l")>> >>, body |-> <<";", "cmds", "1", ",", "X", "1", ",", "l">>],
  [args |-> << <<1, Code("c")>>, <<1, Code("]")>> >>,
   body |-> <<";", "X", "1", ",", "c", ";", "cmds", "X", "1", ",", "]">>]}

(* Lists as gdb writes them, bytecode in hexadecimal and a colon after     *)
(* cmds: a condition of two bytes, a command that is kept.                 *)
GdbLists == {
  [args |-> << <<2, 7, 8>>, None>>, body |-> <<";", "X", "2", ",">> \o GdbBytes(<<7, 8>>)],
  [args |-> <<None, <<1, 8>> >>, body |-> <<";", "cmds", ":", "1", ",", "X", "1", ",">> \o GdbBytes(<<8>>)]}

Breakpoints(lists) ==
  UNION {Point("Z", "0", "insert_software_breakpoint", l) \cup Point("Z", "1", "insert_hardware_breakpoint", l) : l \in lists}

PointRequests ==
  Breakpoints({NoLists} \cup TestLists \cup GdbLists)
  \cup Point("Z", "2", "insert_write_watchpoint", Tail0) \cup Point("z", "2", "remove_write_watchpoint", Tail0)
  \cup Point("Z", "3", "insert_read_watchpoint", Tail0) \cup Point("z", "3", "remove_read_watchpoint", Tail0)
  \cup Point("Z", "4", "insert_access_watchpoint", Tail0) \cup Point("z", "4", "remove_access_watchpoint", Tail0)
  \cup Point("z", "0", "remove_software_breakpoint", NoLists) \cup Point("z", "1", "remove_hardware_breakpoint", NoLists)

(* Bodies that are no request: cut short, too long a number, a length that *)
(* disagrees, lists that end in the middle, actions that do not exist.     *)
TooLong == <<"1">> \o [k \in 1 .. 8 |-> "0"]
MalformedRequests == {Request("malformed", <<>>, body) : body \in {
  <<>>, <<"m">>, <<"m", "1">>, <<"m">> \o TooLong \o <<",", "1">>, <<"G", "1">>, <<"R", "0">>,
  <<"M", "0", ",", "2", ":", "0", "0">>, <<"X", "0", ",", "1", ":", "}">>, <<"H", "g">>,
  <<"D", ";">>, <<"D", ";">> \o TooLong, <<"v", "Cont">>, <<"v", "Cont", ";">>, <<"v", "Cont", ";", "k">>,
  <<"v", "Cont", ";", "c", ":", "p">> \o TooLong, <<"v", "File:", "open:">>, <<"v", "Kill;">>,
  <<"qSupported">>, <<"QCatchSyscalls:1", ";">>, <<"QProgramSignals:">>, <<"qXfer:", "features", ":">>,
  <<"QPassSignals:", "1", ";">> \o TooLong,
  <<"Z", "0", ",", "0", ",", "0", ";">>, <<"Z", "0", ",", "0", ",", "0", ";", "X", "2", ",", "l">>,
  <<"Z", "1", ",", "0", ",", "0", ";", "X", "1", ",", "l", "c">>, <<"Z", "0", ",", "0", ",", "0", ";", "cmds">>,
  <<"Z", "1", ",", "0", ",", "0", ";", "cmds", "1", ",", "X", "1", ",", "l", "X">>, <<"Z", "4">>}}

VFile(word, body) == <<"v", "File:", word>> \o body

FileRequests ==
  {Request("host_open", <<name, <<flags>>, <<3>> >>,
           VFile("open:", GdbBytes(name) \o <<",">> \o Hex(flags) \o <<",">> \o Hex(3))) :
     name \in {<<7>>}, flags \in {0, 2 + 8 + 32, 1 + 8 + 16, 2 + 4}}
  \cup {Request("host_open", <<name, <<0>>, <<2>> >>,
           VFile("open:", GdbBytes(name) \o <<",", "0", ",", "2">>)) : name \in {<<5>>, <<7, 0>>}}
  \cup {Request("host_close", <<<<fd>>>>, VFile("close:", Hex(fd))) : fd \in Fds}
  \cup {Request("host_pread", <<<<fd>>, <<n>>, <<off>>>>,
                VFile("pread:", Hex(fd) \o <<",">> \o Hex(n) \o <<",">> \o Hex(off))) :
          fd \in Fds, n \in {2}, off \in {0, 1}}
  \cup {Request("host_pwrite", <<<<fd>>, <<off>>, d>>,
                VFile("pwrite:", Hex(fd) \o <<",">> \o Hex(off) \o <<",">> \o GdbEscaped(d))) :
          fd \in Fds, off \in {0, 1}, d \in {<<4>>, <<3, 1>>}}
  \cup {Request("host_fstat", <<<<fd>>>>, VFile("fstat:", Hex(fd))) : fd \in Fds}
  \cup Word("host_pread", << <<0>>, <<Word64 - 1>>, <<0>> >>,
            VFile("pread:", <<"0", ",">> \o Hex(Word64 - 1) \o <<",", "0">>))
  \cup Word("host_pread", << <<0>>, <<1>>, <<Word64 - 1>> >>,
            VFile("pread:", <<"0", ",", "1", ",">> \o Hex(Word64 - 1)))

OtherFileRequests ==
  {Request("host_unlink", << <<7>> >>, VFile("unlink:", GdbBytes(<<7>>))),
   Request("host_readlink", << <<7>> >>, VFile("readlink:", GdbBytes(<<7>>))),
   Request("host_setfs", << <<0>> >>, VFile("setfs:", <<"0">>))}

TargetRequests == RegisterRequests \cup ThreadRequests \cup ProcessRequests \cup SettingRequests
                  \cup PointRequests \cup MalformedRequests \cup OtherFileRequests

(* The requests about the target and those about files share no state of   *)
(* the server: a session of each shows as much as a session of both.       *)
AllMethods == {Methods[c].name : c \in DOMAIN Methods}
MCSessions == [
  target |-> [requests |-> TargetRequests, handler |-> AllMethods, files |-> {<<>>}],
  default |-> [requests |-> TargetRequests, handler |-> {"attached", "halt_reason"}, files |-> {<<>>}],
  files |-> [requests |-> FileRequests \cup OtherFileRequests, handler |-> {"fs"},
             files |-> {<<>>, <<7>> :> [bytes |-> <<8>>, mode |-> {128, 256, 32768}]}]]

(* The text of an error reply, and one that only begins like it.           *)
ErrorLike == {<<Code("E"), Code("0"), Code("0")>>, <<Code("E"), Code("0")>>}

MCValues == [
  Error |-> {Result("Unimplemented", <<>>), Result("Error", << <<0>> >>), Result("Error", << <<8>> >>)},
  Unit |-> {Result("Unit", <<>>)},
  Bytes |-> {Result("Bytes", <<d>>) : d \in {<<>>, <<1>>, <<0, 1>>, <<8>>}},
  BytesOrEof |-> {Result("BytesOrEof", <<d, <<e>>>>) :
                    d \in {<<>>, <<1>>, <<3, 5>>, <<3>>, <<4, 2>>, <<0, 7>>, <<8>>}, e \in {0, 1}},
  StopReason |-> {Result("Signal", << <<5>> >>), Result("Exited", << <<1>>, <<5>> >>), Result("Exited", << <<5>>, <<1>> >>),
                  Result("ExitedWithSignal", << <<1>>, <<5>> >>), Result("ExitedWithSignal", << <<5>>, <<1>> >>),
                  Result("ThreadExited", << <<1, 5>>, <<5>> >>), Result("NoMoreThreads", <<>>)},
  ProcessType |-> {Result("ProcessType", << <<b>> >>) : b \in {0, 1}},
  Thread |-> {Result("NoThread", <<>>), Result("Thread", << <<1, 5>> >>), Result("Thread", << <<AllId, 1>> >>)},
  Threads |-> {Result("Threads", t) : t \in {<<>>, << <<1, 5>> >>, << <<1, 5>>, <<1, 2>> >>}},
  SearchResult |-> {Result("Found", << <<0>> >>), Result("Found", << <<Word64 - 1>> >>), Result("NotFound", <<>>)},
  VContFeatures |-> {Result("VContFeatures", << <<Code("c")>>, <<Code("s")>> >>), Result("VContFeatures", << <<Code("c")>> >>)},
  Symbol |-> {Result("NoSymbol", <<>>), Result("Symbol", << <<7>> >>)},
  Features |-> {Result("Features", <<>>), Result("Features", << <<Code("swbreak+")>> >>)},
  String |-> {Result("String", <<d>>) : d \in {<<>>, <<7>>, <<7, 1, 8>>} \cup ErrorLike},
  Output |-> {Result("Output", <<d>>) : d \in {<<>>, <<7>>, <<1, 8>>}}]

MCFileNames == {<<7>>}
MCFds == {0, 1}
=============================================================================
