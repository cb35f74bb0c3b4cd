----------------------------- MODULE GdbCommands -----------------------------
(***************************************************************************)
(* handle_packet of ckb-gdb-remote-protocol: what happens between a packet *)
(* that PacketStream has taken out of the stream and the response frame.   *)
(* The body is parsed, a method of the Handler or of its FileSystem is     *)
(* called, the result becomes a Response, and the Response is written      *)
(* through PacketWriter to a stream that may take only a part of what it   *)
(* is given, or fail.                                                      *)
(*                                                                         *)
(* The Handler is a black box: it has some of the methods (the others      *)
(* have the trait's defaults), and a method may return any value of its    *)
(* type.  Its FileSystem is LibcFS.  gdb is external: it makes a request,  *)
(* waits for the frame, and remembers what it has learnt about files.      *)
(***************************************************************************)
EXTENDS CommandGrammar, HostFs

CONSTANTS Sessions,   (* by name: the requests gdb makes, the methods that *)
                      (* the handler has, the files the host starts with   *)
          Values      (* what methods return, by type                      *)

(* A request: what gdb asks for (the method and its arguments, "malformed" *)
(* for a body that is no request) and the body it sends.                   *)
Request(method, args, body) == [method |-> method, args |-> args, body |-> body]

VARIABLES session,    (* the one of Sessions that this is                  *)
          phase,      (* "idle", "asked", "writing", "answered", "broken", *)
                      (* "panicked"                                        *)
          request,    (* what gdb has asked last                           *)
          called,     (* the method that has been called, and its arguments*)
          result,     (* what it has returned                              *)
          left,       (* what of the body is still to be written           *)
          sent,       (* what the stream has taken of this response        *)
          checksum,   (* of PacketWriter                                   *)
          fs,         (* the files and the open descriptors of the host    *)
          gdb         (* what gdb knows: of its descriptors and the files  *)

vars == <<session, phase, request, called, result, left, sent, checksum, fs, gdb>>

Nothing == [method |-> "none", args |-> <<>>]
NoResult == Result("none", <<>>)
Unknown == <<-1>>

Init ==
  /\ session \in DOMAIN Sessions
  /\ phase = "idle"
  /\ request = Request("none", <<>>, <<>>)
  /\ called = Nothing
  /\ result = NoResult
  /\ left = <<>>
  /\ sent = <<>>
  /\ checksum = 0
  /\ \E f \in Sessions[session].files : fs = [files |-> f, fds |-> <<>>]
  /\ gdb = [fds |-> <<>>, files |-> [n \in FileNames |-> Unknown]]

-----------------------------------------------------------------------------
(* The methods of Handler, by command, and the types of their results.     *)

Method(name, type) == [name |-> name, type |-> type]

Target == [
  TargetHaltReason |-> Method("halt_reason", "StopReason"),
  ReadGeneralRegisters |-> Method("read_general_registers", "Bytes"),
  WriteGeneralRegisters |-> Method("write_general_registers", "Unit"),
  Kill |-> Method("kill", "Unit"),
  ReadRegister |-> Method("read_register", "Bytes"),
  WriteRegister |-> Method("write_register", "Unit"),
  ReadMemory |-> Method("read_memory", "Bytes"),
  WriteMemory |-> Method("write_memory", "Unit"),
  SetCurrentThread |-> Method("set_current_thread", "Unit"),
  Detach |-> Method("detach", "Unit"),
  PingThread |-> Method("ping_thread", "Unit"),
  VContSupported |-> Method("query_supported_vcont", "VContFeatures"),
  VCont |-> Method("vcont", "StopReason")]

Queries == [
  Attached |-> Method("attached", "ProcessType"),
  CurrentThread |-> Method("current_thread", "Thread"),
  Invoke |-> Method("invoke", "Output"),
  SearchMemory |-> Method("search_memory", "SearchResult"),
  SupportedFeatures |-> Method("query_supported_features", "Features"),
  AddressRandomization |-> Method("set_address_randomization", "Unit"),
  CatchSyscalls |-> Method("catch_syscalls", "Unit"),
  PassSignals |-> Method("set_pass_signals", "Unit"),
  ProgramSignals |-> Method("set_program_signals", "Unit"),
  ThreadInfo |-> Method("thread_info", "String"),
  ThreadList |-> Method("thread_list", "Threads"),
  ReadBytes |-> Method("read_bytes", "BytesOrEof"),
  Symbol |-> Method("process_symbol", "Symbol")]

Points == [
  InsertSoftwareBreakpoint |-> Method("insert_software_breakpoint", "Unit"),
  InsertHardwareBreakpoint |-> Method("insert_hardware_breakpoint", "Unit"),
  InsertWriteWatchpoint |-> Method("insert_write_watchpoint", "Unit"),
  InsertReadWatchpoint |-> Method("insert_read_watchpoint", "Unit"),
  InsertAccessWatchpoint |-> Method("insert_access_watchpoint", "Unit"),
  RemoveSoftwareBreakpoint |-> Method("remove_software_breakpoint", "Unit"),
  RemoveHardwareBreakpoint |-> Method("remove_hardware_breakpoint", "Unit"),
  RemoveWriteWatchpoint |-> Method("remove_write_watchpoint", "Unit"),
  RemoveReadWatchpoint |-> Method("remove_read_watchpoint", "Unit"),
  RemoveAccessWatchpoint |-> Method("remove_access_watchpoint", "Unit")]

Methods == Target @@ Queries @@ Points

(* The trait's defaults; attached and halt_reason have none.               *)
Default(method) ==
  CASE method = "query_supported_features" -> Result("Features", <<>>)
    [] method = "current_thread" -> Result("NoThread", <<>>)
    [] method \in {"set_pass_signals", "set_program_signals"} -> Result("Unit", <<>>)
    [] OTHER -> Result("Unimplemented", <<>>)

(* What a call may return; query_supported_features cannot fail.           *)
Results(method) ==
  IF method.name \notin Sessions[session].handler THEN {Default(method.name)}
  ELSE Values[method.type] \cup (IF method.type = "Features" THEN {} ELSE Values.Error)

-----------------------------------------------------------------------------
(* Responses.                                                              *)

(* From<..> for Response and handle_supported_features.                    *)
ResponseOf(r) ==
  CASE r.kind \in {"Unimplemented", "NotSupported"} -> Result("Empty", <<>>)
    [] r.kind \in {"Unit", "NoSymbol"} \/ r = Result("Output", << <<>> >>) -> Result("Ok", <<>>)
    [] OTHER -> r

(* Characters as they are: write!(writer, "{}", s)                         *)
Chars(codes) == [k \in DOMAIN codes |-> Characters[codes[k] + 1]]

Separated(separator, parts) ==
  FlattenSeq([k \in DOMAIN parts |-> IF k = 1 THEN parts[k] ELSE <<separator>> \o parts[k]])

BuiltIn == << <<"PacketSize", "=", "1", "0">>, <<"QStartNoAckMode+">>, <<"multiprocess+">>,
  <<"QDisableRandomization+">>, <<"QCatchSyscalls+">>, <<"QPassSignals+">>, <<"QProgramSignals+">> >>

StopReply(r) ==
  CASE r.kind = "Signal" -> <<"S">> \o Hex02(r.data[1][1])
    [] r.kind = "Exited" -> <<"W">> \o Hex02(r.data[2][1]) \o <<";", "process:">> \o Hex(r.data[1][1])
    [] r.kind = "ExitedWithSignal" -> <<"X">> \o Hex(r.data[2][1]) \o <<";", "process:">> \o Hex(r.data[1][1])
    [] r.kind = "ThreadExited" -> <<"w">> \o Hex(r.data[2][1]) \o <<";">> \o write_thread_id(r.data[1])
    [] r.kind = "NoMoreThreads" -> <<"N">>

HostReply(r) ==
  CASE r.kind = "HostOk" -> <<"F", "0">>
    [] r.kind = "HostErrno" -> <<"F", "-1", ",">> \o Hex(r.data[1][1])
    [] r.kind = "HostInteger" -> <<"F">> \o Hex(r.data[1][1])
    [] r.kind \in {"HostData", "HostStat"} ->
         <<"F">> \o Hex(Len(r.data[1])) \o <<";">> \o write_binary_data(r.data[1])

StopReasons == {"Signal", "Exited", "ExitedWithSignal", "ThreadExited", "NoMoreThreads"}
HostIOResults == {"HostOk", "HostErrno", "HostInteger", "HostData", "HostStat"}

write_response(r) ==
  CASE r.kind = "Ok" -> <<"OK">>
    [] r.kind = "Empty" -> <<>>
    [] r.kind = "Error" -> <<"E">> \o Hex02(r.data[1][1])
    [] r.kind = "String" -> Chars(r.data[1])
    [] r.kind = "Output" -> <<"O">> \o write_hex_data(r.data[1])
    [] r.kind = "Bytes" -> write_hex_data(r.data[1])
    [] r.kind = "BytesOrEof" -> <<IF r.data[2] = <<1>> THEN "l" ELSE "m">> \o write_binary_data(r.data[1])
    [] r.kind = "NoThread" -> <<"OK">>
    [] r.kind = "Thread" -> <<"QC">> \o write_thread_id(r.data[1])
    [] r.kind = "ProcessType" -> IF r.data[1] = <<1>> THEN <<"1">> ELSE <<"0">>
    [] r.kind = "Found" -> <<"1", ",">> \o Hex(r.data[1][1])
    [] r.kind = "NotFound" -> <<"0">>
    [] r.kind \in StopReasons -> StopReply(r)
    [] r.kind = "VContFeatures" ->
         <<"v", "Cont">> \o FlattenSeq([k \in DOMAIN r.data |-> <<";">> \o Chars(r.data[k])])
    [] r.kind = "Threads" -> IF r.data = <<>> THEN <<"l">>
         ELSE <<"m">> \o Separated(",", [k \in DOMAIN r.data |-> write_thread_id(r.data[k])])
    [] r.kind = "Symbol" -> <<"qSymbol:">> \o write_hex_data(r.data[1])
    [] r.kind = "Features" -> Separated(";", BuiltIn \o [k \in DOMAIN r.data |-> Chars(r.data[k])])
    [] r.kind \in HostIOResults -> HostReply(r)

-----------------------------------------------------------------------------
(* handle_packet.                                                          *)

(* write_response starts: "$", and a PacketWriter with checksum 0.         *)
Respond(call, value, response) ==
  /\ called' = call
  /\ result' = value
  /\ left' = write_response(response)
  /\ sent' = <<"$">>
  /\ checksum' = 0
  /\ phase' = "writing"

(* command(data), for every body that gdb may send.                        *)
Commands == [body \in UNION {{r.body : r \in Sessions[s].requests} : s \in DOMAIN Sessions} |-> Parsed(body)]

Command == Commands[request.body]

(* Mutant: a body that is no command gets no response.                     *)
Handled_NoneSilent == [EnableExtendedMode |-> "Ok", StartNoAckMode |-> "Ok", Reset |-> "Empty",
                       CtrlC |-> "Empty", UnknownVCommand |-> "Empty"]

(* Commands that the library answers by itself, and bodies that are not a  *)
(* command, which are "not implemented".                                   *)
Handled == [none |-> "Empty", EnableExtendedMode |-> "Ok", StartNoAckMode |-> "Ok", Reset |-> "Empty",
            CtrlC |-> "Empty", UnknownVCommand |-> "Empty"]

HandleHere ==
  /\ phase = "asked"
  /\ Command.name \in DOMAIN Handled
  /\ Respond(Nothing, NoResult, Result(Handled[Command.name], <<>>))
  /\ UNCHANGED <<session, request, fs, gdb>>

(* The length of a WriteMemory disagrees with its data.                    *)
Disagrees(command_) == command_.name = "WriteMemory" /\ command_.args[2] # <<Len(command_.args[3])>>

RefuseWrite ==
  /\ phase = "asked"
  /\ Disagrees(Command)
  /\ Respond(Nothing, NoResult, Result("Error", << <<1>> >>))
  /\ UNCHANGED <<session, request, fs, gdb>>

(* write_memory is not given the length; the k packet drops the result.    *)
Arguments(command_) ==
  IF command_.name = "WriteMemory" THEN <<command_.args[1], command_.args[3]>>
  ELSE IF command_.name = "SupportedFeatures" THEN <<>> ELSE command_.args

Dropped(command_) == command_.name = "Kill" /\ command_.args = <<>>

CallHandler ==
  /\ phase = "asked"
  /\ Command.name \in DOMAIN Methods
  /\ ~Disagrees(Command)
  /\ LET m == Methods[Command.name]
     IN \E r \in Results(m) :
          Respond([method |-> m.name, args |-> Arguments(Command)], r,
                  IF Dropped(Command) THEN Result("Empty", <<>>) ELSE ResponseOf(r))
  /\ UNCHANGED <<session, request, fs, gdb>>

(* The vFile operations, on the FileSystem of the handler if it has one.   *)
FileMethods == [HostOpen |-> "host_open", HostClose |-> "host_close", HostPRead |-> "host_pread",
  HostPWrite |-> "host_pwrite", HostFStat |-> "host_fstat", HostUnlink |-> "host_unlink",
  HostReadlink |-> "host_readlink", HostSetFS |-> "host_setfs"]

FileOutcomes(name, a) ==
  CASE name = "HostOpen" -> host_open(fs, a[1], from_bits_truncate(HostOpenFlags, a[2][1]),
                                      from_bits_truncate(HostMode, a[3][1]))
    [] name = "HostClose" -> host_close(fs, a[1][1])
    [] name = "HostPRead" -> host_pread(fs, a[1][1], a[2][1], a[3][1])
    [] name = "HostPWrite" -> host_pwrite(fs, a[1][1], a[2][1], a[3])
    [] name = "HostFStat" -> host_fstat(fs, a[1][1])
    [] name = "HostUnlink" -> host_unlink(fs, a[1])
    [] name = "HostReadlink" -> host_readlink(fs, a[1])
    [] name = "HostSetFS" -> host_setfs(fs, a[1][1])

TooLarge(command_) == command_.name = "HostPRead" /\ ~Allocatable(command_.args[2][1])

CallFileSystem ==
  /\ phase = "asked"
  /\ Command.name \in DOMAIN FileMethods
  /\ "fs" \in Sessions[session].handler
  /\ ~TooLarge(Command)
  /\ \E out \in FileOutcomes(Command.name, Command.args) :
       /\ Respond([method |-> FileMethods[Command.name], args |-> Command.args], out.result, ResponseOf(out.result))
       /\ fs' = out.fs
  /\ UNCHANGED <<session, request, gdb>>

NoFileSystem ==
  /\ phase = "asked"
  /\ Command.name \in DOMAIN FileMethods
  /\ "fs" \notin Sessions[session].handler
  /\ Respond(Nothing, Result("NotSupported", <<>>), Result("Empty", <<>>))
  /\ UNCHANGED <<session, request, fs, gdb>>

(* An unwrap of a parser (of a number, lib.rs 530, or of what is left of a *)
(* breakpoint, 866), or the allocation of a read (libc_fs.rs 164), takes   *)
(* the server down.                                                        *)
Crash ==
  /\ phase = "asked"
  /\ Command.name = "panic" \/ ("fs" \in Sessions[session].handler /\ TooLarge(Command))
  /\ phase' = "panicked"
  /\ UNCHANGED <<session, request, called, result, left, sent, checksum, fs, gdb>>

-----------------------------------------------------------------------------
(* PacketWriter.                                                           *)

(* Mutant: the checksum takes in all of the buffer, not what was written.  *)
Counted_All(buffer, count) == buffer

Counted(buffer, count) == SubSeq(buffer, 1, count)

Unwritten(buffer, count) == SubSeq(buffer, count + 1, Len(buffer))

(* The stream takes count bytes of what it is given.                       *)
Write(count) ==
  /\ phase = "writing"
  /\ left # <<>>
  /\ sent' = sent \o SubSeq(left, 1, count)
  /\ checksum' = Checksum(Counted(left, count), checksum)
  /\ left' = Unwritten(left, count)
  /\ UNCHANGED <<session, phase, request, called, result, fs, gdb>>

finish ==
  /\ phase = "writing"
  /\ left = <<>>
  /\ sent' = sent \o <<"#">> \o Hex02(checksum)
  /\ checksum' = 0
  /\ phase' = "answered"
  /\ UNCHANGED <<session, request, called, result, left, fs, gdb>>

(* The local variables of handle_packet are gone when it returns.          *)
Forget ==
  /\ request' = Request("none", <<>>, <<>>)
  /\ called' = Nothing
  /\ result' = NoResult
  /\ left' = <<>>
  /\ sent' = <<>>
  /\ checksum' = 0

(* The stream fails; process_packets_from goes on as if nothing happened,  *)
(* but gdb is gone.                                                        *)
WriteFails ==
  /\ phase = "writing"
  /\ phase' = "broken"
  /\ Forget
  /\ UNCHANGED <<session, fs, gdb>>

(* Any count can be reached by single bytes and one last write of it all.  *)
Server ==
  \/ HandleHere \/ RefuseWrite \/ CallHandler \/ CallFileSystem \/ NoFileSystem \/ Crash
  \/ \E count \in {1, Len(left)} : Write(count)
  \/ finish

-----------------------------------------------------------------------------
(* gdb.                                                                    *)

Ask(r) ==
  /\ phase = "idle"
  /\ request' = r
  /\ phase' = "asked"
  /\ UNCHANGED <<session, called, result, left, sent, checksum, fs, gdb>>

(* The body of the frame: from "$" to the first "#".                       *)
Received == SubSeq(sent, 2, Min({k \in DOMAIN sent : sent[k] = "#"}) - 1)

GdbUnescape(chars) ==
  LET Step(r, c) ==
        IF r.escaped THEN [escaped |-> FALSE, data |-> Append(r.data, Flip(Code(c)))]
        ELSE IF c = "}" THEN [r EXCEPT !.escaped = TRUE]
        ELSE [r EXCEPT !.data = Append(@, Code(c))]
  IN FoldLeft(Step, [escaped |-> FALSE, data |-> <<>>], chars).data

(* "F" result [";" data]; anything else is a failure.                      *)
FileReply ==
  LET n == Digits(After(Received, 1))
  IN IF ~Tagged(Received, "F") \/ n = 0 THEN [ret |-> -1, data |-> <<>>]
     ELSE [ret |-> Value(SubSeq(Received, 2, n + 1)), data |-> GdbUnescape(After(Received, n + 2))]

Asks(flag) == flag \in from_bits_truncate(HostOpenFlags, request.args[2][1])

(* What gdb knows after a reply: a file it has truncated or created is     *)
(* empty, and holds what gdb has been told it has written.  Where a write  *)
(* through O_APPEND has gone gdb cannot know.                              *)
Learnt ==
  LET a == request.args
      reply == FileReply
      open == request.method \in {"host_close", "host_pwrite"} /\ a[1][1] \in DOMAIN gdb.fds
      file == gdb.fds[a[1][1]]
      known == gdb.files[file.name]
  IN IF reply.ret = -1 THEN gdb
     ELSE IF request.method = "host_open"
       THEN [fds |-> (reply.ret :> [name |-> a[1], append |-> Asks("O_APPEND")]) @@ gdb.fds,
             files |-> IF Asks("O_TRUNC") \/ (Asks("O_CREAT") /\ Asks("O_EXCL"))
                         THEN [gdb.files EXCEPT ![a[1]] = <<>>] ELSE gdb.files]
     ELSE IF ~open THEN gdb
     ELSE IF request.method = "host_close"
       THEN [gdb EXCEPT !.fds = [d \in DOMAIN @ \ {a[1][1]} |-> @[d]]]
     ELSE [gdb EXCEPT !.files[file.name] =
             IF file.append \/ known = Unknown THEN Unknown
             ELSE Overwrite(known, a[2][1], SubSeq(a[3], 1, reply.ret))]

Receive ==
  /\ phase = "answered"
  /\ gdb' = Learnt
  /\ phase' = "idle"
  /\ Forget
  /\ UNCHANGED <<session, fs>>

Next == Server \/ WriteFails \/ Receive \/ \E r \in Sessions[session].requests : Ask(r)

(* The server's thread is scheduled, the methods of the handler return     *)
(* (that of vcont: the subject of GdbServer), and a stream that has not    *)
(* failed takes what is written to it.                                     *)
Fairness == WF_vars(Server)

Spec == Init /\ [][Next]_vars /\ Fairness

-----------------------------------------------------------------------------
(* Properties.                                                             *)

InFiles == request.method \in Range(FileMethods)

(* Known gaps of the grammar: "qCRC:" starts with the tag "qC", and a      *)
(* qSymbol that brings a value does not end after its second colon.        *)
Shadowed ==
  \/ Slice(request.body, 1, 2) = <<"qC", "RC:">>
  \/ Tagged(request.body, "qSymbol:") /\ Last(request.body) # ":"

(* What gdb asks for is what the handler is asked for: the method (or none,*)
(* where the library answers by itself) and every argument survive gdb's   *)
(* encoding and the grammar, whose rows are tried in order and share their *)
(* first characters.                                                       *)
CalledAsAsked ==
  phase \in {"writing", "answered"} /\ request.method # "malformed" /\ ~Shadowed =>
    called = IF InFiles /\ "fs" \notin Sessions[session].handler THEN Nothing
             ELSE [method |-> request.method, args |-> request.args]

(* Strings of the handler go out as they are: one with a "#" ends the      *)
(* frame early.                                                            *)
Framing == {"#", "$", "*"}
RawString == result.kind \in {"String", "Features"} /\ \E k \in DOMAIN result.data :
               Range(Chars(result.data[k])) \cap Framing # {}

(* Empty data looks like "not implemented", and the string of a thread_info*)
(* that spells an error reply ("E01") like that error.                     *)
LooksEmpty(r) == r \in {Result("Bytes", << <<>> >>), Result("String", << <<>> >>)}
ReadsAsError(r) ==
  r.kind = "String" /\ \E b \in Byte : write_response(r) = write_response(Result("Error", << <<b>> >>))
Ambiguous(r) == LooksEmpty(r) \/ ReadsAsError(r)

(* The response to a call tells its result from every other result that    *)
(* the method could have returned: whether it is implemented, whether it   *)
(* failed and with which error, and each value, escaped bytes included.    *)
(* Only empty data and strings that spell an error can be mistaken.        *)
AnswersTellResultsApart ==
  phase = "answered" /\ Command.name \in DOMAIN Methods /\ ~Disagrees(Command) /\ ~Dropped(Command) /\ ~RawString =>
    \A r \in Results(Methods[Command.name]) :
      write_response(ResponseOf(r)) = Received => r = result \/ Ambiguous(r) \/ Ambiguous(result)

(* However the stream cuts up the writes, what gdb gets is one frame whose *)
(* checksum is that of its body, with no "#", "$" or "*" inside, unless    *)
(* the handler's own string has one.                                       *)
OneFrame ==
  phase = "answered" /\ ~RawString =>
    /\ sent = <<"$">> \o Received \o <<"#">> \o Hex02(Checksum(Received, 0))
    /\ Range(Received) \cap Framing = {}

(* A number that no u64 holds somewhere in the body; something behind the  *)
(* kind of a breakpoint that is to be inserted; a read of half the address *)
(* space.                                                                  *)
HasHugeNumber(body) ==
  \E j, k \in DOMAIN body :
    Range(SubSeq(body, j, k)) \subseteq Range(Digit) /\ Value(SubSeq(body, j, k)) >= Word64
HasLists(body) ==
  Slice(body, 1, 2) \in {<<"Z", "0">>, <<"Z", "1">>} /\ ~(Range(After(body, 2)) \subseteq Range(Digit) \cup {","})
ReadsTooMuch == request.method = "host_pread" /\ request.args[2][1] >= Word64 \div 2

(* The panics of the library are these: one packet takes the server down   *)
(* only by a number of more than 64 bits, by a list behind a breakpoint    *)
(* (as gdb writes them, all lists do) or by an enormous read; no other     *)
(* body does, cut short or not.                                            *)
PanicsOnlyAsKnown ==
  phase = "panicked" => HasHugeNumber(request.body) \/ HasLists(request.body) \/ ReadsTooMuch

(* What gdb reads from a file, and the size it is told, are what gdb has   *)
(* written there, through short writes, holes, full disks, two descriptors *)
(* of one file and the escaping of binary data in both directions.         *)
FilesAsGdbBelieves ==
  LET a == request.args
      known == gdb.files[gdb.fds[a[1][1]].name]
      reply == FileReply
      there == Slice(known, a[3][1] + 1, a[3][1] + a[2][1])
  IN /\ phase = "answered"
     /\ request.method \in {"host_pread", "host_fstat"}
     /\ a[1][1] \in DOMAIN gdb.fds
     /\ known # Unknown
     /\ reply.ret >= 0
     => IF request.method = "host_pread"
          THEN /\ reply.data = SubSeq(there, 1, reply.ret)
               /\ Len(reply.data) = reply.ret
               /\ reply.ret = 0 => there = <<>>
          ELSE SubSeq(reply.data, 15, 18) = BigEndian(4, Len(known))

(* Every request is answered, unless the connection or the server breaks.  *)
EveryRequestIsAnswered == phase = "asked" ~> phase \in {"answered", "broken", "panicked"}
=============================================================================
