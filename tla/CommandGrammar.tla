--------------------------- MODULE CommandGrammar ----------------------------
(***************************************************************************)
(* The grammar of requests of ckb-gdb-remote-protocol: command and the     *)
(* parsers under it.  A row is a command and the pattern that stands for   *)
(* it: characters that must come next (tag!) and, in angle brackets, what  *)
(* is read as an argument.  As in alt!, the first row that matches wins;   *)
(* what it leaves of the input is ignored.                                 *)
(*                                                                         *)
(* The alternatives of command start with different characters, so its     *)
(* nested alternatives can be laid out as one list of rows.  The features  *)
(* all_stop and lldb are off, as everywhere in this repository.            *)
(***************************************************************************)
EXTENDS Wire

-----------------------------------------------------------------------------
(* The combinators of nom that the grammar uses.                           *)

(* many0!: as long as P reads something; Incomplete goes to the caller.    *)
Taken(r, one) ==
  IF one.ok THEN [v |-> r.v \o one.v, rest |-> one.rest, last |-> one] ELSE [r EXCEPT !.last = one]
All(r) == IF r.last.panic \/ r.last.more THEN r.last ELSE Done(r.v, r.rest)
Many0(P(_), i) ==
  All(FoldLeft(LAMBDA r, c : IF ~r.last.ok \/ r.rest = <<>> THEN r ELSE Taken(r, P(r.rest)),
               [v |-> <<>>, rest |-> i, last |-> Done(<<>>, i)], i))

Some(r, i) == IF r.ok /\ r.rest = i THEN Fail(i = <<>>) ELSE r
Many1(P(_), i) == Some(Many0(P, i), i)

(* complete!: Incomplete becomes an Error.                                 *)
Complete(r) == [r EXCEPT !.more = FALSE]

(* Reads a pattern: the arguments it reads, one after the other.           *)
Literal(r, item) == IF Tagged(r.rest, item) THEN [r EXCEPT !.rest = Tail(@)] ELSE Fail(r.rest = <<>>)
Argument(r, a) == IF a.ok THEN [a EXCEPT !.v = Append(r.v, @)] ELSE a
MatchWith(Kind(_, _), kinds, pattern, i) ==
  FoldLeft(LAMBDA r, item : IF ~r.ok THEN r
                            ELSE IF item \notin kinds THEN Literal(r, item) ELSE Argument(r, Kind(item, r.rest)),
           Done(<<>>, i), pattern)

(* alt_complete!: the first alternative that is read (or panics on the     *)
(* way), given what each of them makes of the input; 0 if there is none.   *)
First(tries) ==
  LET hits == {k \in DOMAIN tries : tries[k].ok \/ tries[k].panic} IN IF hits = {} THEN 0 ELSE Min(hits)

-----------------------------------------------------------------------------
(* Arguments.                                                              *)

hex_byte(i) ==
  IF Digits(Slice(i, 1, 2)) = 2 THEN Done(<<Value(SubSeq(i, 1, 2))>>, After(i, 2)) ELSE Fail(Len(i) < 2)

(* take_until!(":")                                                        *)
UpTo(i, n) == IF n = Len(i) THEN Fail(TRUE) ELSE Done([k \in 1 .. n |-> Code(i[k])], After(i, n))
Until(i) == UpTo(i, Leading(i, Range(Characters) \ {":"}))

(* separated_list_complete!(tag!(";"), hex_value), which may be empty      *)
NextNumber(i) == IF Tagged(i, ";") THEN Complete(hex_value(Tail(i))) ELSE Fail(FALSE)
Numbers(i) ==
  LET List(first, others) ==
        IF first.panic \/ others.panic THEN Panic
        ELSE IF first.ok THEN Done(first.v \o others.v, others.rest) ELSE Done(<<>>, i)
  IN List(hex_value(i), Many0(NextNumber, hex_value(i).rest))

(* many0!(preceded!(tag!(";"), hex_value))                                 *)
Syscall(i) == IF Tagged(i, ";") THEN hex_value(Tail(i)) ELSE Fail(FALSE)

(* gdbfeaturesupported: the list takes as many features as it can read,    *)
(* possibly none, and nobody looks at them.                                *)
Features(i) == Done(<<>>, <<>>)

SimpleKinds == {"<num>", "<byte>", "<bytes>", "<bin>", "<thread>", "<str>", "<eof>"}

Simple(kind, i) ==
  CASE kind = "<num>" -> hex_value(i)
    [] kind = "<byte>" -> hex_byte(i)
    [] kind = "<bytes>" -> hex_byte_sequence(i)
    [] kind = "<bin>" -> binary_byte_sequence(i)
    [] kind = "<thread>" -> parse_thread_id(i)
    [] kind = "<str>" -> Until(i)
    [] kind = "<eof>" -> IF i = <<>> THEN Done(<<>>, <<>>) ELSE Fail(FALSE)

-----------------------------------------------------------------------------
(* The actions of vCont: its number, its operands and the thread, if any.  *)

VCont == << <<";", "c">>, <<";", "C", "<byte>">>, <<";", "s">>, <<";", "S", "<byte>">>,
            <<";", "t">>, <<";", "r", "<num>", ",", "<num>">> >>

VContThread(n, action, thread) ==
  IF action.panic \/ thread.panic THEN Panic
  ELSE IF thread.ok THEN Done(<<n>> \o FlattenSeq(action.v) \o thread.v, thread.rest)
  ELSE Done(<<n>> \o FlattenSeq(action.v) \o NoThread, action.rest)

VContRest(n, action) ==
  VContThread(n, action, IF Tagged(action.rest, ":") THEN parse_thread_id(Tail(action.rest)) ELSE Fail(FALSE))

VContFirst(n, tries) == IF n = 0 THEN Fail(FALSE) ELSE VContRest(n, tries[n])

VContTries(tries) == VContFirst(First(tries), tries)

VContAction(i) == VContTries([k \in DOMAIN VCont |-> MatchWith(Simple, SimpleKinds, VCont[k], i)])

-----------------------------------------------------------------------------
(* The conditions and the commands of a breakpoint: bytecodes, each with   *)
(* its length in front; None is <<-1>>.                                    *)

None == <<-1>>

Bytecode(len, rest) ==
  IF len > Len(rest) THEN Fail(TRUE)
  ELSE Done(<<len>> \o [k \in 1 .. len |-> Code(rest[k])], After(rest, len))

BytecodeOf(len) ==
  IF ~len.ok THEN len
  ELSE IF ~Tagged(len.rest, ",") THEN Fail(len.rest = <<>>) ELSE Bytecode(len.v[1], Tail(len.rest))

parse_cond_or_command_expression(i) ==
  IF Tagged(i, "X") THEN BytecodeOf(hex_value(Tail(i))) ELSE Fail(i = <<>>)

Expressions(i) == Many1(parse_cond_or_command_expression, i)

(* No list, an incomplete one and anything else are all None.              *)
maybe_condition_list(i) ==
  LET Maybe(list) == IF list.ok \/ list.panic THEN list ELSE Done(None, i)
  IN Maybe(IF Tagged(i, ";") THEN Expressions(Tail(i)) ELSE Fail(FALSE))

(* The persistence flag is read and dropped.                               *)
parse_command_list(i) ==
  LET Flagged(flag) ==
        IF flag.panic THEN flag
        ELSE IF flag.ok /\ Tagged(flag.rest, ",") THEN Expressions(Tail(flag.rest)) ELSE Fail(FALSE)
      Either(flagged, plain) == IF flagged.ok \/ flagged.panic THEN flagged ELSE plain
  IN Either(Flagged(hex_value(i)), Complete(Expressions(i)))

(* Nothing, or a part of ";cmds", is None.  Anything that is not a command *)
(* list is an Error, on which parse_z_packet's unwrap panics.              *)
maybe_command_list(i) ==
  IF i \in {<<>>, <<";">>} THEN Done(None, i)
  ELSE IF ~(Tagged(i, ";") /\ i[2] = "cmds") THEN Panic
  ELSE LET Expected(list) == IF list.ok THEN list ELSE Panic IN Expected(parse_command_list(After(i, 2)))

-----------------------------------------------------------------------------
Kinds == SimpleKinds \cup {"<any>", "<two>", "<features>", "<syscalls>", "<numbers>", "<numbers+>",
                           "<actions>", "<conds>", "<cmds>", "<none>", "<true>", "<false>"}

Kind(kind, i) ==
  CASE kind \in SimpleKinds -> Simple(kind, i)
    [] kind = "<any>" -> Done(<<>>, <<>>)
    [] kind = "<two>" -> IF Len(i) < 2 THEN Fail(TRUE) ELSE Done(<<>>, After(i, 2))
    [] kind = "<features>" -> Features(i)
    [] kind = "<syscalls>" -> Many0(Syscall, i)
    [] kind = "<numbers>" -> Numbers(i)
    [] kind = "<numbers+>" -> IF hex_value(i).ok THEN Numbers(i) ELSE hex_value(i)
    [] kind = "<actions>" -> Many0(VContAction, i)
    [] kind = "<conds>" -> maybe_condition_list(i)
    [] kind = "<cmds>" -> maybe_command_list(i)
    [] kind = "<none>" -> Done(None, i)
    [] kind = "<true>" -> Done(<<1>>, i)
    [] kind = "<false>" -> Done(<<0>>, i)

(* Mutant: the shorter word comes first and hides the longer one.          *)
parse_d_packet_Swapped == << <<"Detach", <<"D">>>>, <<"Detach", <<"D", ";", "<num>">>>> >>

parse_d_packet == << <<"Detach", <<"D", ";", "<num>">>>>, <<"Detach", <<"D">>>> >>

parse_h_packet == <<
  <<"SetCurrentThread", <<"H", "g", "<true>", "<thread>">>>>,
  <<"SetCurrentThread", <<"H", "c", "<false>", "<thread>">>>> >>

write_memory == <<"WriteMemory", <<"M", "<num>", ",", "<num>", ":", "<bytes>">>>>
write_memory_binary == <<"WriteMemory", <<"X", "<num>", ",", "<num>", ":", "<bin>">>>>
read_memory == <<"ReadMemory", <<"m", "<num>", ",", "<num>">>>>
read_register == <<"ReadRegister", <<"p", "<num>">>>>
write_register == <<"WriteRegister", <<"P", "<num>", "=", "<bytes>">>>>
write_general_registers == <<"WriteGeneralRegisters", <<"G", "<bytes>">>>>
parse_ping_thread == <<"PingThread", <<"T", "<thread>">>>>
q_search_memory == <<"SearchMemory", <<"qSearch:memory:", "<num>", ";", "<num>", ";", "<bytes>">>>>

(* The tag "qC" comes before every other word that starts with it.         *)
query == <<
  <<"CurrentThread", <<"qC">>>>,
  <<"SupportedFeatures", <<"qSupported", ":", "<features>">>>>,
  <<"Invoke", <<"qRcmd,", "<bytes>">>>>,
  q_search_memory,
  <<"StartNoAckMode", <<"QStartNoAckMode">>>>,
  <<"Attached", <<"qAttached", ":", "<num>">>>>,
  <<"Attached", <<"qAttached">>>>,
  <<"ThreadList", <<"qfThreadInfo", "<true>">>>>,
  <<"ThreadList", <<"qsThreadInfo", "<false>">>>>,
  <<"AddressRandomization", <<"QDisableRandomization:0", "<true>">>>>,
  <<"AddressRandomization", <<"QDisableRandomization:1", "<false>">>>>,
  <<"CatchSyscalls", <<"QCatchSyscalls:0">>>>,
  <<"CatchSyscalls", <<"QCatchSyscalls:1", "<syscalls>">>>>,
  <<"PassSignals", <<"QPassSignals:", "<numbers>">>>>,
  <<"ProgramSignals", <<"QProgramSignals:", "<numbers+>">>>>,
  <<"ThreadInfo", <<"qThreadExtraInfo,", "<thread>">>>>,
  <<"Symbol", <<"qSymbol:", "<str>", ":", "<eof>">>>>,
  <<"ReadBytes", <<"qXfer:", "<str>", ":", "read:", "<str>", ":", "<num>", ",", "<num>">>>> >>

parse_vfile_op == <<
  <<"HostOpen", <<"v", "File:", "open:", "<bytes>", ",", "<num>", ",", "<num>">>>>,
  <<"HostClose", <<"v", "File:", "close:", "<num>">>>>,
  <<"HostPRead", <<"v", "File:", "pread:", "<num>", ",", "<num>", ",", "<num>">>>>,
  <<"HostPWrite", <<"v", "File:", "pwrite:", "<num>", ",", "<num>", ",", "<bin>">>>>,
  <<"HostFStat", <<"v", "File:", "fstat:", "<num>">>>>,
  <<"HostUnlink", <<"v", "File:", "unlink:", "<bytes>">>>>,
  <<"HostReadlink", <<"v", "File:", "readlink:", "<bytes>">>>>,
  <<"HostSetFS", <<"v", "File:", "setfs:", "<num>">>>>,
  <<"UnknownVCommand", <<"v", "File:", "<any>">>>> >>

v_command == <<
  <<"CtrlC", <<"v", "CtrlC">>>>,
  <<"VContSupported", <<"v", "Cont", "?">>>>,
  <<"VCont", <<"v", "Cont", "<actions>">>>>,
  <<"Kill", <<"v", "Kill;", "<num>">>>> >> \o parse_vfile_op \o <<
  <<"UnknownVCommand", <<"v", "<any>">>>> >>

(* An insertion or a removal, by the type of the point.                    *)
parse_z_packet(action, type) == <<action, type, ",", "<num>", ",", "<num>">>

(* Breakpoints have conditions and commands, watchpoints a length.         *)
Lists == <<"<conds>", "<cmds>">>
insert_command == <<
  <<"InsertSoftwareBreakpoint", parse_z_packet("Z", "0") \o Lists>>,
  <<"InsertHardwareBreakpoint", parse_z_packet("Z", "1") \o Lists>>,
  <<"InsertWriteWatchpoint", parse_z_packet("Z", "2")>>,
  <<"InsertReadWatchpoint", parse_z_packet("Z", "3")>>,
  <<"InsertAccessWatchpoint", parse_z_packet("Z", "4")>> >>

remove_command == <<
  <<"RemoveSoftwareBreakpoint", parse_z_packet("z", "0") \o <<"<none>", "<none>">>>>,
  <<"RemoveHardwareBreakpoint", parse_z_packet("z", "1") \o <<"<none>", "<none>">>>>,
  <<"RemoveWriteWatchpoint", parse_z_packet("z", "2")>>,
  <<"RemoveReadWatchpoint", parse_z_packet("z", "3")>>,
  <<"RemoveAccessWatchpoint", parse_z_packet("z", "4")>> >>

command ==
  << <<"EnableExtendedMode", <<"!">>>>, <<"TargetHaltReason", <<"?">>>> >>
  \o parse_d_packet
  \o << <<"ReadGeneralRegisters", <<"g">>>>, write_general_registers >>
  \o parse_h_packet
  \o << <<"Kill", <<"k">>>>, read_memory, write_memory, read_register, write_register >>
  \o query
  \o << <<"Reset", <<"r">>>>, <<"Reset", <<"R", "<two>">>>>, parse_ping_thread >>
  \o v_command
  \o <<write_memory_binary>>
  \o insert_command \o remove_command

(* What command(data) returns: the command with its arguments, no command, *)
(* or a panic.                                                             *)
ParsedAs(n, tries) ==
  IF n = 0 THEN [name |-> "none", args |-> <<>>]
  ELSE IF tries[n].panic THEN [name |-> "panic", args |-> <<>>]
  ELSE [name |-> command[n][1], args |-> tries[n].v]

ParsedFrom(tries) == ParsedAs(First(tries), tries)

Parsed(data) == ParsedFrom([k \in DOMAIN command |-> MatchWith(Kind, Kinds, command[k][2], data)])
=============================================================================
