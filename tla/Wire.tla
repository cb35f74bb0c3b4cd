-------------------------------- MODULE Wire ---------------------------------
(***************************************************************************)
(* How ckb-gdb-remote-protocol writes and reads numbers, bytes, binary     *)
(* data and thread ids in the bodies of packets.                           *)
(*                                                                         *)
(* A body is a sequence of characters.  Hexadecimal is scaled down to      *)
(* Radix 3: a byte has two digits and nine values, a u32 has two bytes and *)
(* a u64 four.  The nine bytes are NUL, the four that write_binary_data    *)
(* escapes, and what XOR 0x20 makes of them.  A word of the grammar is one *)
(* character, cut where a shorter word of the grammar ends.  The digits    *)
(* that Radix 3 leaves out are written as the lower case letters a to f,   *)
(* which no error and no word of a reply starts with.                      *)
(*                                                                         *)
(* A parser (nom) is an operator from a body to [ok, panic, more, v, rest]:*)
(* Done, a panic, Incomplete (more) or Error, the value as a sequence of   *)
(* integers, and the input that is left.                                   *)
(***************************************************************************)
EXTENDS Integers, Sequences, SequencesExt, FiniteSetsExt, Functions

Radix == 3
Digit == <<"0", "1", "2">>                                  (* of 0, 1, 2  *)
Raw == <<"NUL", "#", "$", "}", "*", "^C", "^D", "]", "LF">> (* of 0 .. 8   *)

(* The other characters and words of requests and replies.                 *)
Words == <<"!", "?", "3", "4", ",", ";", ":", "=", ".", "-1", "c", "D", "E", "F", "g", "G", "H",
  "k", "l", "m", "M", "N", "O", "OK", "p", "P", "QC", "qC", "RC:", "r", "R", "s", "C", "S", "t",
  "T", "v", "w", "W", "X", "z", "Z", "Cont", "CtrlC", "Kill;", "File:", "MustReplyEmpty", "cmds",
  "open:", "close:", "pread:", "pwrite:", "fstat:", "unlink:", "readlink:", "setfs:",
  "qSupported", "qRcmd,", "qSearch:memory:", "QStartNoAckMode", "qAttached", "qfThreadInfo",
  "qsThreadInfo", "QDisableRandomization:0", "QDisableRandomization:1", "QCatchSyscalls:0",
  "QCatchSyscalls:1", "QPassSignals:", "QProgramSignals:", "qThreadExtraInfo,", "qSymbol:",
  "qXfer:", "read:", "features", "target.xml", "swbreak+", "process:", "PacketSize",
  "QStartNoAckMode+", "multiprocess+", "QDisableRandomization+", "QCatchSyscalls+",
  "QPassSignals+", "QProgramSignals+">>

Byte == 0 .. Radix * Radix - 1
Word8 == Radix ^ 2
Word32 == Radix ^ 4
Word64 == Radix ^ 8

Characters == Raw \o Digit \o Words
Code(c) == SelectInSeq(Characters, LAMBDA d : d = c) - 1
DigitValue(c) == SelectInSeq(Digit, LAMBDA d : d = c) - 1

(* byte ^ 0x20                                                             *)
Flip(b) == CASE b \in 1 .. 4 -> b + 4 [] b \in 5 .. 8 -> b - 4 [] OTHER -> b

(* compute_checksum_incremental: wrapping addition of bytes.               *)
Checksum(chars, init) == FoldLeft(LAMBDA sum, c : (sum + Code(c)) % Word8, init, chars)

-----------------------------------------------------------------------------
(* Writing.                                                                *)

(* "{:x}": no leading zeros.                                               *)
Hex(n) ==
  LET k == Min({j \in 1 .. 8 : n < Radix ^ j})
  IN [i \in 1 .. k |-> Digit[((n \div (Radix ^ (k - i))) % Radix) + 1]]

(* "{:02x}"                                                                *)
Hex02(b) == <<Digit[(b \div Radix) + 1], Digit[(b % Radix) + 1]>>

write_hex_data(bytes) == FlattenSeq([i \in DOMAIN bytes |-> Hex02(bytes[i])])

(* Mutant: only the characters of the framing are escaped.                 *)
Escaped_FramingOnly == {1, 2}

(* '#', '$', '}' and '*', which gdb would take for a repeat count.         *)
Escaped == {1, 2, 3, 4}

write_binary_data(bytes) ==
  FlattenSeq([i \in DOMAIN bytes |->
    IF bytes[i] \in Escaped THEN <<"}", Raw[Flip(bytes[i]) + 1]>> ELSE <<Raw[bytes[i] + 1]>>])

(* Id::Any, Id::All, and no thread id at all.                              *)
AnyId == -2
AllId == -1
NoThread == <<-3, -3>>

WriteId(id) == CASE id = AllId -> <<"-1">> [] id = AnyId -> <<"0">> [] OTHER -> Hex(id)
write_thread_id(thread) == <<"p">> \o WriteId(thread[1]) \o <<".">> \o WriteId(thread[2])

-----------------------------------------------------------------------------
(* Reading.                                                                *)

Done(v, rest) == [ok |-> TRUE, panic |-> FALSE, more |-> FALSE, v |-> v, rest |-> rest]
Panic == [ok |-> FALSE, panic |-> TRUE, more |-> FALSE, v |-> <<>>, rest |-> <<>>]
Fail(more) == [ok |-> FALSE, panic |-> FALSE, more |-> more, v |-> <<>>, rest |-> <<>>]

After(i, n) == SubSeq(i, n + 1, Len(i))

(* What there is of i between two positions.                               *)
Slice(i, from, to) == SubSeq(i, from, Min({to, Len(i)}))

(* The number of characters of i before the first that is not in S.        *)
Leading(i, S) == Min({n \in 0 .. Len(i) : n = Len(i) \/ i[n + 1] \notin S})
Digits(i) == Leading(i, Range(Digit))

Value(digits) == FoldLeft(LAMBDA n, c : Radix * n + DigitValue(c), 0, digits)

(* Mutant: the number is parsed as a u32.                                  *)
Fits64_U32(n) == n < Word32

Fits64(n) == n < Word64

(* All digits there are, as a u64: from_str_radix(..).unwrap()             *)
Number(i, n, v) ==
  IF n = 0 THEN Fail(i = <<>>) ELSE IF ~Fits64(v) THEN Panic ELSE Done(<<v>>, After(i, n))
hex_value(i) == Number(i, Digits(i), Value(SubSeq(i, 1, Digits(i))))

(* many1!(hex_byte): an odd digit is left over, but Incomplete at the end. *)
Bytes(i, n) ==
  IF n % 2 = 1 /\ n = Len(i) THEN Fail(TRUE)
  ELSE IF n < 2 THEN Fail(i = <<>>)
  ELSE Done([j \in 1 .. n \div 2 |-> Value(<<i[2 * j - 1], i[2 * j]>>)], After(i, 2 * (n \div 2)))
hex_byte_sequence(i) == Bytes(i, Digits(i))

(* many1!(binary_byte): up to the end; a last "}" stands for itself.       *)
binary_byte(r, c) ==
  IF r.escape THEN [escape |-> FALSE, out |-> Append(r.out, Flip(Code(c)))]
  ELSE IF c = "}" THEN [r EXCEPT !.escape = TRUE]
  ELSE [r EXCEPT !.out = Append(@, Code(c))]
Unescaped(r) == IF r.escape THEN Append(r.out, Code("}")) ELSE r.out
binary_byte_sequence(i) ==
  IF i = <<>> THEN Fail(TRUE)
  ELSE Done(Unescaped(FoldLeft(binary_byte, [escape |-> FALSE, out |-> <<>>], i)), <<>>)

Tagged(i, c) == i # <<>> /\ Head(i) = c

(* "0" comes first, so no digit may follow it; an id is cut to 32 bits.    *)
Id(id) == IF id.ok THEN Done(<<id.v[1] % Word32>>, id.rest) ELSE id
parse_thread_id_element(i) ==
  IF Tagged(i, "0") THEN Done(<<AnyId>>, Tail(i))
  ELSE IF Tagged(i, "-1") THEN Done(<<AllId>>, Tail(i))
  ELSE Id(hex_value(i))

(* "tid", "ppid.tid" or "ppid", tried in this order.                       *)
Tid(pid, tid) ==
  IF tid.ok THEN Done(<<pid.v[1], tid.v[1]>>, tid.rest)
  ELSE IF tid.panic THEN tid ELSE Done(<<pid.v[1], AllId>>, pid.rest)
Pid(pid) ==
  IF ~pid.ok THEN pid
  ELSE Tid(pid, IF Tagged(pid.rest, ".") THEN parse_thread_id_element(Tail(pid.rest)) ELSE Fail(FALSE))
Thread(i, id) ==
  IF id.ok THEN Done(<<id.v[1], AnyId>>, id.rest)
  ELSE IF id.panic \/ ~Tagged(i, "p") THEN id ELSE Pid(parse_thread_id_element(Tail(i)))
parse_thread_id(i) == Thread(i, parse_thread_id_element(i))
=============================================================================
