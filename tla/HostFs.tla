------------------------------- MODULE HostFs --------------------------------
(***************************************************************************)
(* LibcFS of ckb-gdb-remote-protocol: the vFile operations of gdb on the   *)
(* files of the host, and the conversions of flags, modes, error numbers   *)
(* and stat between gdb's numbering and libc's.                            *)
(*                                                                         *)
(* libc and the kernel are external: one directory of regular files that   *)
(* may fill up, a table of descriptors that may fill up, reads and writes  *)
(* that may be short and may fail.                                         *)
(***************************************************************************)
EXTENDS Wire

CONSTANTS FileNames,   (* the names (byte sequences) that can be created   *)
          Fds,         (* the descriptors the kernel can hand out          *)
          MaxFile      (* bound: the size at which the disk is full        *)

(* A result: a value of the handler, see GdbCommands.                      *)
Result(kind, data) == [kind |-> kind, data |-> data]

-----------------------------------------------------------------------------
(* Conversions.  Flags and modes are numbers on the wire, sets of names in *)
(* the code; the numbers here are scaled to a u32 of Word32 values.        *)

HostOpenFlags == [O_WRONLY |-> 1, O_RDWR |-> 2, O_APPEND |-> 4, O_CREAT |-> 8, O_TRUNC |-> 16, O_EXCL |-> 32]
HostMode == [S_IWUSR |-> 1, S_IRUSR |-> 2, S_IFDIR |-> 4, S_IFREG |-> 8]

(* "as u32", and the bits that have no name are dropped.                   *)
from_bits_truncate(bits, n) == {f \in DOMAIN bits : (((n % Word32) \div bits[f]) % 2) = 1}

Bits(bits, names) == FoldSet(LAMBDA f, n : bits[f] + n, 0, names)

(* HostOpenFlags::into_libc, flag by flag.                                 *)
OpenFlagsIntoLibc(flags) ==
  flags \cup (IF flags \cap {"O_WRONLY", "O_RDWR"} = {} THEN {"O_RDONLY"} ELSE {})

(* HostMode::into_libc and from_libc, bit by bit: a mode of libc is the set*)
(* of its bits.  One class of permissions stands for the three.            *)
LibcMode == [S_IWUSR |-> 128, S_IRUSR |-> 256, S_IFDIR |-> 16384, S_IFREG |-> 32768]
ModeIntoLibc(mode) == {LibcMode[f] : f \in mode}
ModeFromLibc(mode) == {f \in DOMAIN HostMode : LibcMode[f] \in mode}

(* HostErrno::from_libc; EUNKNOWN is 9999 in the code.                     *)
HostErrno == [EPERM |-> 1, ENOENT |-> 2, EINTR |-> 4, EBADF |-> 9, EACCES |-> 13, EFAULT |-> 14,
  EBUSY |-> 16, EEXIST |-> 17, ENODEV |-> 19, ENOTDIR |-> 20, EISDIR |-> 21, EINVAL |-> 22,
  ENFILE |-> 23, EMFILE |-> 24, EFBIG |-> 27, ENOSPC |-> 28, ESPIPE |-> 29, EROFS |-> 30,
  ENAMETOOLONG |-> 50, EUNKNOWN |-> 80]
FromLibc(errno) == HostErrno[IF errno \in DOMAIN HostErrno THEN errno ELSE "EUNKNOWN"]

(* write_stat: big endian, two bytes for a u32 and four for a u64 here.    *)
BigEndian(bytes, n) == [k \in 1 .. bytes |-> (n \div (Word8 ^ (bytes - k))) % Word8]
write_stat(stat) ==
  LET u32 == <<0, stat.ino, Bits(HostMode, stat.mode), 1, 0, 0, 0>>   (* dev .. rdev       *)
      u64 == <<stat.size, 0, 0>>                                      (* size .. blocks    *)
      times == <<0, 0, 0>>                                            (* atime .. ctime    *)
  IN FlattenSeq([k \in 1 .. 7 |-> BigEndian(2, u32[k] % Word32)])
     \o FlattenSeq([k \in 1 .. 3 |-> BigEndian(4, u64[k])])
     \o FlattenSeq([k \in 1 .. 3 |-> BigEndian(2, times[k])])

-----------------------------------------------------------------------------
(* libc.  fs.files holds what exists, fs.fds what is open.  A call is the  *)
(* set of its outcomes [fs, ret, errno], ret being -1 for a failure.       *)

Outcome(fs, ret, data) == [fs |-> fs, ret |-> ret, data |-> data, errno |-> "none"]
Failure(fs, errno) == [fs |-> fs, ret |-> -1, data |-> <<>>, errno |-> errno]

Readable(flags) == "O_RDONLY" \in flags \/ flags \cap {"O_RDWR", "O_WRONLY"} = {"O_RDWR"}
Writable(flags) == Cardinality(flags \cap {"O_RDWR", "O_WRONLY"}) = 1

libc_open(fs, name, flags, mode) ==
  LET exists == name \in DOMAIN fs.files
      free == Fds \ DOMAIN fs.fds
      file == IF exists /\ "O_TRUNC" \notin flags THEN fs.files[name]
              ELSE [bytes |-> <<>>, mode |-> IF exists THEN fs.files[name].mode ELSE mode \cup {LibcMode.S_IFREG}]
      denied == /\ exists
                /\ \/ Readable(flags) /\ LibcMode.S_IRUSR \notin fs.files[name].mode
                   \/ (Writable(flags) \/ "O_TRUNC" \in flags) /\ LibcMode.S_IWUSR \notin fs.files[name].mode
  IN {CASE exists /\ {"O_CREAT", "O_EXCL"} \subseteq flags -> Failure(fs, "EEXIST")
        [] ~exists /\ ("O_CREAT" \notin flags \/ name \notin FileNames) -> Failure(fs, "ENOENT")
        [] denied -> Failure(fs, "EACCES")
        [] free = {} -> Failure(fs, "EMFILE")
        [] OTHER -> LET fd == Min(free)
                    IN Outcome([files |-> (name :> file) @@ fs.files,
                                fds |-> (fd :> [name |-> name, flags |-> flags]) @@ fs.fds], fd, <<>>)}

libc_close(fs, fd) ==
  {IF fd \in DOMAIN fs.fds
     THEN Outcome([fs EXCEPT !.fds = [d \in DOMAIN @ \ {fd} |-> @[d]]], 0, <<>>)
     ELSE Failure(fs, "EBADF")}

(* A read may be short, but is empty only at the end of the file.          *)
libc_pread(fs, fd, count, offset) ==
  IF fd \notin DOMAIN fs.fds \/ ~Readable(fs.fds[fd].flags) THEN {Failure(fs, "EBADF")}
  ELSE IF offset < 0 THEN {Failure(fs, "EINVAL")}
  ELSE LET there == Slice(fs.files[fs.fds[fd].name].bytes, offset + 1, offset + count)
       IN {Outcome(fs, n, SubSeq(there, 1, n)) : n \in Min({1, Len(there)}) .. Len(there)}
          \cup {Failure(fs, "EIO")}

(* The bytes with data put at offset, after a hole of zeros if need be.    *)
Overwrite(bytes, offset, data) ==
  [k \in 1 .. Max({Len(bytes), offset + Len(data)}) |->
     IF k \in offset + 1 .. offset + Len(data) THEN data[k - offset]
     ELSE IF k <= Len(bytes) THEN bytes[k] ELSE 0]

(* A write may be short; O_APPEND makes Linux ignore the offset.           *)
libc_pwrite(fs, fd, offset, data) ==
  IF fd \notin DOMAIN fs.fds \/ ~Writable(fs.fds[fd].flags) THEN {Failure(fs, "EBADF")}
  ELSE IF offset < 0 THEN {Failure(fs, "EINVAL")}
  ELSE LET name == fs.fds[fd].name
           bytes == fs.files[name].bytes
           at == IF "O_APPEND" \in fs.fds[fd].flags THEN Len(bytes) ELSE offset
           room == {n \in 1 .. Len(data) : at + n <= MaxFile}
       IN IF room = {} THEN {Failure(fs, "ENOSPC")}
          ELSE {Outcome([fs EXCEPT !.files[name].bytes = Overwrite(bytes, at, SubSeq(data, 1, n))], n, <<>>) :
                  n \in room}

libc_fstat(fs, fd) ==
  {IF fd \in DOMAIN fs.fds THEN Outcome(fs, 0, <<>>) ELSE Failure(fs, "EBADF")}

-----------------------------------------------------------------------------
(* LibcFS.  An operation is the set of its outcomes [fs, result].          *)

Returns(out, value) ==
  [fs |-> out.fs, result |-> IF out.ret >= 0 THEN value ELSE Result("HostErrno", <<<<FromLibc(out.errno)>>>>)]

Unsupported(fs) == {[fs |-> fs, result |-> Result("NotSupported", <<>>)]}

Integer(n) == Result("HostInteger", <<<<n>>>>)

(* fd as c_int, offset as off_t                                            *)
AsInt(n) == n % Word32
AsOff(n) == IF n >= Word64 \div 2 THEN n - Word64 ELSE n

(* CString::new fails on a name with a NUL.                                *)
host_open(fs, name, flags, mode) ==
  IF 0 \in Range(name) THEN {[fs |-> fs, result |-> Result("HostErrno", <<<<HostErrno.ENOENT>>>>)]}
  ELSE {Returns(out, Integer(out.ret % Word32)) :
          out \in libc_open(fs, name, OpenFlagsIntoLibc(flags), ModeIntoLibc(mode))}

host_close(fs, fd) == {Returns(out, Result("HostOk", <<>>)) : out \in libc_close(fs, AsInt(fd))}

(* Vec::with_capacity panics above isize::MAX bytes.  Below that the       *)
(* memory is taken to be there; where it is not, the process aborts.       *)
Allocatable(count) == count < Word64 \div 2

host_pread(fs, fd, count, offset) ==
  {Returns(out, Result("HostData", <<out.data>>)) : out \in libc_pread(fs, AsInt(fd), count, AsOff(offset))}

(* Mutant: the length of the data is reported for what was written.        *)
Written_All(out, data) == Len(data)

Written(out, data) == out.ret

host_pwrite(fs, fd, offset, data) ==
  {Returns(out, Integer(Written(out, data))) : out \in libc_pwrite(fs, AsInt(fd), AsOff(offset), data)}

(* The inode number stands for the fields that are cut to 32 bits.         *)
host_fstat(fs, fd) ==
  {Returns(out, IF out.ret < 0 THEN Result("none", <<>>)
                ELSE LET file == fs.files[fs.fds[AsInt(fd)].name]
                     IN Result("HostStat", <<write_stat([ino |-> Word32 + 1, mode |-> ModeFromLibc(file.mode),
                                                         size |-> Len(file.bytes)])>>)) :
     out \in libc_fstat(fs, AsInt(fd))}

host_unlink(fs, name) == Unsupported(fs)
host_readlink(fs, name) == Unsupported(fs)
host_setfs(fs, pid) == Unsupported(fs)
=============================================================================
