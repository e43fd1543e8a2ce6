------------------------------- MODULE Files -------------------------------
(***************************************************************************)
(* The file descriptors of the HAL: alt_open, alt_close, alt_ioctl,        *)
(* alt_fcntl, alt_read and alt_write above alt_fd_list, and alt_io_redirect *)
(* which alt_main calls once the drivers have registered their devices.    *)
(* printf and the C library come down here through descriptors 0, 1 and 2. *)
(*                                                                         *)
(* One program calls them; ALT_SEM_PEND and the others are empty without   *)
(* an operating system.  Filesystems: none registers.                      *)
(***************************************************************************)
EXTENDS Integers, FiniteSets

CONSTANTS
  ALT_MAX_FD,
  Device,       \* the devices in alt_dev_list
  Null, Uart,   \* /dev/null and the one stdin, stdout and stderr name
  NoDev         \* what a name that no device has finds

(* What the constants may be. *)
ASSUME FilesAssumption ==
  /\ ALT_MAX_FD \in Nat /\ ALT_MAX_FD > 3
  /\ Null \in Device /\ Uart \in Device /\ Null # Uart /\ NoDev \notin Device

VARIABLES
  dev, acc, nonblock, ALT_FD_EXCL, ALT_FD_DEV,   \* alt_fd_list: of each descriptor
  alt_max_fd,
  redirected,   \* how many of the three streams alt_main has redirected
  held          \* descriptors that open has returned and close has not taken back

flags == <<acc, nonblock, ALT_FD_EXCL, ALT_FD_DEV>>
files == <<dev, flags, alt_max_fd, redirected, held>>

Fd == 0 .. ALT_MAX_FD - 1
Std == 0 .. 2
Mode == {"O_RDONLY", "O_WRONLY", "O_RDWR"}

(* alt_dev.c: the streams start on /dev/null. *)
FilesInit ==
  /\ dev = [i \in Fd |-> IF i \in Std THEN Null ELSE NoDev]
  /\ acc = [i \in Fd |-> "O_RDONLY"] /\ nonblock = [i \in Fd |-> FALSE]
  /\ ALT_FD_EXCL = [i \in Fd |-> FALSE] /\ ALT_FD_DEV = [i \in Fd |-> FALSE]
  /\ alt_max_fd = -1
  /\ redirected = 0 /\ held = {}

-----------------------------------------------------------------------------
(* alt_get_fd: the first free descriptor. *)
Free == {i \in Fd : dev[i] = NoDev}
FirstFree == CHOOSE i \in Free : \A j \in Free : i <= j

Watermark(i) == IF i > alt_max_fd THEN i ELSE alt_max_fd

(* Seeded fault: the search for a lock stops below the mark. *)
LockedBelow(d, fd) == \E i \in 0 .. Watermark(fd) - 1 : i # fd /\ dev[i] = d /\ ALT_FD_EXCL[i]
(* alt_file_locked: some other descriptor of the device is locked. *)
Locked(d, fd) == \E i \in 0 .. Watermark(fd) : i # fd /\ dev[i] = d /\ ALT_FD_EXCL[i]

(* alt_open that succeeds: the table after it. *)
Opened(d, mode, nb) ==
  /\ d # NoDev /\ Free # {} /\ ~Locked(d, FirstFree)
  /\ dev' = [dev EXCEPT ![FirstFree] = d]
  /\ acc' = [acc EXCEPT ![FirstFree] = mode]
  /\ nonblock' = [nonblock EXCEPT ![FirstFree] = nb]
  /\ ALT_FD_EXCL' = [ALT_FD_EXCL EXCEPT ![FirstFree] = FALSE]
  /\ ALT_FD_DEV' = [ALT_FD_DEV EXCEPT ![FirstFree] = TRUE]
  /\ alt_max_fd' = Watermark(FirstFree)

(* alt_release_fd: the streams are never freed. *)
Released(fd) ==
  IF fd > 2
  THEN /\ dev' = [dev EXCEPT ![fd] = NoDev]
       /\ acc' = [acc EXCEPT ![fd] = "O_RDONLY"] /\ nonblock' = [nonblock EXCEPT ![fd] = FALSE]
       /\ ALT_FD_EXCL' = [ALT_FD_EXCL EXCEPT ![fd] = FALSE]
       /\ ALT_FD_DEV' = [ALT_FD_DEV EXCEPT ![fd] = FALSE]
  ELSE UNCHANGED <<dev, flags>>

(* alt_io_redirect: stdout, stdin, stderr, in this order; the descriptor    *)
(* that open returned is copied and released.                               *)
Redirect ==
  LET fd == IF redirected = 0 THEN 1 ELSE IF redirected = 1 THEN 0 ELSE 2
      mode == IF fd = 0 THEN "O_RDONLY" ELSE "O_WRONLY"
  IN
  /\ redirected < 3 /\ redirected' = redirected + 1
  /\ Free # {} /\ ~Locked(Uart, FirstFree)
  /\ dev' = [dev EXCEPT ![fd] = Uart]
  /\ acc' = [acc EXCEPT ![fd] = mode]
  /\ ALT_FD_DEV' = [ALT_FD_DEV EXCEPT ![fd] = TRUE]
  /\ alt_max_fd' = Watermark(FirstFree)
  /\ UNCHANGED <<nonblock, ALT_FD_EXCL, held>>

-----------------------------------------------------------------------------
Open(d, mode, nb) ==
  /\ Opened(d, mode, nb)
  /\ held' = held \cup {FirstFree}

(* Seeded fault: a descriptor whose device is locked stays taken. *)
OpenRefusedKeeps(d) ==
  /\ d # NoDev /\ Free # {} /\ Locked(d, FirstFree)
  /\ dev' = [dev EXCEPT ![FirstFree] = d]
  /\ alt_max_fd' = Watermark(FirstFree)
  /\ UNCHANGED <<flags, held>>
(* The descriptor was taken, which moved the mark, and is released again.   *)
OpenRefused(d) ==
  /\ d # NoDev /\ Free # {} /\ Locked(d, FirstFree)
  /\ Released(FirstFree)
  /\ alt_max_fd' = Watermark(FirstFree)
  /\ UNCHANGED held

(* The device's own close may fail and close return -1; the descriptor is   *)
(* released all the same.                                                   *)
Close(fd) ==
  /\ Released(fd)
  /\ held' = held \ {fd}
  /\ UNCHANGED alt_max_fd

(* alt_fd_lock looks at the descriptors below alt_max_fd. *)
MayLock(fd) == \A i \in 0 .. alt_max_fd - 1 : i # fd => dev[i] # dev[fd]

Lock(fd) ==
  /\ ALT_FD_DEV[fd] /\ MayLock(fd)
  /\ ALT_FD_EXCL' = [ALT_FD_EXCL EXCEPT ![fd] = TRUE]
  /\ UNCHANGED <<dev, acc, nonblock, ALT_FD_DEV, alt_max_fd, held>>

Unlock(fd) ==
  /\ ALT_FD_DEV[fd]
  /\ ALT_FD_EXCL' = [ALT_FD_EXCL EXCEPT ![fd] = FALSE]
  /\ UNCHANGED <<dev, acc, nonblock, ALT_FD_DEV, alt_max_fd, held>>

(* F_SETFL changes O_APPEND and O_NONBLOCK only. *)
Fcntl(fd) ==
  /\ nonblock' = [nonblock EXCEPT ![fd] = ~@]
  /\ UNCHANGED <<dev, acc, ALT_FD_EXCL, ALT_FD_DEV, alt_max_fd, held>>

(* alt_read and alt_write go to the device when the mode allows it and the  *)
(* device can; /dev/null has no read.                                       *)
MayRead(fd) == acc[fd] # "O_WRONLY" /\ dev[fd] # Null
MayWrite(fd) == acc[fd] # "O_RDONLY"

(* The program uses the streams and the descriptors it holds. *)
Call ==
  /\ redirected = 3 /\ UNCHANGED redirected
  /\ \/ \E d \in Device \cup {NoDev} :
          \/ OpenRefused(d)
          \/ \E mode \in Mode, nb \in BOOLEAN : Open(d, mode, nb)
     \/ \E fd \in Std \cup held : Close(fd) \/ Lock(fd) \/ Unlock(fd) \/ Fcntl(fd)

FilesNext == Redirect \/ Call

FilesSpec == FilesInit /\ [][FilesNext]_files

-----------------------------------------------------------------------------
(* Every variable has its type. *)
FilesTypeOK ==
  /\ dev \in [Fd -> Device \cup {NoDev}]
  /\ acc \in [Fd -> Mode] /\ nonblock \in [Fd -> BOOLEAN]
  /\ ALT_FD_EXCL \in [Fd -> BOOLEAN] /\ ALT_FD_DEV \in [Fd -> BOOLEAN]
  /\ alt_max_fd \in -1 .. ALT_MAX_FD - 1
  /\ redirected \in 0 .. 3 /\ held \subseteq Fd

(* The descriptors in use are the streams and those the program holds: none *)
(* leaks when an open is refused, none is handed out twice.                 *)
NoLeak == {i \in Fd : dev[i] # NoDev} = Std \cup held /\ held \cap Std = {}

(* No descriptor in use is above the mark that the searches stop at.        *)
MarkAbove == \A i \in held : i <= alt_max_fd

(* A lock once given holds: no further open of the device succeeds until    *)
(* the lock is released.                                                    *)
LockHolds ==
  [][\A i \in held : (ALT_FD_EXCL[i] /\ ALT_FD_EXCL'[i]) =>
        \A j \in Fd : dev'[j] = dev[i] => dev[j] = dev[i]]_files

(* The streams stay on the UART, whatever is closed, and stay usable: a     *)
(* printf finds it.                                                         *)
StreamsStay == redirected = 3 =>
  /\ \A i \in Std : dev[i] = Uart
  /\ MayRead(0) /\ MayWrite(1) /\ MayWrite(2)

(* alt_fd_lock.c:43: the lock is only given when no other open descriptor   *)
(* refers to the device.                                                    *)
Exclusive ==
  [][\A i \in held : (~ALT_FD_EXCL[i] /\ ALT_FD_EXCL'[i]) =>
        \A j \in Fd : (j # i) => dev[j] # dev[i]]_files
=============================================================================
