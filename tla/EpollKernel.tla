---------------------------- MODULE EpollKernel ----------------------------
(***************************************************************************)
(* The part of the operating system that lua-epoll calls: the process's    *)
(* descriptor table and the interest list of each epoll instance.          *)
(*                                                                         *)
(* None of this is code of the repository.  It is modelled from how        *)
(* src/common.c, src/epoll.c and the five *_new functions use it:          *)
(* epoll_ctl(ADD | DEL), close, fcntl(F_DUPFD_CLOEXEC), signalfd,          *)
(* timerfd_create and eventfd.                                             *)
(*                                                                         *)
(* A descriptor is a small number; what it refers to (an open file         *)
(* description) is a File.  The kernel keys an interest-list entry by the  *)
(* pair of both and drops the entry when the last descriptor of the file   *)
(* is closed, not when the descriptor that was registered is.              *)
(***************************************************************************)
EXTENDS Integers, FiniteSets

CONSTANTS
    Poll,       \* epoll instances (poll_t)
    Event,      \* event instances (poll_event_t)
    UserFile,   \* files the application opens and closes itself
    Pollable,   \* those of them epoll accepts: a socket, not a regular file
    MaxFd,      \* bound: descriptor numbers are 0 .. MaxFd
    NoFile      \* what a closed descriptor refers to

Fd == 0 .. MaxFd

\* The files the library creates.  It never duplicates one, so the number of
\* the only descriptor identifies it.
LibFile == {"signalfd", "timerfd", "eventfd"} \X Fd
File    == UserFile \cup LibFile

ASSUME KernelAssumption ==
    /\ Poll # {}
    /\ MaxFd \in Nat
    /\ Pollable \subseteq UserFile
    /\ NoFile \notin File
    /\ UserFile \cap LibFile = {}
    /\ Event \cap {"user", "none"} = {}

\* The bits of struct epoll_event.events that the library sets.
Flag == {"IN", "OUT", "ET", "ONESHOT", "EXCLUSIVE"}

VARIABLES
    file,       \* the descriptor table
    owner,      \* history: who opened each descriptor
    interest    \* the interest list of each epoll instance

kernelVars == <<file, owner, interest>>

Interest == [fd : Fd, file : File, events : SUBSET Flag]

KernelTypeOK ==
    /\ file \in [Fd -> File \cup {NoFile}]
    /\ owner \in [Fd -> Event \cup {"user", "none"}]
    /\ interest \in [Poll -> SUBSET Interest]

KernelInit ==
    /\ file = [f \in Fd |-> NoFile]
    /\ owner = [f \in Fd |-> "none"]
    /\ interest = [p \in Poll |-> {}]

-----------------------------------------------------------------------------
(* Descriptors *)

\* open, dup, signalfd, ... return the lowest number that is free.
Lowest(f) == file[f] = NoFile /\ \A g \in 0 .. f - 1 : file[g] # NoFile

\* The kernel forgets the entries of files that no descriptor refers to.
Pruned(intr, ff) ==
    [p \in Poll |-> {i \in intr[p] : \E g \in Fd : ff[g] = i.file}]

\* close(fds) with the interest lists intr; a number that is not open is EBADF.
CloseFrom(intr, fds) ==
    /\ file' = [f \in Fd |-> IF f \in fds THEN NoFile ELSE file[f]]
    /\ owner' = [f \in Fd |-> IF f \in fds THEN "none" ELSE owner[f]]
    /\ interest' = Pruned(intr, file')

-----------------------------------------------------------------------------
(* epoll_ctl *)

CanPoll(x) == x \in Pollable \cup LibFile

Entry(f, ff, mask) == [fd |-> f, file |-> ff[f], events |-> mask]

Registered(intr, p, f, ff) ==
    \E i \in intr[p] : i.fd = f /\ i.file = ff[f]

\* EBADF, EPERM, EINVAL (EPOLLEXCLUSIVE excludes EPOLLONESHOT) and EEXIST.
AddAccepted(intr, p, f, ff, mask) ==
    /\ ff[f] # NoFile
    /\ CanPoll(ff[f])
    /\ ~({"EXCLUSIVE", "ONESHOT"} \subseteq mask)
    /\ ~Registered(intr, p, f, ff)

CtlAdd(intr, p, f, ff, mask) ==
    [intr EXCEPT ![p] = @ \cup {Entry(f, ff, mask)}]

\* EPERM: the number now belongs to a file that epoll does not support.
DelRefused(f) == file[f] # NoFile /\ ~CanPoll(file[f])

\* Removes nothing when the answer is EBADF, ENOENT or EPERM.
CtlDel(intr, p, f) ==
    [intr EXCEPT ![p] = {i \in @ : ~(i.fd = f /\ i.file = file[f])}]

=============================================================================
