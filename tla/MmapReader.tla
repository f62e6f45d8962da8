------------------------------ MODULE MmapReader ------------------------------
(***************************************************************************)
(* The memory-mapped file readers of layer 1 (mmap_reader.cpp, POSIX), and *)
(* as much of the operating system as they use: a table of descriptors,    *)
(* of which open() hands out the lowest that is free, and a set of         *)
(* mappings, whose addresses are used again.  Every system call may fail.  *)
(*                                                                         *)
(* An object holds its descriptor in Impl, behind a unique_ptr, and the    *)
(* address and the size of the mapping as plain members.  The defaulted    *)
(* moves therefore take the descriptor away from the source and leave it   *)
(* the address; a moved-from reader has no Impl.                           *)
(***************************************************************************)
EXTENDS Integers

CONSTANTS
  Readers,       \* the objects a program may have
  Descriptors,   \* the descriptors the process may be given
  Addresses,     \* where mmap() may put a mapping
  FileSizes      \* the sizes of the files it may be asked to open

ASSUME ReaderAssumption ==
  /\ Descriptors \subseteq Nat
  /\ Addresses \subseteq Nat \ {0}
  /\ FileSizes \subseteq Nat

VARIABLES
  reader,     \* reader[r]: the object r, its Impl included
  fds,        \* the open descriptors
  maps,       \* the addresses that are mapped
  lostFds,    \* ghost: descriptors whose Impl was deleted without cleanup()
  lostMaps    \* ghost: mappings that went the same way

lostVars == <<lostFds, lostMaps>>
readerVars == <<reader, fds, maps, lostVars>>

NoFd == -1
Null == 0
Literal == -1   \* the address of "", the data_ of an empty file

Dead == [live |-> FALSE, impl |-> FALSE, fd |-> NoFd, data |-> Null, size |-> 0]

(* A reader with an Impl. *)
With(fd, data, size) ==
  [live |-> TRUE, impl |-> TRUE, fd |-> fd, data |-> data, size |-> size]

Fresh == With(NoFd, Null, 0)

IsOpen(x) == x.data # Null

(* open() gives the lowest free descriptor. *)
FreshFds(used) ==
  {fd \in Descriptors \ used : \A other \in Descriptors \ used : fd <= other}

-----------------------------------------------------------------------------
(* What cleanup() hands to munmap() and to ::close(). *)
Mapping(x) == IF x.impl /\ x.data # Null /\ x.size > 0 THEN {x.data} ELSE {}

Descriptor(x) == IF x.impl /\ x.fd # NoFd THEN {x.fd} ELSE {}

(* A variant with a bug: the descriptor is closed and remembered. *)
BugKeepFd(x) ==
  IF x.impl THEN With(x.fd, IF Mapping(x) = {} THEN x.data ELSE Null, 0) ELSE x

(* A variant with a bug: the size outlives the mapping. *)
BugKeepSize(x) ==
  IF x.impl THEN With(NoFd, IF Mapping(x) = {} THEN x.data ELSE Null, x.size) ELSE x

(* The object after close().  After an empty file data_ stays what it was. *)
CleanedUp(x) ==
  IF x.impl THEN With(NoFd, IF Mapping(x) = {} THEN x.data ELSE Null, 0) ELSE x

(* close() of reader r, in state x, when f and m are open and mapped.
   munmap() of an address that is no mapping fails and changes nothing.     *)
Closing(r, x, f, m) ==
  /\ reader' = [reader EXCEPT ![r] = CleanedUp(x)]
  /\ fds' = f \ Descriptor(x)
  /\ maps' = m \ Mapping(x)

(* open() returns false: close() first, and again when fstat() or mmap()
   fails.  By then size_ is set, and data_ may be the "" of an earlier file. *)
OpenFails(r, x) ==
  LET y == CleanedUp(x)
      f == fds \ Descriptor(x)
      m == maps \ Mapping(x)
  IN  /\ \/ Closing(r, y, f, m)
         \/ \E fd \in FreshFds(f), size \in FileSizes :
              Closing(r, With(fd, y.data, size), f \union {fd}, m)
      /\ UNCHANGED lostVars

(* A variant with a bug: open() does not close what is open. *)
BugNoCloseFirst(r, x) ==
  /\ \E fd \in FreshFds(fds), a \in Addresses \ maps, size \in FileSizes \ {0} :
       /\ fds' = fds \union {fd}
       /\ reader' = [reader EXCEPT ![r] = With(fd, a, size)]
       /\ maps' = maps \union {a}
  /\ UNCHANGED lostVars

(* open() returns true: an empty file is not mapped. *)
OpenSucceeds(r, x) ==
  LET f == fds \ Descriptor(x)
      m == maps \ Mapping(x)
      Opened(fd, a, size) == reader' = [reader EXCEPT ![r] = With(fd, a, size)]
  IN  /\ \E fd \in FreshFds(f) :
           /\ fds' = f \union {fd}
           /\ \/ 0 \in FileSizes /\ Opened(fd, Literal, 0) /\ maps' = m
              \/ \E size \in FileSizes \ {0}, a \in Addresses \ m :
                   Opened(fd, a, size) /\ maps' = m \union {a}
      /\ UNCHANGED lostVars

-----------------------------------------------------------------------------
(* The public operations. *)

Construct(r) ==
  /\ ~reader[r].live
  /\ reader' = [reader EXCEPT ![r] = Fresh]
  /\ UNCHANGED <<fds, maps, lostVars>>

(* MmapReader(filepath): the result of open() is dropped. *)
ConstructOpen(r) ==
  /\ ~reader[r].live
  /\ OpenFails(r, Fresh) \/ OpenSucceeds(r, Fresh)

(* Precondition: open() of a moved-from reader dereferences a null impl_. *)
Open(r) ==
  /\ reader[r].impl
  /\ OpenFails(r, reader[r]) \/ OpenSucceeds(r, reader[r])

Close(r) ==
  /\ reader[r].live
  /\ Closing(r, reader[r], fds, maps)
  /\ UNCHANGED lostVars

(* A variant with a bug: the destructor does not close. *)
BugForgetClose(r) ==
  /\ reader[r].live
  /\ reader' = [reader EXCEPT ![r] = Dead]
  /\ UNCHANGED <<fds, maps, lostVars>>

Destroy(r) ==
  /\ reader[r].live
  /\ reader' = [reader EXCEPT ![r] = Dead]
  /\ fds' = fds \ Descriptor(reader[r])
  /\ maps' = maps \ Mapping(reader[r])
  /\ UNCHANGED lostVars

(* A reader after a move from it: data_ and size_ were copied. *)
MovedFrom(x) ==
  [live |-> TRUE, impl |-> FALSE, fd |-> NoFd, data |-> x.data, size |-> x.size]

MoveConstruct(r, source) ==
  /\ ~reader[r].live /\ reader[source].live
  /\ reader' = [reader EXCEPT ![r] = reader[source],
                              ![source] = MovedFrom(reader[source])]
  /\ UNCHANGED <<fds, maps, lostVars>>

(* The Impl that r had is deleted.  Impl has no destructor: what was open
   stays open, and nobody knows of it any more.                             *)
MoveAssign(r, source) ==
  /\ reader[r].live /\ reader[source].live
  /\ reader' = [reader EXCEPT ![r] = reader[source],
                              ![source] = MovedFrom(reader[source])]
  /\ lostFds' = lostFds \union Descriptor(reader[r])
  /\ lostMaps' = lostMaps \union Mapping(reader[r])
  /\ UNCHANGED <<fds, maps>>

ReaderInit ==
  /\ reader = [r \in Readers |-> Dead]
  /\ fds = {} /\ maps = {} /\ lostFds = {} /\ lostMaps = {}

ReaderNext ==
  \E r \in Readers :
    \/ Construct(r) \/ ConstructOpen(r)
    \/ Open(r) \/ Close(r) \/ Destroy(r)
    \/ \E source \in Readers \ {r} :
         MoveConstruct(r, source) \/ MoveAssign(r, source)

-----------------------------------------------------------------------------
(* The states an object can be in between two calls. *)
ReaderStates ==
  {x \in [live : BOOLEAN, impl : BOOLEAN, fd : Descriptors \union {NoFd},
          data : Addresses \union {Null, Literal}, size : FileSizes \union {0}] :
     /\ ~x.live => x = Dead
     /\ ~x.impl => x.fd = NoFd
     /\ x.size > 0 <=> x.data \in Addresses}

(* What is open or mapped is held by one reader at most, and what a reader
   holds is open: no descriptor or mapping is released twice, or under
   another reader that was given the same number or address later.          *)
OwnedOnce ==
  /\ \A r \in Readers :
       /\ Descriptor(reader[r]) \subseteq fds \ lostFds
       /\ Mapping(reader[r]) \subseteq maps \ lostMaps
  /\ \A r, s \in Readers : r # s =>
       /\ Descriptor(reader[r]) \intersect Descriptor(reader[s]) = {}
       /\ Mapping(reader[r]) \intersect Mapping(reader[s]) = {}

(* Nothing stays open that no reader will release, whatever sequence of
   calls succeeds or fails, except what the defaulted move assignment lets
   go of.                                                                   *)
NothingForgotten ==
  /\ fds = lostFds \union UNION {Descriptor(reader[r]) : r \in Readers}
  /\ maps = lostMaps \union UNION {Mapping(reader[r]) : r \in Readers}
===============================================================================
