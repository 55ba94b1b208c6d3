------------------------------ MODULE RioWriten ------------------------------
(***************************************************************************)
(* Rio_writen of csapp.c: a buffer of n bytes goes out through as many     *)
(* calls of write as it takes.  The kernel takes any part of what it is    *)
(* given, is interrupted, or fails; what it took arrives in order.         *)
(***************************************************************************)
EXTENDS Naturals, Sequences

VARIABLES
  call,      \* "none", "writing", "written"; "exited" from unix_error, with status 0
  n,         \* the length of the caller's buffer
  nleft,     \* what is left of it
  bufp,      \* the offset of the next byte
  errno,     \* "0", "EINTR" or "error"
  received   \* the bytes the other end has got of this buffer, by their offset

vars == <<call, n, nleft, bufp, errno, received>>

Init ==
  /\ call = "none" /\ n = 0 /\ nleft = 0 /\ bufp = 0
  /\ errno = "0"
  /\ received = << >>

Start(length) ==
  /\ call = "none" /\ call' = "writing"
  /\ n' = length /\ nleft' = length /\ bufp' = 0
  /\ received' = << >>
  /\ UNCHANGED errno

(* Mutant of Advance: the loop starts again from the first byte.           *)
AdvanceNot(nwritten) == UNCHANGED bufp

Advance(nwritten) == bufp' = bufp + nwritten

WriteSome ==
  /\ call = "writing"
  /\ \E nwritten \in 1 .. nleft :
       /\ nleft' = nleft - nwritten
       /\ Advance(nwritten)
       /\ received' = received \o [i \in 1 .. nwritten |-> bufp + i - 1]
  /\ UNCHANGED <<call, n, errno>>

\* Nothing was written, but the next turn of the loop tries again.
Interrupted ==
  /\ call = "writing" /\ nleft > 0
  /\ errno' = "EINTR"
  /\ UNCHANGED <<call, n, nleft, bufp, received>>

\* write returns -1, or 0, which leaves errno as it is: an EINTR left by an
\* earlier call makes the loop go on.
Fails ==
  /\ call = "writing" /\ nleft > 0
  /\ \/ errno' = "error" /\ call' = "exited"
     \/ UNCHANGED errno /\ call' = IF errno = "EINTR" THEN "writing" ELSE "exited"
  /\ UNCHANGED <<n, nleft, bufp, received>>

Returns ==
  /\ call = "writing" /\ nleft = 0
  /\ call' = "written"
  /\ UNCHANGED <<n, nleft, bufp, errno, received>>

Next == WriteSome \/ Interrupted \/ Fails \/ Returns

Done == call = "written" /\ call' = "none" /\ UNCHANGED <<n, nleft, bufp, errno, received>>
=============================================================================
