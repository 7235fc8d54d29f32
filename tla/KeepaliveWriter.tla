-------------------------- MODULE KeepaliveWriter --------------------------
(***************************************************************************)
(* The writer a streamed answer goes through (sse_keepalive.go).  The      *)
(* relay writes an event in several calls (writeSSE: the event line, then  *)
(* the data; rewriteSSE: line by line); a timer that no write has reset    *)
(* for an interval starts a goroutine that writes a comment.  One mutex    *)
(* makes each write, comment, flush and Close a single step; it does not   *)
(* make an event one.                                                      *)
(***************************************************************************)
EXTENDS Naturals, Sequences

CONSTANTS
  Parts,         \* the calls it takes to write one event
  MaxFrames,     \* events of the stream
  MaxFirings     \* how often the interval passes

ASSUME KeepaliveAssumption == Parts \in Nat \ {0} /\ MaxFrames \in Nat /\ MaxFirings \in Nat

VARIABLES
  timer,     \* "armed" or "idle": time.AfterFunc
  firing,    \* goroutines the timer has started, waiting for mu
  stopped,   \* k.stopped
  relay,     \* "writing" until the handler returns
  written,   \* parts the relay has written
  wire       \* what the connection has carried: parts (0 for the last) and comments

keepaliveVars == <<timer, firing, stopped, relay, written, wire>>

Comment == "comment"
Part(n) == IF n % Parts = 0 THEN "last" ELSE "part"

KeepaliveInit ==
  /\ timer = "armed" /\ firing = 0 /\ stopped = FALSE
  /\ relay = "writing" /\ written = 0 /\ wire = <<>>

(* The interval passes; Reset does not recall a goroutine already started. *)
TimerExpires ==
  /\ timer = "armed" /\ firing + (Len(wire) - written) < MaxFirings
  /\ timer' = "idle" /\ firing' = firing + 1
  /\ UNCHANGED <<stopped, relay, written, wire>>

KeepaliveUnchecked ==
  /\ firing > 0 /\ firing' = firing - 1
  /\ wire' = Append(wire, Comment) /\ timer' = "armed"
  /\ UNCHANGED <<stopped, relay, written>>

Keepalive ==
  /\ firing > 0 /\ firing' = firing - 1
  /\ IF stopped THEN UNCHANGED <<wire, timer>>
     ELSE wire' = Append(wire, Comment) /\ timer' = "armed"
  /\ UNCHANGED <<stopped, relay, written>>

Write ==
  /\ relay = "writing" /\ ~stopped /\ written < Parts * MaxFrames
  /\ written' = written + 1 /\ wire' = Append(wire, Part(written + 1))
  /\ timer' = "armed"
  /\ UNCHANGED <<firing, stopped, relay>>

(* The stream ends, or the client is gone: the deferred Close, and the     *)
(* handler returns with it.                                                *)
Close ==
  /\ relay = "writing" /\ relay' = "returned"
  /\ stopped' = TRUE /\ timer' = "idle"
  /\ UNCHANGED <<firing, written, wire>>

KeepaliveNext == TimerExpires \/ Keepalive \/ Write \/ Close

KeepaliveSpec == KeepaliveInit /\ [][KeepaliveNext]_keepaliveVars

-----------------------------------------------------------------------------
(* Until the handler returns the next comment is always on its way: no     *)
(* order of expiries, comments and writes leaves the timer unarmed with    *)
(* nobody to arm it (keepalive's own Reset).                               *)
NeverFallsSilent == ~stopped => timer = "armed" \/ firing > 0

(* "a periodic comment keeps the connection alive without altering the     *)
(* event stream": no comment, which ends with a blank line, lands inside   *)
(* an event.                                                               *)
CommentsBetweenEvents ==
  \A i \in 1..(Len(wire) - 1) : wire[i + 1] = Comment => wire[i] # "part"

(* What the keepalive promises as a whole: while the handler runs it never *)
(* falls silent, and the connection is never used once the handler has     *)
(* returned, though a goroutine may have been waiting for the mutex        *)
(* meanwhile (Close and the stopped check of keepalive).                   *)
KeepaliveHolds ==
  []NeverFallsSilent /\ [][relay = "returned" => wire' = wire]_keepaliveVars
=============================================================================
