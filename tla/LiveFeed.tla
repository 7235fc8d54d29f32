------------------------------ MODULE LiveFeed ------------------------------
(***************************************************************************)
(* The live view of one account, from the request handlers to the browser: *)
(* the hub of server/live.go and live_requests.go, the in-flight counter   *)
(* of inflight.go, the SSE stream, and the page that follows it            *)
(* (web/assets/live.js, live-requests.js and the activity handler of       *)
(* app.js).  Every channel on the way is bounded and drops what does not   *)
(* fit; deltas and snapshots overtake each other.  Snapshots are what is   *)
(* to repair all of it.                                                    *)
(*                                                                         *)
(* A row is its revision and whether it is complete; a row read back from  *)
(* the Activity history has no revision.  The page's own 200-row limit and *)
(* the rows it holds open are left out.                                    *)
(***************************************************************************)
EXTENDS Integers, FiniteSets, Sequences

CONSTANTS
  Feeds,        \* the requests that are followed
  BufferSize,   \* messages a subscriber's channel holds (8)
  DeltaSize,    \* liveOutcomeBuffer
  KeepDone,     \* completed rows the hub keeps (200)
  MaxBreaks,    \* bound on lost connections, closed panes and failed calls
  Nil

VARIABLES
  stage,     \* where the handler of each request is
  hub,       \* liveHub.requests
  counter,   \* inflightTracker: requests in flight
  aged,      \* requests completed 30 s ago
  logged,    \* requests the Activity history can return
  deltas,    \* activityCh
  conn,      \* the stream: closed, subscribed, live (baseline written)
  buffer,    \* the subscriber's channel
  baseline,  \* the snapshot the handler is about to write
  built,     \* the snapshot the dispatcher is about to broadcast
  open,      \* the pane is open
  early,     \* requests older than the pane
  pane,      \* LiveRequests.rows
  shown,     \* the in-flight counter of the page
  rest,      \* the answer to the pane's first load, under way
  recon,     \* the reconciliation under way: what was asked, what is answered
  breaks     \* how much has gone wrong

serverVars == <<stage, hub, counter, aged, logged>>
streamVars == <<deltas, conn, buffer, baseline, built>>
pageVars   == <<open, early, pane, shown, rest, recon>>
feedVars   == <<serverVars, streamVars, pageVars, breaks>>

Row(rev, done) == [rev |-> rev, done |-> done]
RowOrNil == [rev : 0..2, done : BOOLEAN] \cup {Nil}

FeedTypeOK ==
  /\ stage \in [Feeds -> {"none", "published", "counted", "ending", "withdrawing", "ended"}]
  /\ hub \in [Feeds -> RowOrNil] /\ pane \in [Feeds -> RowOrNil]
  /\ counter \in 0..Cardinality(Feeds) /\ shown \in Nat
  /\ aged \subseteq Feeds /\ logged \subseteq Feeds /\ early \subseteq Feeds
  /\ Len(deltas) <= DeltaSize /\ Len(buffer) <= BufferSize
  /\ conn \in {"closed", "subscribed", "live"} /\ open \in BOOLEAN
  /\ breaks \in 0..MaxBreaks
  /\ conn = "closed" => buffer = <<>> /\ baseline = Nil
  /\ ~open => rest = Nil /\ recon = Nil /\ \A r \in Feeds : pane[r] = Nil

NoRows == [r \in Feeds |-> Nil]

FeedInit ==
  /\ stage = [r \in Feeds |-> "none"]
  /\ hub = NoRows /\ counter = 0 /\ aged = {} /\ logged = {}
  /\ deltas = <<>> /\ conn = "closed" /\ buffer = <<>>
  /\ baseline = Nil /\ built = Nil
  /\ open = FALSE /\ early = {} /\ pane = NoRows /\ shown = 0
  /\ rest = Nil /\ recon = Nil /\ breaks = 0

Move(r, from, to) == stage[r] = from /\ stage' = [stage EXCEPT ![r] = to]

-----------------------------------------------------------------------------
(* The hub.                                                                *)

Subscribed == conn # "closed"

Offer(queue, size, message) ==
  IF Subscribed /\ Len(queue) < size THEN Append(queue, message) ELSE queue

\* pruneRequestsLocked: which completed rows exceed the limit is a matter of
\* their age, which the model leaves open.
Prunings(rows) ==
  LET fresh == {r \in Feeds : rows[r] # Nil /\ (rows[r].done => r \notin aged)}
      done  == {r \in fresh : rows[r].done}
  IN {[r \in Feeds |-> IF r \in fresh \ drop THEN rows[r] ELSE Nil] :
        drop \in {d \in SUBSET done : Cardinality(done \ d) <= KeepDone
                                      /\ (d # {} => Cardinality(done \ d) = KeepDone)}}

\* putRequest: stored and offered to the subscriber under one lock.
PutRequest(r, row) ==
  /\ hub' \in Prunings([hub EXCEPT ![r] = row])
  /\ buffer' = Offer(buffer, BufferSize, [kind |-> "row", of |-> r, row |-> row])

Emit(d) == deltas' = Offer(deltas, DeltaSize, d)

-----------------------------------------------------------------------------
(* The request handlers.                                                   *)

Publish(r) ==
  /\ Move(r, "none", "published")
  /\ PutRequest(r, Row(1, FALSE))
  /\ UNCHANGED <<counter, aged, logged, deltas, conn, baseline, built, pageVars, breaks>>

Count(r) ==
  /\ Move(r, "published", "counted")
  /\ counter' = counter + 1 /\ Emit(1)
  /\ UNCHANGED <<hub, aged, logged, conn, buffer, baseline, built, pageVars, breaks>>

Uncount(r) ==
  /\ Move(r, "counted", "ending")
  /\ counter' = counter - 1 /\ Emit(-1)
  /\ UNCHANGED <<hub, aged, logged, conn, buffer, baseline, built, pageVars, breaks>>

\* The history row is queued first and may be dropped; a request that failed
\* before it was counted completes as well.
Complete(r) ==
  /\ Move(r, "ending", "ended") \/ Move(r, "published", "ended")
  /\ logged' \in {logged, logged \cup {r}}
  /\ PutRequest(r, Row(2, TRUE))
  /\ UNCHANGED <<counter, aged, deltas, conn, baseline, built, pageVars, breaks>>

\* withdrawRequest of a request the plan refused: the removal is broadcast
\* after the lock is released.
Withdraw(r) ==
  /\ Move(r, "published", "withdrawing")
  /\ hub' = [hub EXCEPT ![r] = Nil]
  /\ UNCHANGED <<counter, aged, logged, streamVars, pageVars, breaks>>

AnnounceRemoval(r) ==
  /\ Move(r, "withdrawing", "ended")
  /\ buffer' = Offer(buffer, BufferSize, [kind |-> "removed", of |-> r])
  /\ UNCHANGED <<hub, counter, aged, logged, deltas, conn, baseline, built, pageVars, breaks>>

\* Thirty seconds after the completion.
Age(r) ==
  /\ stage[r] = "ended" /\ r \notin aged
  /\ aged' = aged \cup {r}
  /\ UNCHANGED <<stage, hub, counter, logged, streamVars, pageVars, breaks>>

-----------------------------------------------------------------------------
(* The stream.                                                             *)

\* buildUsageSnapshot reads the rows, and prunes them, and then the counter.
Snapshot(rows) == [kind |-> "snapshot", rows |-> rows, counter |-> counter]

Connect ==
  /\ conn = "closed" /\ conn' = "subscribed"
  /\ UNCHANGED <<serverVars, deltas, buffer, baseline, built, pageVars, breaks>>

BuildBaseline ==
  /\ conn = "subscribed" /\ baseline = Nil
  /\ hub' \in Prunings(hub) /\ baseline' = Snapshot(hub')
  /\ UNCHANGED <<stage, counter, aged, logged, deltas, conn, buffer, built, pageVars, breaks>>

\* The dispatcher fans one delta out; its snapshots come with the idle tick, or
\* the debounce after an outcome, so at any time.
RelayDelta ==
  /\ Subscribed /\ deltas # <<>>
  /\ deltas' = Tail(deltas)
  /\ buffer' = Offer(buffer, BufferSize, [kind |-> "delta", by |-> deltas[1]])
  /\ UNCHANGED <<serverVars, conn, baseline, built, pageVars, breaks>>

BuildSnapshot ==
  /\ Subscribed /\ built = Nil
  /\ hub' \in Prunings(hub) /\ built' = Snapshot(hub')
  /\ UNCHANGED <<stage, counter, aged, logged, deltas, conn, buffer, baseline, pageVars, breaks>>

Broadcast ==
  /\ built # Nil /\ built' = Nil
  /\ buffer' = Offer(buffer, BufferSize, built)
  /\ UNCHANGED <<serverVars, deltas, conn, baseline, pageVars, breaks>>

Break == breaks < MaxBreaks /\ breaks' = breaks + 1

\* The tab is hidden, the network fails, the session ends or the server stops
\* the stream; the last unsubscribe stops the dispatcher, which leaves what is
\* queued for the next one.
Disconnect ==
  /\ Break
  /\ Subscribed /\ conn' = "closed"
  /\ buffer' = <<>> /\ baseline' = Nil
  /\ UNCHANGED <<serverVars, deltas, built, pageVars>>

-----------------------------------------------------------------------------
(* The page.                                                               *)

\* Variant: a row without a revision is never newer.
UpsertNewerOnly(old, r, row) ==
  IF row = Nil \/ (old # Nil /\ old.rev >= row.rev) THEN old
  ELSE IF row.done /\ r \in aged THEN Nil
  ELSE row

\* upsert: what the pane shows of r after it has been sent a row.
Upsert(old, r, row) ==
  IF row = Nil THEN old
  ELSE IF old # Nil /\ ((old.done /\ ~row.done) \/ (row.rev # 0 /\ old.rev > row.rev)) THEN old
  ELSE IF row.done /\ old = Nil /\ r \in early THEN old
  ELSE IF row.done /\ r \in aged THEN Nil
  ELSE row

Merge(rows) == [r \in Feeds |-> Upsert(pane[r], r, rows[r])]

AtLeastZero(n) == IF n < 0 THEN 0 ELSE n

\* A snapshot names every running row; those it does not are asked about.
TakeSnapshot(m) ==
  /\ shown' = m.counter
  /\ IF ~open THEN UNCHANGED <<pane, recon>>
     ELSE LET merged == Merge(m.rows)
              lost == {r \in Feeds : merged[r] # Nil /\ ~merged[r].done /\ m.rows[r] = Nil}
          IN /\ pane' = merged
             /\ recon' = IF lost # {} /\ recon = Nil THEN [ids |-> lost, reply |-> Nil] ELSE recon

Take(m) ==
  \/ /\ m.kind = "row" /\ open
     /\ pane' = [pane EXCEPT ![m.of] = Upsert(@, m.of, m.row)]
     /\ UNCHANGED <<shown, recon>>
  \/ /\ m.kind = "removed" /\ open
     /\ pane' = [pane EXCEPT ![m.of] = Nil]
     /\ UNCHANGED <<shown, recon>>
  \/ /\ m.kind \in {"row", "removed"} /\ ~open
     /\ UNCHANGED <<pane, shown, recon>>
  \/ /\ m.kind = "delta"
     /\ shown' = AtLeastZero(shown + m.by)
     /\ UNCHANGED <<pane, recon>>
  \/ m.kind = "snapshot" /\ TakeSnapshot(m)

\* What waited in the channel while the baseline was built comes after it.
ReceiveBaseline ==
  /\ baseline # Nil /\ conn = "subscribed"
  /\ Take(baseline)
  /\ conn' = "live" /\ baseline' = Nil
  /\ UNCHANGED <<serverVars, deltas, buffer, built, open, early, rest, breaks>>

Receive ==
  /\ conn = "live" /\ buffer # <<>>
  /\ Take(buffer[1])
  /\ buffer' = Tail(buffer)
  /\ UNCHANGED <<serverVars, deltas, conn, baseline, built, open, early, rest, breaks>>

\* start: the first load is answered with the running rows, some time later.
OpenPane ==
  /\ ~open /\ open' = TRUE
  /\ early' = {r \in Feeds : stage[r] # "none"}
  /\ hub' \in Prunings(hub)
  /\ rest' = [r \in Feeds |-> IF hub'[r] # Nil /\ ~hub'[r].done THEN hub'[r] ELSE Nil]
  /\ UNCHANGED <<stage, counter, aged, logged, streamVars, pane, shown, recon, breaks>>

LoadRest ==
  /\ rest # Nil /\ rest' = Nil
  /\ \/ pane' = Merge(rest) /\ UNCHANGED breaks
     \/ Break /\ UNCHANGED pane
  /\ UNCHANGED <<serverVars, streamVars, open, early, shown, recon>>

\* A new generation: answers still under way are ignored.
ClosePane ==
  /\ Break
  /\ open /\ open' = FALSE
  /\ pane' = NoRows /\ early' = {} /\ rest' = Nil /\ recon' = Nil
  /\ UNCHANGED <<serverVars, streamVars, shown>>

\* reconcileLiveRequests: a row of the hub, else of the history, else missing.
AnswerReconcile ==
  /\ recon # Nil /\ recon.reply = Nil
  /\ hub' \in Prunings(hub)
  /\ recon' = [recon EXCEPT !.reply =
       [r \in Feeds |-> IF r \notin recon.ids THEN Nil
                        ELSE IF hub'[r] # Nil THEN hub'[r]
                        ELSE IF r \in logged THEN Row(0, TRUE) ELSE Nil]]
  /\ UNCHANGED <<stage, counter, aged, logged, streamVars, open, early, pane, shown, rest, breaks>>

ApplyReconcile ==
  /\ recon # Nil /\ recon.reply # Nil
  /\ LET merged == Merge(recon.reply)
         missing == {r \in recon.ids : recon.reply[r] = Nil}
     IN pane' = [r \in Feeds |->
          IF r \in missing /\ merged[r] # Nil /\ ~merged[r].done THEN Nil ELSE merged[r]]
  /\ recon' = Nil
  /\ UNCHANGED <<serverVars, streamVars, open, early, shown, rest, breaks>>

ReconcileFails ==
  /\ Break
  /\ recon # Nil /\ recon' = Nil
  /\ UNCHANGED <<serverVars, streamVars, open, early, pane, shown, rest>>

ExpireRow(r) ==
  /\ pane[r] # Nil /\ pane[r].done /\ r \in aged
  /\ pane' = [pane EXCEPT ![r] = Nil]
  /\ UNCHANGED <<serverVars, streamVars, open, early, shown, rest, recon, breaks>>

-----------------------------------------------------------------------------
StreamSteps == Connect \/ BuildBaseline \/ ReceiveBaseline
HandlerSteps ==
  \E r \in Feeds : Publish(r) \/ Count(r) \/ Uncount(r) \/ Complete(r) \/ Withdraw(r)
                   \/ AnnounceRemoval(r)

FeedNext ==
  \/ HandlerSteps
  \/ \E r \in Feeds : Age(r) \/ ExpireRow(r)
  \/ StreamSteps \/ RelayDelta \/ BuildSnapshot \/ Broadcast \/ Receive \/ Disconnect
  \/ OpenPane \/ LoadRest \/ ClosePane
  \/ AnswerReconcile \/ ApplyReconcile \/ ReconcileFails

\* The dispatcher's idle tick, the stream handler, the network and the browser
\* all go on; handlers need not.
FeedFairness ==
  /\ WF_feedVars(StreamSteps) /\ WF_feedVars(RelayDelta)
  /\ WF_feedVars(BuildSnapshot) /\ WF_feedVars(Broadcast) /\ WF_feedVars(Receive)
  /\ WF_feedVars(AnswerReconcile) /\ WF_feedVars(ApplyReconcile) /\ WF_feedVars(LoadRest)

FeedSpec == FeedInit /\ [][FeedNext]_feedVars /\ FeedFairness

-----------------------------------------------------------------------------
(* live.go, "any dropped delta self-heals": once no request is left, the   *)
(* page comes to show none running and none in flight, whatever was        *)
(* dropped, repeated or overtaken on the way.                              *)
AllEnded == \A r \in Feeds : stage[r] \in {"none", "ended"}

PageSettles ==
  <>[]AllEnded => <>[](shown = 0 /\ \A r \in Feeds : pane[r] # Nil => pane[r].done)
=============================================================================
