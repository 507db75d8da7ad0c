------------------------------- MODULE LogStream -------------------------------
(***************************************************************************)
(* The log of the firewall: the table of SQLite and the broadcast channel   *)
(* of LogStore, the pruning task, GET /logs and the websocket               *)
(* (oxidrop/src/state.rs), and the page that shows them                     *)
(* (frontend/src/components/logs.tsx).                                      *)
(*                                                                          *)
(* A record is one call of record_details; the request that makes it may be *)
(* dropped at its await.  The channel keeps its last Buffer entries; a      *)
(* receiver is a position in all that was ever sent.                        *)
(***************************************************************************)
EXTENDS Naturals, Sequences, FiniteSets

CONSTANTS
    Record,     \* the calls of record_details
    Viewer,     \* the browsers that open the page
    Time,       \* what unixepoch() may return; the clock may be set back
    Keep,       \* MAX_PERSISTED_LOGS
    Limit,      \* the rows GET /logs returns, and the entries a page keeps
    Buffer,     \* the capacity of the broadcast channel
    Wire,       \* how many entries a socket takes before its writer must wait
    Absent

ASSUME KeepAssumption == Keep \in Nat \ {0}
ASSUME BoundAssumption == Limit \in Nat /\ Buffer \in Nat /\ Wire \in Nat

VARIABLES
    up,         \* the server is running
    table,      \* firewall_logs: the rows by id
    call,       \* how far each call of record_details is
    sent,       \* what was sent through the channel
    page,       \* the page of each browser
    stream,     \* the websocket of each page, and the receiver behind it
    written,    \* history: the record of each row ever inserted, in that order
    ahead       \* history: the calls that had returned when this one began

vars == <<up, table, call, sent, page, stream, written, ahead>>

Id == Nat \ {0}
Row == [of : Record, time : Time]
Entry == [id : Id, of : Record]
Ids == DOMAIN table
Stored == {[id |-> i, of |-> table[i].of] : i \in Ids}

(* "orphan": dropped, its statement already with SQLite's worker thread.    *)
Call == [stage : {"idle", "insert", "orphan", "lost", "returned"}]
        \cup [stage : {"send"}, entry : Entry]

At(r, stage) == call[r].stage = stage
Move(r, stage) == call' = [call EXCEPT ![r] = [stage |-> stage]]

(* While the answer to GET /logs is under way, `entries` is that answer.    *)
(* `held` is history: what was in the table when the answer was made.       *)
Page == [stage : {"away", "asked", "answered", "loaded", "open", "failed"},
         entries : Seq(Entry), held : SUBSET Entry]

Blank(stage) == [stage |-> stage, entries |-> <<>>, held |-> {}]

(* `heard` is all that went into the socket since it was opened, behind the *)
(* first `from` - 1 entries sent; the browser has taken `seen` of them.     *)
Stream == [open : BOOLEAN, from : Id, next : Id, heard : Seq(Entry), seen : Nat]

(* A page without a websocket is told apart from one with any. *)
ASSUME AbsentAssumption == Absent \notin Stream

--------------------------------------------------------------------------------
(* record_details *)

(* INTEGER PRIMARY KEY: one past the largest id. *)
NextRowId(id) ==
    /\ \A other \in Ids : other < id
    /\ id = 1 \/ id - 1 \in Ids

StoreRow(r, id) ==
    /\ NextRowId(id)
    /\ \E t \in Time :
        table' = [i \in Ids \cup {id} |-> IF i = id THEN [of |-> r, time |-> t] ELSE table[i]]
    /\ written' = Append(written, r)

ReturnedEarly(r) == At(r, "send") \/ At(r, "returned")

Returned(r) == At(r, "returned")

Begin(r) ==
    /\ up
    /\ At(r, "idle")
    /\ Move(r, "insert")
    /\ ahead' = [ahead EXCEPT ![r] = {q \in Record : Returned(q)}]
    /\ UNCHANGED <<up, table, sent, page, stream, written>>

InsertReturningCount(r) ==
    /\ At(r, "insert")
    /\ \E id \in 1..(Len(written) + 1) : StoreRow(r, id)
    /\ call' = [call EXCEPT ![r] = [stage |-> "send",
                                    entry |-> [id |-> Cardinality(Ids) + 1, of |-> r]]]
    /\ UNCHANGED <<up, sent, page, stream, ahead>>

(* INSERT .. RETURNING *)
Insert(r) ==
    /\ At(r, "insert")
    /\ \E id \in 1..(Len(written) + 1) :
        /\ StoreRow(r, id)
        /\ call' = [call EXCEPT ![r] = [stage |-> "send", entry |-> [id |-> id, of |-> r]]]
    /\ UNCHANGED <<up, sent, page, stream, ahead>>

InsertFails(r) ==
    /\ At(r, "insert")
    /\ Move(r, "returned")
    /\ UNCHANGED <<up, table, sent, page, stream, written, ahead>>

Send(r) ==
    /\ At(r, "send")
    /\ sent' = Append(sent, call[r].entry)
    /\ Move(r, "returned")
    /\ UNCHANGED <<up, table, page, stream, written, ahead>>

(* The request is dropped at the await; the statement may still be run.     *)
Drop(r) ==
    /\ At(r, "insert") \/ At(r, "send")
    /\ Move(r, IF At(r, "insert") THEN "orphan" ELSE "lost")
    /\ UNCHANGED <<up, table, sent, page, stream, written, ahead>>

InsertLate(r) ==
    /\ At(r, "orphan")
    /\ \E id \in 1..(Len(written) + 1) : StoreRow(r, id)
    /\ Move(r, "lost")
    /\ UNCHANGED <<up, sent, page, stream, ahead>>

(* Database::record_log, which start-up uses: the row alone.                *)
RecordLog(r) ==
    /\ ~up
    /\ At(r, "idle")
    /\ \E id \in 1..(Len(written) + 1) : StoreRow(r, id)
    /\ Move(r, "returned")
    /\ UNCHANGED <<up, sent, page, stream, ahead>>

--------------------------------------------------------------------------------
(* prune_periodically *)

Above(id) == {i \in Ids : i > id}

PrunedShort(id) == Cardinality(Above(id)) > Keep

PrunedWhole(id) == Cardinality(Above(id)) >= Keep - 1

(* The row at offset Keep from the newest, and all before it.               *)
Pruned(id) == Cardinality(Above(id)) >= Keep

Prune ==
    /\ up
    /\ \E id \in Ids : Pruned(id)
    /\ table' = [id \in {i \in Ids : ~Pruned(i)} |-> table[id]]
    /\ UNCHANGED <<up, call, sent, page, stream, written, ahead>>

--------------------------------------------------------------------------------
(* The page: fetch, then subscribe *)

GoTo(v, stage) == page' = [page EXCEPT ![v].stage = stage]

Open(v) ==
    /\ page[v].stage = "away"
    /\ GoTo(v, "asked")
    /\ UNCHANGED <<up, table, call, sent, stream, written, ahead>>

IsNewer(i, j) == table[i].time > table[j].time \/ (table[i].time = table[j].time /\ i > j)

(* recent: ORDER BY timestamp DESC, id DESC LIMIT 500                       *)
IsRecent(answer) ==
    LET listed == {answer[n].id : n \in 1..Len(answer)}
    IN  /\ \A m, n \in 1..Len(answer) : m < n => IsNewer(answer[m].id, answer[n].id)
        /\ \A i \in Ids \ listed : /\ Len(answer) = Limit
                                   /\ \A j \in listed : IsNewer(j, i)

Answer(v) ==
    /\ up
    /\ page[v].stage = "asked"
    /\ \E n \in 0..Limit : \E answer \in [1..n -> Stored] :
        /\ IsRecent(answer)
        /\ page' = [page EXCEPT ![v] = [stage |-> "answered", entries |-> answer, held |-> Stored]]
    /\ UNCHANGED <<up, table, call, sent, stream, written, ahead>>

(* setEntries(initial), then new WebSocket.                                 *)
Load(v) ==
    /\ page[v].stage = "answered"
    /\ GoTo(v, "loaded")
    /\ UNCHANGED <<up, table, call, sent, stream, written, ahead>>

(* The fetch or the upgrade is refused or fails.                            *)
Fail(v) ==
    /\ page[v].stage \in {"asked", "answered", "loaded"}
    /\ IF page[v].stage = "loaded" THEN GoTo(v, "failed")
       ELSE page' = [page EXCEPT ![v] = Blank("failed")]
    /\ UNCHANGED <<up, table, call, sent, stream, written, ahead>>

(* log_websocket                                                            *)
Subscribe(v) ==
    /\ up
    /\ page[v].stage = "loaded"
    /\ GoTo(v, "open")
    /\ stream' = [stream EXCEPT ![v] = [open |-> TRUE, from |-> Len(sent) + 1,
                                        next |-> Len(sent) + 1, heard |-> <<>>, seen |-> 0]]
    /\ UNCHANGED <<up, table, call, sent, written, ahead>>

WithoutLimit(all) == all

FirstBelow(all) == IF Len(all) >= Limit THEN SubSeq(all, 1, Limit - 1) ELSE all

(* slice(0, 500) *)
FirstOf(all) == IF Len(all) > Limit THEN SubSeq(all, 1, Limit) ELSE all

(* socket.onmessage                                                         *)
Show(v) ==
    /\ stream[v] # Absent
    /\ stream[v].seen < Len(stream[v].heard)
    /\ page' = [page EXCEPT ![v].entries =
                    FirstOf(<<stream[v].heard[stream[v].seen + 1]>> \o page[v].entries)]
    /\ stream' = [stream EXCEPT ![v].seen = @ + 1]
    /\ UNCHANGED <<up, table, call, sent, written, ahead>>

Leave(v) ==
    /\ page[v].stage # "away"
    /\ page' = [page EXCEPT ![v] = Blank("away")]
    /\ stream' = [stream EXCEPT ![v] = Absent]
    /\ UNCHANGED <<up, table, call, sent, written, ahead>>

--------------------------------------------------------------------------------
(* stream_logs: receive, send, until either fails *)

MayReceive(v) ==
    /\ stream[v] # Absent
    /\ stream[v].open
    /\ stream[v].next <= Len(sent)
    /\ Len(stream[v].heard) - stream[v].seen < Wire

Overwritten(position) == position + Buffer <= Len(sent)

Pass(s) ==
    [open |-> s.open, from |-> s.from, next |-> s.next + 1,
     heard |-> Append(s.heard, sent[s.next]), seen |-> s.seen]

Receive(v) ==
    /\ MayReceive(v)
    /\ ~Overwritten(stream[v].next)
    /\ stream' = [stream EXCEPT ![v] = Pass(stream[v])]
    /\ UNCHANGED <<up, table, call, sent, page, written, ahead>>

LagContinues(v) ==
    /\ MayReceive(v)
    /\ Overwritten(stream[v].next)
    /\ stream' = [stream EXCEPT ![v].next = Len(sent) - Buffer + 1]
    /\ UNCHANGED <<up, table, call, sent, page, written, ahead>>

LagKeepsSocket(v) ==
    /\ MayReceive(v)
    /\ Overwritten(stream[v].next)
    /\ UNCHANGED vars

Closed(s) ==
    [open |-> FALSE, from |-> s.from, next |-> s.next, heard |-> s.heard, seen |-> s.seen]

(* recv returns Lagged, which ends the loop: the socket is closed behind    *)
(* what it holds, and the page, which never opens another, stays as it is.  *)
Lag(v) ==
    /\ MayReceive(v)
    /\ Overwritten(stream[v].next)
    /\ stream' = [stream EXCEPT ![v] = Closed(stream[v])]
    /\ UNCHANGED <<up, table, call, sent, page, written, ahead>>

(* The connection is lost with what is on it.                               *)
Cut(s) ==
    [open |-> FALSE, from |-> s.from, next |-> s.next,
     heard |-> SubSeq(s.heard, 1, s.seen), seen |-> s.seen]

Break(v) ==
    /\ stream[v] # Absent
    /\ stream' = [stream EXCEPT ![v] = Cut(stream[v])]
    /\ UNCHANGED <<up, table, call, sent, page, written, ahead>>

--------------------------------------------------------------------------------
Crash ==
    /\ up
    /\ up' = FALSE
    /\ call' = [r \in Record |->
            IF call[r].stage \in {"insert", "orphan", "send"} THEN [stage |-> "lost"] ELSE call[r]]
    /\ stream' = [v \in Viewer |-> IF stream[v] = Absent THEN Absent ELSE Cut(stream[v])]
    /\ UNCHANGED <<table, sent, page, written, ahead>>

Start ==
    /\ ~up
    /\ up' = TRUE
    /\ UNCHANGED <<table, call, sent, page, stream, written, ahead>>

Init ==
    /\ up = FALSE
    /\ table = [id \in {} |-> 0]
    /\ call = [r \in Record |-> [stage |-> "idle"]]
    /\ sent = <<>>
    /\ page = [v \in Viewer |-> Blank("away")]
    /\ stream = [v \in Viewer |-> Absent]
    /\ written = <<>>
    /\ ahead = [r \in Record |-> {}]

Recording(r) ==
    \/ Begin(r) \/ Insert(r) \/ InsertFails(r) \/ Send(r)
    \/ Drop(r) \/ InsertLate(r) \/ RecordLog(r)

Viewing(v) ==
    \/ Open(v) \/ Answer(v) \/ Load(v) \/ Fail(v) \/ Subscribe(v) \/ Show(v) \/ Leave(v)
    \/ Receive(v) \/ Lag(v) \/ Break(v)

Next ==
    \/ \E r \in Record : Recording(r)
    \/ \E v \in Viewer : Viewing(v)
    \/ Prune
    \/ Crash
    \/ Start

Spec == Init /\ [][Next]_vars

(* The pruning task wakes every minute and tries again when it failed; the  *)
(* loop of a websocket is a task of its own, and a browser with the page    *)
(* open takes what its socket brings.                                       *)
FairSpec ==
    /\ Spec
    /\ WF_vars(Prune)
    /\ \A v \in Viewer : WF_vars(Receive(v)) /\ WF_vars(Lag(v)) /\ WF_vars(Show(v))

--------------------------------------------------------------------------------
TypeOK ==
    /\ up \in BOOLEAN
    /\ Ids \subseteq Id
    /\ table \in [Ids -> Row]
    /\ call \in [Record -> Call]
    /\ sent \in Seq(Entry)
    /\ page \in [Viewer -> Page]
    /\ \A v \in Viewer : Len(page[v].entries) <= Limit
    /\ stream \in [Viewer -> Stream \cup {Absent}]
    /\ \A v \in Viewer : stream[v] # Absent => stream[v].seen <= Len(stream[v].heard)
    /\ written \in Seq(Record)
    /\ ahead \in [Record -> SUBSET Record]

(* An id names one record for ever: pruning, crashes and late statements    *)
(* never let SQLite give it again, so neither the table nor a subscriber    *)
(* has two events under one id (the page keys its rows by it).              *)
Names(e) == e.id <= Len(written) /\ written[e.id] = e.of
IdsNameOneRecord ==
    /\ \A e \in Stored : Names(e)
    /\ \A n \in 1..Len(sent) : Names(sent[n])
    /\ \A v \in Viewer : \A n \in 1..Len(page[v].entries) : Names(page[v].entries[n])

(* What went into a socket is what was sent since it was opened, in that    *)
(* order and without a gap, whatever the channel has overwritten meanwhile: *)
(* a stream that cannot go on ends.                                         *)
StreamIsContiguous ==
    \A v \in Viewer : stream[v] # Absent =>
        \A n \in 1..Len(stream[v].heard) :
            /\ stream[v].from + n - 1 <= Len(sent)
            /\ stream[v].heard[n] = sent[stream[v].from + n - 1]

(* Entries reach the channel in an order their calls allow: one that had    *)
(* returned before another began is never sent behind it.                   *)
SentInOrder ==
    \A m, n \in 1..Len(sent) : m < n => sent[n].of \notin ahead[sent[m].of]

(* Pruning never takes a row that is among the Keep newest.                 *)
PruneKeepsNewest ==
    [][\A id \in Ids \ Ids' : Cardinality({i \in Ids' : i > id}) >= Keep]_vars

(* A table that outgrew the bound is brought back to it.                    *)
Overgrown == up /\ Cardinality(Ids) > Keep
TableReturnsToBound == Overgrown ~> ~Overgrown

(* A page whose stream has more for it gets it, or its stream ends: neither *)
(* a full socket nor an overwritten buffer leaves it waiting for good.      *)
Behind(v) ==
    /\ stream[v] # Absent
    /\ \/ stream[v].open /\ stream[v].next <= Len(sent)
       \/ stream[v].seen < Len(stream[v].heard)
StreamsCatchUp == \A v \in Viewer : Behind(v) ~> ~Behind(v)

(* A page with room, whose stream is open and has nothing more for it.      *)
Live(v) ==
    /\ stream[v] # Absent
    /\ stream[v].open
    /\ ~Behind(v)
    /\ Len(page[v].entries) < Limit
Shown(v, e) == \E k \in 1..Len(page[v].entries) : page[v].entries[k] = e

(* "Events emitted by the firewall and HTTP control plane appear here": a   *)
(* live page shows every event that was sent.                               *)
LivePageIsComplete ==
    \A v \in Viewer : Live(v) => \A n \in 1..Len(sent) : Shown(v, sent[n])

(* All that a live page lacks is what was sent before it subscribed and was *)
(* not in the table when its fetch was answered: neither the limits of the  *)
(* answer and the page nor a slow socket nor pruning costs it anything else.*)
OnlyTheGapIsMissed ==
    \A v \in Viewer : Live(v) =>
        \A n \in 1..Len(sent) :
            ~Shown(v, sent[n]) => n < stream[v].from /\ sent[n] \notin page[v].held
================================================================================
