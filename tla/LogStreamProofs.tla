---------------------------- MODULE LogStreamProofs ----------------------------
(***************************************************************************)
(* What LogStream promises about the events of the log, for any number of   *)
(* records and pages and any sizes of the table, the channel and the page.  *)
(***************************************************************************)
EXTENDS LogStream, SequenceTheorems, FiniteSetTheorems, WellFoundedInduction, TLAPS

USE KeepAssumption, BoundAssumption, AbsentAssumption

(* What an answer of GET /logs is made of. *)
LEMMA AnswerType ==
    ASSUME NEW S, NEW n \in Nat, NEW answer \in [1..n -> S]
    PROVE  answer \in Seq(S) /\ Len(answer) = n
OBVIOUS

(* What a page keeps when an entry comes. *)
LEMMA FirstOfType ==
    ASSUME NEW e \in Entry, NEW entries \in Seq(Entry)
    PROVE  LET all == <<e>> \o entries
           IN  /\ FirstOf(all) \in Seq(Entry) /\ Len(FirstOf(all)) <= Limit
               /\ \A n \in 1..Len(FirstOf(all)) :
                     FirstOf(all)[n] = e \/ \E k \in 1..Len(entries) : FirstOf(all)[n] = entries[k]
<1> DEFINE all == <<e>> \o entries
<1>1. <<e>> \in Seq(Entry) /\ Len(<<e>>) = 1 /\ <<e>>[1] = e
  OBVIOUS
<1>2. /\ all \in Seq(Entry) /\ Len(all) = 1 + Len(entries)
      /\ \A n \in 1..Len(all) : all[n] = IF n <= 1 THEN <<e>>[n] ELSE entries[n - 1]
  BY <1>1, ConcatProperties
<1>3. Len(entries) \in Nat
  OBVIOUS
<1>4. \A n \in 1..Len(all) : all[n] = e \/ \E k \in 1..Len(entries) : all[n] = entries[k]
  BY <1>1, <1>2, <1>3
<1> HIDE DEF all
<1>5. CASE Len(all) > Limit
  <2>1. \A i \in 1..Limit : all[i] \in Entry /\ i \in 1..Len(all)
    BY <1>2, <1>5
  <2>2. /\ SubSeq(all, 1, Limit) \in Seq(Entry)
        /\ Len(SubSeq(all, 1, Limit)) = Limit
        /\ \A i \in 1..Limit : SubSeq(all, 1, Limit)[i] = all[i]
    BY <2>1, SubSeqProperties
  <2> QED BY <1>4, <1>5, <2>1, <2>2 DEF FirstOf
<1>6. CASE ~(Len(all) > Limit)
  BY <1>2, <1>4, <1>6 DEF FirstOf
<1> QED BY <1>5, <1>6 DEF all

(* The record a step stores, and the rest of the table. *)
LEMMA StoreRowStep ==
    ASSUME TypeOK, NEW r \in Record, NEW id \in 1..(Len(written) + 1), StoreRow(r, id)
    PROVE  /\ Ids' = Ids \cup {id} /\ Ids' \subseteq Id
           /\ table' \in [Ids' -> Row] /\ table'[id].of = r
           /\ \A i \in Ids \ {id} : table'[i] = table[i]
           /\ written' \in Seq(Record) /\ Len(written') = Len(written) + 1
           /\ written'[Len(written) + 1] = r
           /\ \A i \in 1..Len(written) : written'[i] = written[i]
           /\ id \in Id /\ id \notin Ids
<1>1. PICK t \in Time :
        table' = [i \in Ids \cup {id} |-> IF i = id THEN [of |-> r, time |-> t] ELSE table[i]]
  BY DEF StoreRow
<1>2. id \in Id /\ id \notin Ids
  BY DEF TypeOK, StoreRow, NextRowId, Id
<1>3. \A i \in Ids : table[i] \in Row
  BY DEF TypeOK
<1>4. table' \in [Ids \cup {id} -> Row] /\ table'[id] = [of |-> r, time |-> t]
  BY <1>1, <1>3 DEF Row
<1>5. written' \in Seq(Record) /\ Len(written') = Len(written) + 1
      /\ written'[Len(written) + 1] = r
      /\ \A i \in 1..Len(written) : written'[i] = written[i]
  BY DEF TypeOK, StoreRow
<1> QED BY <1>1, <1>2, <1>4, <1>5 DEF TypeOK, Ids

LEMMA MoveType ==
    ASSUME TypeOK, NEW r \in Record, Move(r, "insert") \/ Move(r, "orphan")
                                     \/ Move(r, "lost") \/ Move(r, "returned")
    PROVE  call' \in [Record -> Call]
BY DEF TypeOK, Move, Call

(* What is left of a stream whose connection is lost. *)
LEMMA CutType ==
    ASSUME NEW s \in Stream, s.seen <= Len(s.heard)
    PROVE  /\ Cut(s) \in Stream /\ ~Cut(s).open /\ Cut(s).from = s.from
           /\ Cut(s).seen = Len(Cut(s).heard) /\ Cut(s).seen = s.seen
           /\ Len(Cut(s).heard) <= Len(s.heard)
           /\ \A n \in 1..Len(Cut(s).heard) : Cut(s).heard[n] = s.heard[n]
<1> DEFINE h == SubSeq(s.heard, 1, s.seen)
<1>1. /\ s.heard \in Seq(Entry) /\ s.seen \in Nat /\ Len(s.heard) \in Nat
      /\ s.from \in Id /\ s.next \in Id
  BY DEF Stream
<1>2. \A i \in 1..s.seen : i \in 1..Len(s.heard) /\ s.heard[i] \in Entry
  BY <1>1
<1>3. /\ h \in Seq(Entry) /\ Len(h) = s.seen
      /\ \A i \in 1..s.seen : h[i] = s.heard[i]
  BY <1>1, <1>2, SubSeqProperties
<1> HIDE DEF h
<1>4. Cut(s) = [open |-> FALSE, from |-> s.from, next |-> s.next, heard |-> h, seen |-> s.seen]
  BY DEF Cut, h
<1> QED BY <1>1, <1>3, <1>4 DEF Stream

(* The records that actions make by changing a field. *)
LEMMA ChangedStream ==
    ASSUME NEW s \in Stream
    PROVE  [s EXCEPT !.seen = s.seen + 1]
              = [open |-> s.open, from |-> s.from, next |-> s.next, heard |-> s.heard, seen |-> s.seen + 1]
BY DEF Stream

LEMMA ChangedPage ==
    ASSUME NEW p \in Page, NEW all
    PROVE  [p EXCEPT !.entries = all] = [stage |-> p.stage, entries |-> all, held |-> p.held]
BY DEF Page

(* One stream changes, and the page it belongs to may. *)
LEMMA StreamType ==
    ASSUME TypeOK, NEW v \in Viewer, NEW s \in Stream, s.seen <= Len(s.heard),
           stream' = [stream EXCEPT ![v] = s]
    PROVE  /\ stream' \in [Viewer -> Stream \cup {Absent}]
           /\ \A w \in Viewer : stream'[w] # Absent => stream'[w].seen <= Len(stream'[w].heard)
           /\ stream'[v] = s /\ s # Absent /\ \A w \in Viewer \ {v} : stream'[w] = stream[w]
BY DEF TypeOK

LEMMA PageType ==
    ASSUME TypeOK, NEW v \in Viewer, NEW p \in Page, Len(p.entries) <= Limit,
           page' = [page EXCEPT ![v] = p]
    PROVE  /\ page' \in [Viewer -> Page]
           /\ \A w \in Viewer : Len(page'[w].entries) <= Limit
           /\ page'[v] = p /\ \A w \in Viewer \ {v} : page'[w] = page[w]
BY DEF TypeOK

LEMMA BlankType ==
    ASSUME NEW stage \in {"away", "failed"}
    PROVE  /\ Blank(stage) \in Page /\ Blank(stage).entries = <<>> /\ Blank(stage).held = {}
           /\ Len(Blank(stage).entries) <= Limit
BY DEF Blank, Page

LEMMA GoToType ==
    ASSUME TypeOK, NEW v \in Viewer,
           NEW stage \in {"asked", "answered", "loaded", "open", "failed"}, GoTo(v, stage)
    PROVE  /\ page' \in [Viewer -> Page]
           /\ \A w \in Viewer : Len(page'[w].entries) <= Limit
           /\ \A w \in Viewer : page'[w].entries = page[w].entries /\ page'[w].held = page[w].held
<1> DEFINE p == [stage |-> stage, entries |-> page[v].entries, held |-> page[v].held]
<1>1. page[v] \in Page /\ Len(page[v].entries) <= Limit
  BY DEF TypeOK
<1>2. /\ p \in Page /\ p.entries = page[v].entries /\ p.held = page[v].held
      /\ [page[v] EXCEPT !.stage = stage] = p
  BY <1>1 DEF Page
<1>3. page' = [page EXCEPT ![v] = p]
  BY <1>2 DEF GoTo
<1> HIDE DEF p
<1> QED BY <1>1, <1>2, <1>3, PageType

LEMMA TypeStep == TypeOK /\ [Next]_vars => TypeOK'
<1> SUFFICES ASSUME TypeOK, [Next]_vars PROVE TypeOK'
  OBVIOUS
<1>1. ASSUME NEW r \in Record, Recording(r) PROVE TypeOK'
  <2>1. CASE Begin(r)
    BY <2>1, MoveType DEF Begin, TypeOK, Ids
  <2>2. CASE Insert(r)
    <3>1. PICK id \in 1..(Len(written) + 1) :
            /\ StoreRow(r, id)
            /\ call' = [call EXCEPT ![r] = [stage |-> "send", entry |-> [id |-> id, of |-> r]]]
      BY <2>2 DEF Insert
    <3>2. call' \in [Record -> Call]
      BY <3>1, StoreRowStep DEF TypeOK, Call, Entry
    <3> QED BY <2>2, <3>1, <3>2, StoreRowStep DEF Insert, TypeOK, Ids
  <2>3. CASE InsertFails(r)
    BY <2>3, MoveType DEF InsertFails, TypeOK, Ids
  <2>4. CASE Send(r)
    <3>1. call[r].entry \in Entry
      BY <2>4 DEF Send, At, TypeOK, Call
    <3> QED BY <2>4, <3>1, MoveType DEF Send, TypeOK, Ids
  <2>5. CASE Drop(r)
    BY <2>5, MoveType DEF Drop, TypeOK, Ids
  <2>6. CASE InsertLate(r)
    BY <2>6, MoveType, StoreRowStep DEF InsertLate, TypeOK, Ids
  <2>7. CASE RecordLog(r)
    BY <2>7, MoveType, StoreRowStep DEF RecordLog, TypeOK, Ids
  <2> QED BY <1>1, <2>1, <2>2, <2>3, <2>4, <2>5, <2>6, <2>7 DEF Recording
<1>2. ASSUME NEW v \in Viewer, Viewing(v) PROVE TypeOK'
  <2> DEFINE s == stream[v]
  <2>0. /\ page[v] \in Page /\ Len(page[v].entries) <= Limit /\ page[v].entries \in Seq(Entry)
        /\ s # Absent => s \in Stream /\ s.seen <= Len(s.heard) /\ s.heard \in Seq(Entry)
    BY DEF TypeOK, Page, Stream
  <2>1. CASE Open(v)
    BY <2>1, GoToType DEF Open, TypeOK, Ids
  <2>2. CASE Answer(v)
    <3>0. PICK n \in 0..Limit : \E a \in [1..n -> Stored] :
            page' = [page EXCEPT ![v] = [stage |-> "answered", entries |-> a, held |-> Stored]]
      BY <2>2 DEF Answer
    <3>1. PICK answer \in [1..n -> Stored] :
            page' = [page EXCEPT ![v] = [stage |-> "answered", entries |-> answer, held |-> Stored]]
      BY <3>0
    <3>2. Stored \subseteq Entry
      BY DEF Stored, TypeOK, Row, Entry, Ids
    <3>3. answer \in Seq(Entry) /\ Len(answer) <= Limit
      BY <3>2, AnswerType
    <3>4. [stage |-> "answered", entries |-> answer, held |-> Stored] \in Page
      BY <3>2, <3>3 DEF Page
    <3> QED BY <2>2, <3>1, <3>3, <3>4, PageType DEF Answer, TypeOK, Ids
  <2>3. CASE Load(v)
    BY <2>3, GoToType DEF Load, TypeOK, Ids
  <2>4. CASE Fail(v)
    <3>1. CASE GoTo(v, "failed")
      BY <2>4, <3>1, GoToType DEF Fail, TypeOK, Ids
    <3>2. CASE page' = [page EXCEPT ![v] = Blank("failed")]
      BY <2>4, <3>2, BlankType, PageType DEF Fail, TypeOK, Ids
    <3> QED BY <2>4, <3>1, <3>2 DEF Fail
  <2>5. CASE Subscribe(v)
    <3> DEFINE t == [open |-> TRUE, from |-> Len(sent) + 1, next |-> Len(sent) + 1,
                     heard |-> <<>>, seen |-> 0]
    <3>1. t \in Stream /\ t.seen <= Len(t.heard)
      BY DEF Stream, Id, TypeOK
    <3>2. stream' = [stream EXCEPT ![v] = t]
      BY <2>5 DEF Subscribe
    <3> HIDE DEF t
    <3> QED BY <2>5, <3>1, <3>2, GoToType, StreamType DEF Subscribe, TypeOK, Ids
  <2>6. CASE Show(v)
    <3> DEFINE e == s.heard[s.seen + 1]
               p == [stage |-> page[v].stage, entries |-> FirstOf(<<e>> \o page[v].entries),
                     held |-> page[v].held]
               t == [open |-> s.open, from |-> s.from, next |-> s.next,
                     heard |-> s.heard, seen |-> s.seen + 1]
    <3>1. s \in Stream /\ s.seen < Len(s.heard) /\ s.heard \in Seq(Entry) /\ s.seen \in Nat
      BY <2>0, <2>6 DEF Show, Stream
    <3>2. e \in Entry
      BY <3>1
    <3>3. p \in Page /\ Len(p.entries) <= Limit
      BY <2>0, <3>2, FirstOfType DEF Page
    <3>4. t \in Stream /\ t.seen <= Len(t.heard)
      BY <3>1 DEF Stream
    <3>a. /\ [page[v] EXCEPT !.entries = FirstOf(<<e>> \o page[v].entries)] = p
          /\ [s EXCEPT !.seen = s.seen + 1] = t
      BY <2>0, <3>1, ChangedStream, ChangedPage
    <3>5. page' = [page EXCEPT ![v] = p]
      BY <2>6, <3>a DEF Show
    <3>6. stream' = [stream EXCEPT ![v] = t]
      BY <2>6, <3>a DEF Show
    <3> HIDE DEF p, t
    <3> QED BY <2>6, <3>3, <3>4, <3>5, <3>6, PageType, StreamType DEF Show, TypeOK, Ids
  <2>7. CASE Leave(v)
    <3>1. page' \in [Viewer -> Page] /\ \A w \in Viewer : Len(page'[w].entries) <= Limit
      BY <2>7, BlankType, PageType DEF Leave
    <3>2. /\ stream' \in [Viewer -> Stream \cup {Absent}]
          /\ \A w \in Viewer : stream'[w] # Absent => stream'[w].seen <= Len(stream'[w].heard)
      BY <2>7 DEF Leave, TypeOK
    <3> QED BY <2>7, <3>1, <3>2 DEF Leave, TypeOK, Ids
  <2>8. CASE Receive(v)
    <3> DEFINE t == [open |-> s.open, from |-> s.from, next |-> s.next + 1,
                     heard |-> Append(s.heard, sent[s.next]), seen |-> s.seen]
    <3>1. s \in Stream /\ s.heard \in Seq(Entry) /\ s.seen \in Nat /\ s.next \in 1..Len(sent)
          /\ s.seen <= Len(s.heard) /\ Len(sent) \in Nat
      BY <2>0, <2>8 DEF Receive, MayReceive, Stream, Id, TypeOK
    <3>2. sent[s.next] \in Entry
      BY <3>1 DEF TypeOK
    <3>3. t \in Stream /\ t.seen <= Len(t.heard)
      BY <3>1, <3>2 DEF Stream, Id
    <3>4. stream' = [stream EXCEPT ![v] = t]
      BY <2>8 DEF Receive, Pass
    <3> HIDE DEF t
    <3> QED BY <2>8, <3>3, <3>4, StreamType DEF Receive, TypeOK, Ids
  <2>9. CASE Lag(v)
    <3> DEFINE t == [open |-> FALSE, from |-> s.from, next |-> s.next,
                     heard |-> s.heard, seen |-> s.seen]
    <3>1. s \in Stream /\ s.seen <= Len(s.heard)
      BY <2>0, <2>9 DEF Lag, MayReceive
    <3>2. t \in Stream /\ t.seen <= Len(t.heard)
      BY <3>1 DEF Stream
    <3>3. stream' = [stream EXCEPT ![v] = t]
      BY <2>9 DEF Lag, Closed
    <3> HIDE DEF t
    <3> QED BY <2>9, <3>2, <3>3, StreamType DEF Lag, TypeOK, Ids
  <2>10. CASE Break(v)
    <3>1. s \in Stream /\ s.seen <= Len(s.heard)
      BY <2>0, <2>10 DEF Break
    <3>2. Cut(s) \in Stream /\ Cut(s).seen <= Len(Cut(s).heard)
      BY <3>1, CutType DEF Stream
    <3> QED BY <2>10, <3>2, StreamType DEF Break, TypeOK, Ids
  <2> QED BY <1>2, <2>1, <2>2, <2>3, <2>4, <2>5, <2>6, <2>7, <2>8, <2>9, <2>10 DEF Viewing
<1>3. CASE Prune
  BY <1>3 DEF Prune, TypeOK, Ids
<1>4. CASE Crash
  <2>1. call' \in [Record -> Call]
    BY <1>4 DEF Crash, TypeOK, Call
  <2>2. \A v \in Viewer : stream[v] # Absent =>
          Cut(stream[v]) \in Stream /\ Cut(stream[v]).seen <= Len(Cut(stream[v]).heard)
    BY CutType DEF TypeOK, Stream
  <2>3. /\ stream' \in [Viewer -> Stream \cup {Absent}]
        /\ \A v \in Viewer : stream'[v] # Absent => stream'[v].seen <= Len(stream'[v].heard)
    BY <1>4, <2>2 DEF Crash
  <2> QED BY <1>4, <2>1, <2>3 DEF Crash, TypeOK, Ids
<1>5. CASE Start
  BY <1>5 DEF Start, TypeOK, Ids
<1>6. CASE UNCHANGED vars
  BY <1>6 DEF vars, TypeOK, Ids
<1> QED BY <1>1, <1>2, <1>3, <1>4, <1>5, <1>6 DEF Next

LEMMA InitTyped == Init => TypeOK
<1> SUFFICES ASSUME Init PROVE TypeOK
  OBVIOUS
<1>1. [stage |-> "idle"] \in Call
  BY DEF Call
<1>3. page \in [Viewer -> Page] /\ \A v \in Viewer : Len(page[v].entries) <= Limit
  BY BlankType DEF Init
<1>4. Ids = {} /\ table \in [Ids -> Row]
  BY DEF Init, Ids
<1>5. sent \in Seq(Entry) /\ written \in Seq(Record)
  BY DEF Init
<1>8. up \in BOOLEAN
  BY Zenon DEF Init
<1>6. call \in [Record -> Call] /\ ahead \in [Record -> SUBSET Record]
  BY <1>1 DEF Init
<1>7. /\ stream \in [Viewer -> Stream \cup {Absent}]
      /\ \A v \in Viewer : stream[v] # Absent => stream[v].seen <= Len(stream[v].heard)
  BY DEF Init
<1> QED BY <1>3, <1>4, <1>5, <1>6, <1>7, <1>8 DEF TypeOK

(* Rows, calls, pages and streams are made of what the program makes.       *)
THEOREM TypeCorrect == Spec => []TypeOK
<1> QED BY InitTyped, TypeStep, PTL DEF Spec

--------------------------------------------------------------------------------
(* The largest id that was ever given is never pruned, so SQLite, which     *)
(* gives one past the largest it has, gives the next one; every event       *)
(* anywhere carries the id its record was stored under.                     *)
Heard(v) == IF stream[v] = Absent THEN <<>> ELSE stream[v].heard

IdInv ==
    /\ TypeOK
    /\ Ids \subseteq 1..Len(written)
    /\ written # <<>> => Len(written) \in Ids
    /\ \A i \in Ids : written[i] = table[i].of
    /\ \A r \in Record : At(r, "send") => Names(call[r].entry)
    /\ \A n \in 1..Len(sent) : Names(sent[n])
    /\ \A v \in Viewer : \A n \in 1..Len(page[v].entries) : Names(page[v].entries[n])
    /\ \A v \in Viewer : \A n \in 1..Len(Heard(v)) : Names(Heard(v)[n])

LEMMA HeardType ==
    ASSUME TypeOK, NEW v \in Viewer
    PROVE  Heard(v) \in Seq(Entry) /\ Len(Heard(v)) \in Nat
BY DEF TypeOK, Heard, Stream

LEMMA NextIdIsNew ==
    ASSUME IdInv, NEW r \in Record, NEW id \in 1..(Len(written) + 1), StoreRow(r, id)
    PROVE  id = Len(written) + 1
<1>1. written \in Seq(Record) /\ Len(written) \in Nat
  BY DEF IdInv, TypeOK
<1>2. CASE written = <<>>
  BY <1>1, <1>2
<1>3. CASE written # <<>>
  BY <1>1, <1>3 DEF IdInv, StoreRow, NextRowId
<1> QED BY <1>2, <1>3

(* What a step that stores a row does to the invariant. *)
LEMMA StoreRowNames ==
    ASSUME IdInv, NEW r \in Record, NEW id \in 1..(Len(written) + 1), StoreRow(r, id)
    PROVE  /\ Ids' \subseteq 1..Len(written')
           /\ written' # <<>> => Len(written') \in Ids'
           /\ \A i \in Ids' : written'[i] = table'[i].of
           /\ id <= Len(written') /\ written'[id] = r
           /\ \A e \in Entry : Names(e) => e.id <= Len(written') /\ written'[e.id] = e.of
<1>1. id = Len(written) + 1
  BY NextIdIsNew
<1>2. /\ Ids' = Ids \cup {id} /\ table'[id].of = r
      /\ \A i \in Ids \ {id} : table'[i] = table[i]
      /\ Len(written') = Len(written) + 1 /\ written'[Len(written) + 1] = r
      /\ \A i \in 1..Len(written) : written'[i] = written[i]
      /\ written \in Seq(Record) /\ Len(written) \in Nat /\ id \notin Ids
  BY StoreRowStep DEF IdInv, TypeOK
<1>3. \A i \in Ids : i \in 1..Len(written) /\ written[i] = table[i].of
  BY DEF IdInv
<1>4. \A i \in Ids' : i \in 1..Len(written') /\ written'[i] = table'[i].of
  BY <1>1, <1>2, <1>3
<1>5. \A e \in Entry : Names(e) => e.id \in 1..Len(written)
  BY <1>2 DEF Names, Entry, Id
<1> QED BY <1>1, <1>2, <1>4, <1>5 DEF Names

(* A step that stores nothing leaves an event the name it has. *)
LEMMA SameNames ==
    ASSUME UNCHANGED written
    PROVE  \A e : Names(e) => e.id <= Len(written') /\ written'[e.id] = e.of
BY DEF Names

(* The newest row is never pruned. *)
LEMMA PruneKeepsLast ==
    ASSUME IdInv, written # <<>>
    PROVE  ~Pruned(Len(written))
<1>0. \A i \in Ids : i <= Len(written) /\ i \in Nat /\ Len(written) \in Nat
  BY DEF IdInv, TypeOK
<1>1. Above(Len(written)) = {}
  BY <1>0 DEF Above
<1>2. Cardinality(Above(Len(written))) = 0
  BY <1>1, FS_EmptySet
<1> QED BY <1>2 DEF Pruned

(* What the steps of an open websocket leave of what it heard. *)
LEMMA ShowHears ==
    ASSUME TypeOK, NEW v \in Viewer, Show(v)
    PROVE  /\ stream[v] \in Stream /\ stream'[v] \in Stream
           /\ stream'[v].heard = stream[v].heard /\ stream'[v].open = stream[v].open
           /\ stream'[v].from = stream[v].from /\ stream'[v].next = stream[v].next
           /\ stream[v].seen < Len(stream[v].heard) /\ stream'[v].seen = stream[v].seen + 1
<1> DEFINE s == stream[v]
           t == [open |-> s.open, from |-> s.from, next |-> s.next,
                 heard |-> s.heard, seen |-> s.seen + 1]
<1>1. s \in Stream /\ s.seen \in Nat /\ s.seen < Len(s.heard)
  BY DEF TypeOK, Show, Stream
<1>2. /\ t \in Stream /\ t.heard = s.heard /\ t.open = s.open /\ t.from = s.from /\ t.next = s.next
      /\ t.seen = s.seen + 1
  BY <1>1 DEF Stream
<1>3. [s EXCEPT !.seen = s.seen + 1] = t
  BY <1>1, ChangedStream
<1>4. stream' = [stream EXCEPT ![v] = t]
  BY <1>3 DEF Show
<1> HIDE DEF t
<1> QED BY <1>1, <1>2, <1>4 DEF TypeOK

LEMMA ReceiveHears ==
    ASSUME TypeOK, NEW v \in Viewer, Receive(v)
    PROVE  /\ stream[v] \in Stream /\ stream'[v] \in Stream
           /\ stream[v].open /\ stream[v].next \in 1..Len(sent)
           /\ stream'[v].heard = Append(stream[v].heard, sent[stream[v].next])
           /\ stream'[v].open = stream[v].open
           /\ stream'[v].from = stream[v].from /\ stream'[v].next = stream[v].next + 1
           /\ stream'[v].seen = stream[v].seen
<1> DEFINE s == stream[v]
           t == Pass(s)
<1>1. s \in Stream /\ s.open /\ s.next \in 1..Len(sent) /\ s.next \in Nat /\ s.heard \in Seq(Entry)
  BY DEF TypeOK, Receive, MayReceive, Stream, Id
<1>2. sent[s.next] \in Entry
  BY <1>1 DEF TypeOK
<1>3. t \in Stream /\ t.heard = Append(s.heard, sent[s.next])
      /\ t.open = s.open /\ t.from = s.from /\ t.next = s.next + 1 /\ t.seen = s.seen
  BY <1>1, <1>2 DEF Stream, Pass, Id
<1>4. stream' = [stream EXCEPT ![v] = t]
  BY DEF Receive
<1> HIDE DEF t
<1> QED BY <1>1, <1>3, <1>4 DEF TypeOK

LEMMA LagHears ==
    ASSUME TypeOK, NEW v \in Viewer, Lag(v)
    PROVE  /\ stream[v] \in Stream /\ stream'[v] \in Stream
           /\ stream'[v].heard = stream[v].heard /\ ~stream'[v].open
           /\ stream'[v].from = stream[v].from /\ stream'[v].seen = stream[v].seen
<1> DEFINE s == stream[v]
           t == Closed(s)
<1>1. s \in Stream
  BY DEF TypeOK, Lag, MayReceive
<1>2. t \in Stream /\ t.heard = s.heard /\ ~t.open /\ t.from = s.from /\ t.seen = s.seen
  BY <1>1 DEF Stream, Closed
<1>3. stream' = [stream EXCEPT ![v] = t]
  BY DEF Lag
<1> HIDE DEF t
<1> QED BY <1>1, <1>2, <1>3 DEF TypeOK

LEMMA RecordingKeepsIds ==
    ASSUME IdInv, NEW r \in Record, Recording(r), TypeOK' PROVE IdInv'
<1>0. /\ call \in [Record -> Call] /\ sent \in Seq(Entry)
      /\ \A v \in Viewer : page[v].entries \in Seq(Entry)
      /\ \A v \in Viewer : Heard(v) \in Seq(Entry)
      /\ \A q \in Record : At(q, "send") => call[q].entry \in Entry
  BY HeardType DEF IdInv, TypeOK, Page, At, Call
<1>1. \A v \in Viewer : Heard(v)' = Heard(v) /\ page'[v].entries = page[v].entries
  BY DEF Recording, Begin, Insert, InsertFails, Send, Drop, InsertLate, RecordLog, Heard
<1>2. ASSUME NEW id \in 1..(Len(written) + 1), StoreRow(r, id), sent' = sent,
             \A q \in Record : At(q, "send")' =>
                (At(q, "send") /\ call'[q].entry = call[q].entry)
                \/ call'[q].entry = [id |-> id, of |-> r]
      PROVE  IdInv'
  <2>1. /\ Ids' \subseteq 1..Len(written')
        /\ written' # <<>> => Len(written') \in Ids'
        /\ \A i \in Ids' : written'[i] = table'[i].of
        /\ id <= Len(written') /\ written'[id] = r
        /\ \A e \in Entry : Names(e) => e.id <= Len(written') /\ written'[e.id] = e.of
    BY <1>2, StoreRowNames
  <2>2. \A q \in Record : At(q, "send")' => Names(call[q].entry)'
    BY <1>0, <1>2, <2>1 DEF IdInv, Names
  <2>3. \A n \in 1..Len(sent') : Names(sent[n])'
    BY <1>0, <1>2, <2>1 DEF IdInv, Names
  <2>4. \A v \in Viewer : \A n \in 1..Len(page'[v].entries) : Names(page[v].entries[n])'
    <3> SUFFICES ASSUME NEW v \in Viewer, NEW n \in 1..Len(page'[v].entries)
                 PROVE  Names(page[v].entries[n])'
      OBVIOUS
    <3>1. page'[v].entries = page[v].entries /\ page[v].entries \in Seq(Entry)
      BY <1>0, <1>1
    <3>2. page[v].entries[n] \in Entry /\ Names(page[v].entries[n])
      BY <3>1 DEF IdInv
    <3> QED BY <2>1, <3>1, <3>2 DEF Names
  <2>5. \A v \in Viewer : \A n \in 1..Len(Heard(v)') : Names(Heard(v)[n])'
    BY <1>0, <1>1, <2>1 DEF IdInv, Names
  <2> QED BY <2>1, <2>2, <2>3, <2>4, <2>5 DEF IdInv
<1>3. ASSUME UNCHANGED <<table, written>>,
             \A q \in Record : At(q, "send")' => At(q, "send") /\ call'[q].entry = call[q].entry,
             \A n \in 1..Len(sent') : (n \in 1..Len(sent) /\ sent'[n] = sent[n]) \/ Names(sent'[n])
      PROVE  IdInv'
  <2>1. \A e : Names(e) => e.id <= Len(written') /\ written'[e.id] = e.of
    BY <1>3, SameNames
  <2>2. \A q \in Record : At(q, "send")' => Names(call[q].entry)'
    BY <1>3, <2>1 DEF IdInv, Names
  <2>3. \A n \in 1..Len(sent') : Names(sent[n])'
    BY <1>3, <2>1 DEF IdInv, Names
  <2>4. \A v \in Viewer : \A n \in 1..Len(page'[v].entries) : Names(page[v].entries[n])'
    BY <1>1, <2>1 DEF IdInv, Names
  <2>5. \A v \in Viewer : \A n \in 1..Len(Heard(v)') : Names(Heard(v)[n])'
    BY <1>1, <2>1 DEF IdInv, Names
  <2> QED BY <1>3, <2>2, <2>3, <2>4, <2>5 DEF IdInv, Ids
<1>4. CASE Begin(r)
  BY <1>0, <1>3, <1>4 DEF Begin, Move, At
<1>5. CASE Insert(r)
  BY <1>0, <1>2, <1>5 DEF Insert, At
<1>6. CASE InsertFails(r)
  BY <1>0, <1>3, <1>6 DEF InsertFails, Move, At
<1>7. CASE Send(r)
  <2>1. call[r].entry \in Entry /\ Names(call[r].entry)
    BY <1>0, <1>7 DEF Send, IdInv
  <2>2. \A n \in 1..Len(sent') : (n \in 1..Len(sent) /\ sent'[n] = sent[n]) \/ Names(sent'[n])
    BY <1>0, <1>7, <2>1 DEF Send
  <2> QED BY <1>0, <1>3, <1>7, <2>2 DEF Send, Move, At
<1>8. CASE Drop(r)
  BY <1>0, <1>3, <1>8 DEF Drop, Move, At
<1>9. CASE InsertLate(r)
  BY <1>0, <1>2, <1>9 DEF InsertLate, Move, At
<1>10. CASE RecordLog(r)
  BY <1>0, <1>2, <1>10 DEF RecordLog, Move, At
<1> QED BY <1>4, <1>5, <1>6, <1>7, <1>8, <1>9, <1>10 DEF Recording

LEMMA ViewingKeepsIds ==
    ASSUME IdInv, NEW v \in Viewer, Viewing(v), TypeOK' PROVE IdInv'
<1> DEFINE s == stream[v]
<1>0. /\ page[v].entries \in Seq(Entry) /\ sent \in Seq(Entry)
      /\ s # Absent => s \in Stream /\ s.heard \in Seq(Entry) /\ Heard(v) = s.heard
                       /\ s.seen <= Len(s.heard)
      /\ page \in [Viewer -> Page] /\ stream \in [Viewer -> Stream \cup {Absent}]
  BY DEF IdInv, TypeOK, Page, Stream, Heard
<1>1. UNCHANGED <<table, call, sent, written>>
  BY DEF Viewing, Open, Answer, Load, Fail, Subscribe, Show, Leave, Receive, Lag, Break
<1>2. \A w \in Viewer \ {v} : page'[w] = page[w] /\ stream'[w] = stream[w]
  BY <1>0 DEF Viewing, Open, Answer, Load, Fail, Subscribe, Show, Leave, Receive, Lag, Break, GoTo
<1>3. ASSUME \A n \in 1..Len(page'[v].entries) : Names(page'[v].entries[n]),
             \A n \in 1..Len(Heard(v)') : Names(Heard(v)'[n])
      PROVE  IdInv'
  <2>1. \A e : Names(e) => e.id <= Len(written') /\ written'[e.id] = e.of
    BY <1>1, SameNames
  <2>2. \A r \in Record : At(r, "send")' => Names(call[r].entry)'
    BY <1>1, <2>1 DEF IdInv, Names, At
  <2>3. \A n \in 1..Len(sent') : Names(sent[n])'
    BY <1>1, <2>1 DEF IdInv, Names
  <2>4. ASSUME NEW w \in Viewer, NEW n \in 1..Len(page'[w].entries)
        PROVE  Names(page[w].entries[n])'
    <3>1. Names(page'[w].entries[n])
      BY <1>2, <1>3 DEF IdInv
    <3> QED BY <1>1, <3>1 DEF Names
  <2>5. ASSUME NEW w \in Viewer, NEW n \in 1..Len(Heard(w)')
        PROVE  Names(Heard(w)[n])'
    <3>1. w # v => Heard(w)' = Heard(w)
      BY <1>2 DEF Heard
    <3>2. Names(Heard(w)'[n])
      BY <1>3, <3>1 DEF IdInv
    <3> QED BY <1>1, <3>2 DEF Names
  <2> QED BY <1>1, <2>2, <2>3, <2>4, <2>5 DEF IdInv, Ids
<1>4. /\ \A n \in 1..Len(page[v].entries) : Names(page[v].entries[n])
      /\ \A n \in 1..Len(Heard(v)) : Names(Heard(v)[n])
  BY DEF IdInv
<1>5. CASE Open(v) \/ Load(v)
  <2>1. page'[v].entries = page[v].entries /\ stream' = stream
    BY <1>5, GoToType DEF IdInv, Open, Load
  <2> QED BY <1>3, <1>4, <2>1 DEF Heard
<1>6. CASE Answer(v)
  <2>1. PICK n \in 0..Limit : \E a \in [1..n -> Stored] :
          page' = [page EXCEPT ![v] = [stage |-> "answered", entries |-> a, held |-> Stored]]
    BY <1>6 DEF Answer
  <2>2. PICK answer \in [1..n -> Stored] :
          page' = [page EXCEPT ![v] = [stage |-> "answered", entries |-> answer, held |-> Stored]]
    BY <2>1
  <2>3. answer \in Seq(Stored) /\ Len(answer) = n
    BY AnswerType
  <2>4. page'[v].entries = answer /\ stream' = stream
    BY <1>0, <1>6, <2>2 DEF Answer
  <2>5. \A e \in Stored : Names(e)
    BY DEF Stored, IdInv, Names, TypeOK
  <2> QED BY <1>3, <1>4, <2>3, <2>4, <2>5 DEF Heard
<1>7. CASE Fail(v)
  <2>1. /\ page'[v].entries = page[v].entries \/ page'[v].entries = <<>>
        /\ stream' = stream
    BY <1>0, <1>7, BlankType, GoToType DEF Fail, IdInv
  <2> QED BY <1>3, <1>4, <2>1 DEF Heard
<1>8. CASE Subscribe(v)
  <2>1. page'[v].entries = page[v].entries /\ Heard(v)' = <<>>
    BY <1>0, <1>8, GoToType DEF IdInv, Subscribe, Heard
  <2> QED BY <1>3, <1>4, <2>1
<1>9. CASE Show(v)
  <2> DEFINE e == s.heard[s.seen + 1]
             all == FirstOf(<<e>> \o page[v].entries)
  <2>1. s \in Stream /\ s.heard \in Seq(Entry) /\ s.seen \in Nat /\ s.seen < Len(s.heard)
        /\ Heard(v) = s.heard
    BY <1>0, <1>9 DEF Show, Stream
  <2>2. e \in Entry /\ Names(e)
    BY <1>4, <2>1
  <2>3. all \in Seq(Entry) /\ \A n \in 1..Len(all) :
          all[n] = e \/ \E k \in 1..Len(page[v].entries) : all[n] = page[v].entries[k]
    BY <1>0, <2>2, FirstOfType
  <2>4. page'[v].entries = all
    BY <1>0, <1>9 DEF Show, Page
  <2>5. Heard(v)' = s.heard
    BY <1>9, ShowHears DEF Heard, IdInv
  <2> HIDE DEF all, e
  <2> QED BY <1>3, <1>4, <2>1, <2>2, <2>3, <2>4, <2>5
<1>10. CASE Leave(v)
  <2>1. page'[v].entries = <<>> /\ Heard(v)' = <<>>
    BY <1>0, <1>10, BlankType DEF Leave, Heard
  <2> QED BY <1>3, <2>1
<1>11. CASE Receive(v)
  <2>1. s \in Stream /\ s.heard \in Seq(Entry) /\ s.next \in 1..Len(sent) /\ Heard(v) = s.heard
    BY <1>0, <1>11 DEF Receive, MayReceive, Stream, Id
  <2>2. page' = page /\ Heard(v)' = Append(s.heard, sent[s.next])
    BY <1>11, ReceiveHears DEF Receive, Heard, IdInv
  <2>3. Names(sent[s.next])
    BY <2>1 DEF IdInv
  <2> QED BY <1>3, <1>4, <2>1, <2>2, <2>3
<1>12. CASE Lag(v)
  <2>1. page' = page /\ Heard(v)' = Heard(v)
    BY <1>12, LagHears DEF Lag, Heard, IdInv
  <2> QED BY <1>3, <1>4, <2>1
<1>13. CASE Break(v)
  <2>1. s # Absent /\ s \in Stream /\ s.seen <= Len(s.heard) /\ Heard(v) = s.heard
    BY <1>0, <1>13 DEF Break
  <2>2. /\ Cut(s) \in Stream
        /\ Len(Cut(s).heard) <= Len(s.heard)
        /\ \A n \in 1..Len(Cut(s).heard) : Cut(s).heard[n] = s.heard[n]
    BY <2>1, CutType
  <2>3. page' = page /\ Heard(v)' = Cut(s).heard
    BY <1>0, <1>13, <2>2 DEF Break, Heard, IdInv, TypeOK
  <2>4. Len(Cut(s).heard) \in Nat /\ Len(s.heard) \in Nat
    BY <2>1, <2>2 DEF Stream
  <2> QED BY <1>3, <1>4, <2>1, <2>2, <2>3, <2>4
<1> QED BY <1>5, <1>6, <1>7, <1>8, <1>9, <1>10, <1>11, <1>12, <1>13 DEF Viewing

LEMMA IdStep == IdInv /\ [Next]_vars => IdInv'
<1> SUFFICES ASSUME IdInv, [Next]_vars PROVE IdInv'
  OBVIOUS
<1>0. TypeOK'
  BY TypeStep DEF IdInv
<1>1. ASSUME UNCHANGED <<written, sent, page>>,
             Ids' \subseteq Ids, \A i \in Ids' : table'[i] = table[i],
             written # <<>> => Len(written) \in Ids',
             \A r \in Record : At(r, "send")' => At(r, "send") /\ call'[r].entry = call[r].entry,
             \A v \in Viewer : \A n \in 1..Len(Heard(v)') :
                n \in 1..Len(Heard(v)) /\ Heard(v)'[n] = Heard(v)[n]
      PROVE  IdInv'
  <2>1. \A e : Names(e) => e.id <= Len(written') /\ written'[e.id] = e.of
    BY <1>1, SameNames
  <2>2. /\ Ids' \subseteq 1..Len(written')
        /\ \A i \in Ids' : written'[i] = table'[i].of
    BY <1>1 DEF IdInv
  <2>3. \A r \in Record : At(r, "send")' => Names(call[r].entry)'
    BY <1>1, <2>1 DEF IdInv, Names
  <2>4. \A n \in 1..Len(sent') : Names(sent[n])'
    BY <1>1, <2>1 DEF IdInv, Names
  <2>5. ASSUME NEW v \in Viewer, NEW n \in 1..Len(page'[v].entries)
        PROVE  Names(page[v].entries[n])'
    <3>1. Names(page[v].entries[n])
      BY <1>1 DEF IdInv
    <3> QED BY <1>1, <3>1 DEF Names
  <2>6. ASSUME NEW v \in Viewer, NEW n \in 1..Len(Heard(v)')
        PROVE  Names(Heard(v)[n])'
    <3>1. Names(Heard(v)'[n])
      BY <1>1 DEF IdInv
    <3> QED BY <1>1, <3>1 DEF Names
  <2> QED BY <1>0, <1>1, <2>2, <2>3, <2>4, <2>5, <2>6 DEF IdInv
<1>2. CASE Prune
  <2>1. /\ Ids' = {i \in Ids : ~Pruned(i)} /\ \A i \in Ids' : table'[i] = table[i]
        /\ UNCHANGED <<written, sent, page, stream, call>>
    BY <1>2 DEF Prune, Ids
  <2>2. written # <<>> => Len(written) \in Ids'
    BY <2>1, PruneKeepsLast DEF IdInv
  <2>3. \A v \in Viewer : Heard(v)' = Heard(v)
    BY <2>1 DEF Heard
  <2> QED BY <1>1, <2>1, <2>2, <2>3 DEF At
<1>3. CASE Crash
  <2>1. /\ UNCHANGED <<table, written, sent, page>>
        /\ \A r \in Record : At(r, "send")' => At(r, "send") /\ call'[r].entry = call[r].entry
    BY <1>3 DEF Crash, At
  <2>2. ASSUME NEW v \in Viewer, NEW n \in 1..Len(Heard(v)')
        PROVE  n \in 1..Len(Heard(v)) /\ Heard(v)'[n] = Heard(v)[n]
    <3>1. CASE stream[v] = Absent
      BY <1>3, <3>1 DEF Crash, Heard
    <3>2. CASE stream[v] # Absent
      <4>1. /\ Cut(stream[v]) \in Stream /\ stream[v] \in Stream
            /\ Len(Cut(stream[v]).heard) <= Len(stream[v].heard)
            /\ \A k \in 1..Len(Cut(stream[v]).heard) : Cut(stream[v]).heard[k] = stream[v].heard[k]
        BY <3>2, CutType DEF IdInv, TypeOK
      <4>2. Len(Cut(stream[v]).heard) \in Nat /\ Len(stream[v].heard) \in Nat
        BY <4>1 DEF Stream
      <4>3. Heard(v)' = Cut(stream[v]).heard /\ Heard(v) = stream[v].heard
        BY <1>3, <3>2, <4>1 DEF Crash, Heard
      <4> QED BY <4>1, <4>2, <4>3
    <3> QED BY <3>1, <3>2
  <2> QED BY <1>1, <2>1, <2>2 DEF Ids, IdInv
<1>4. CASE Start \/ UNCHANGED vars
  <2>1. UNCHANGED <<table, call, sent, page, stream, written>>
    BY <1>4 DEF Start, vars
  <2> QED BY <1>1, <2>1 DEF Ids, IdInv, At, Heard
<1> QED BY <1>0, <1>2, <1>3, <1>4, RecordingKeepsIds, ViewingKeepsIds DEF Next

LEMMA InitIds == Init => IdInv
<1> SUFFICES ASSUME Init PROVE IdInv
  OBVIOUS
<1>1. Ids = {} /\ TypeOK
  BY InitTyped DEF Init, Ids
<1>2. \A r \in Record : ~At(r, "send")
  BY DEF Init, At
<1>3. \A v \in Viewer : page[v].entries = <<>> /\ Heard(v) = <<>>
  BY BlankType DEF Init, Heard
<1>4. sent = <<>> /\ written = <<>>
  BY DEF Init
<1> QED BY <1>1, <1>2, <1>3, <1>4 DEF IdInv

(* However many records are stored, pruned and lost in crashes, an id is    *)
(* given to one record only.                                                *)
THEOREM IdsAreNeverReused == Spec => []IdsNameOneRecord
<1>1. Init => IdInv
  BY InitIds
<1>2. IdInv => IdsNameOneRecord
  BY DEF IdInv, IdsNameOneRecord, Stored, Names, TypeOK
<1> QED BY <1>1, <1>2, IdStep, PTL DEF Spec

--------------------------------------------------------------------------------
(* An open stream goes on where what it heard ends.                         *)
FollowsSent(v) ==
    LET s == stream[v]
    IN  /\ s.open => s.next = s.from + Len(s.heard)
        /\ \A n \in 1..Len(s.heard) :
              s.from + n - 1 <= Len(sent) /\ s.heard[n] = sent[s.from + n - 1]

StreamInv ==
    /\ TypeOK
    /\ \A v \in Viewer : stream[v] # Absent => FollowsSent(v)

(* A stream that lost what was behind, and may be closed. *)
LEMMA StillFollows ==
    ASSUME NEW s, NEW t, NEW v,
           s = stream[v], t = stream'[v], FollowsSent(v), sent' = sent,
           s.heard \in Seq(Entry), t.heard \in Seq(Entry), t.from = s.from,
           t.open => s.open /\ t.next = s.next /\ Len(t.heard) = Len(s.heard),
           Len(t.heard) <= Len(s.heard),
           \A n \in 1..Len(t.heard) : t.heard[n] = s.heard[n]
    PROVE  FollowsSent(v)'
<1>1. \A n \in 1..Len(t.heard) : n \in 1..Len(s.heard)
  OBVIOUS
<1> QED BY <1>1 DEF FollowsSent

LEMMA StreamStep == StreamInv /\ [Next]_vars => StreamInv'
<1> SUFFICES ASSUME StreamInv, [Next]_vars PROVE StreamInv'
  OBVIOUS
<1>0. /\ TypeOK /\ TypeOK' /\ sent \in Seq(Entry)
      /\ \A v \in Viewer : stream[v] # Absent =>
            /\ stream[v] \in Stream /\ stream[v].heard \in Seq(Entry)
            /\ stream[v].from \in Nat \ {0} /\ FollowsSent(v)
            /\ stream[v].seen <= Len(stream[v].heard)
  BY TypeStep DEF StreamInv, TypeOK, Stream, Id
<1>1. ASSUME NEW r \in Record, Recording(r) PROVE StreamInv'
  <2>1. stream' = stream
    BY <1>1 DEF Recording, Begin, Insert, InsertFails, Send, Drop, InsertLate, RecordLog
  <2>2. /\ Len(sent) <= Len(sent')
        /\ \A n \in 1..Len(sent) : sent'[n] = sent[n]
    <3>1. sent' = sent \/ sent' = Append(sent, call[r].entry)
      BY <1>1 DEF Recording, Begin, Insert, InsertFails, Send, Drop, InsertLate, RecordLog
    <3> QED BY <1>0, <3>1
  <2>3. Len(sent') \in Nat /\ Len(sent) \in Nat
    BY <1>0 DEF TypeOK
  <2>4. ASSUME NEW v \in Viewer, stream[v] # Absent PROVE FollowsSent(v)'
    <3> DEFINE s == stream[v]
    <3>1. s.heard \in Seq(Entry) /\ s.from \in Nat \ {0} /\ FollowsSent(v)
      BY <1>0, <2>4
    <3>2. ASSUME NEW n \in 1..Len(s.heard)
          PROVE  s.from + n - 1 <= Len(sent') /\ s.heard[n] = sent'[s.from + n - 1]
      <4>1. s.from + n - 1 <= Len(sent) /\ s.heard[n] = sent[s.from + n - 1]
        BY <3>1 DEF FollowsSent
      <4>2. s.from \in Nat \ {0} /\ n \in Nat \ {0}
        BY <3>1
      <4>3. s.from + n - 1 \in 1..Len(sent)
        BY <2>3, <4>1, <4>2
      <4> HIDE DEF s
      <4> QED BY <2>2, <2>3, <4>1, <4>3
    <3> QED BY <2>1, <3>1, <3>2 DEF FollowsSent
  <2> QED BY <1>0, <2>1, <2>4 DEF StreamInv
<1>2. ASSUME NEW v \in Viewer, Viewing(v) PROVE StreamInv'
  <2> DEFINE s == stream[v]
  <2>1. sent' = sent /\ \A w \in Viewer \ {v} : stream'[w] = stream[w]
    BY <1>2 DEF StreamInv, TypeOK, Viewing, Open, Answer, Load, Fail, Subscribe, Show, Leave, Receive, Lag, Break
  <2>2. ASSUME stream'[v] # Absent => FollowsSent(v)' PROVE StreamInv'
    BY <1>0, <2>1, <2>2 DEF StreamInv, FollowsSent
  <2>3. CASE stream' = stream
    BY <1>0, <2>1, <2>2, <2>3 DEF FollowsSent
  <2>4. CASE Subscribe(v)
    <3>1. stream'[v] = [open |-> TRUE, from |-> Len(sent) + 1, next |-> Len(sent) + 1,
                        heard |-> <<>>, seen |-> 0]
      BY <1>0, <2>4 DEF Subscribe, TypeOK
    <3> QED BY <1>0, <2>2, <3>1 DEF FollowsSent
  <2>5. CASE Show(v)
    <3>1. /\ s \in Stream /\ s # Absent
          /\ stream'[v].heard = s.heard /\ stream'[v].open = s.open
          /\ stream'[v].from = s.from /\ stream'[v].next = s.next
      BY <1>0, <2>5, ShowHears
    <3> QED BY <1>0, <2>1, <2>2, <3>1 DEF FollowsSent
  <2>6. CASE Leave(v)
    BY <1>0, <2>2, <2>6 DEF Leave, TypeOK
  <2>7. CASE Receive(v)
    <3>1. /\ s \in Stream /\ s # Absent /\ s.open /\ s.next \in 1..Len(sent)
          /\ stream'[v].heard = Append(s.heard, sent[s.next]) /\ stream'[v].open = s.open
          /\ stream'[v].from = s.from /\ stream'[v].next = s.next + 1
      BY <1>0, <2>7, ReceiveHears
    <3>2. s.heard \in Seq(Entry) /\ s.from \in Nat \ {0} /\ FollowsSent(v)
      BY <1>0, <3>1
    <3>3. s.next = s.from + Len(s.heard)
      BY <3>1, <3>2 DEF FollowsSent
    <3>4. sent[s.next] \in Entry
      BY <1>0, <3>1
    <3>5. /\ Len(Append(s.heard, sent[s.next])) = Len(s.heard) + 1
          /\ \A n \in 1..Len(s.heard) : Append(s.heard, sent[s.next])[n] = s.heard[n]
          /\ Append(s.heard, sent[s.next])[Len(s.heard) + 1] = sent[s.next]
      BY <3>2, <3>4
    <3> DEFINE h == Append(s.heard, sent[s.next])
    <3>6. ASSUME NEW n \in 1..Len(h)
          PROVE  s.from + n - 1 <= Len(sent) /\ h[n] = sent[s.from + n - 1]
      <4>1. CASE n = Len(s.heard) + 1
        BY <1>0, <3>1, <3>2, <3>3, <3>5, <4>1
      <4>2. CASE n \in 1..Len(s.heard)
        BY <3>2, <3>5, <4>2 DEF FollowsSent
      <4> QED BY <3>2, <3>5, <4>1, <4>2
    <3>7. s.next + 1 = s.from + Len(h)
      BY <1>0, <3>2, <3>3, <3>5
    <3> HIDE DEF h
    <3>8. stream'[v].heard = h
      BY <3>1 DEF h
    <3> QED BY <2>1, <2>2, <3>1, <3>6, <3>7, <3>8 DEF FollowsSent
  <2>8. CASE Lag(v)
    <3>1. /\ s \in Stream /\ s # Absent
          /\ stream'[v].heard = s.heard /\ ~stream'[v].open /\ stream'[v].from = s.from
      BY <1>0, <2>8, LagHears
    <3> QED BY <1>0, <2>1, <2>2, <3>1 DEF FollowsSent
  <2>9. CASE Break(v)
    <3>1. s \in Stream /\ s # Absent /\ stream'[v] = Cut(s)
      BY <1>0, <2>9 DEF Break, TypeOK
    <3>2. /\ Cut(s) \in Stream /\ ~Cut(s).open /\ Cut(s).from = s.from
          /\ Len(Cut(s).heard) <= Len(s.heard)
          /\ \A n \in 1..Len(Cut(s).heard) : Cut(s).heard[n] = s.heard[n]
      BY <1>0, <3>1, CutType
    <3>3. Cut(s).heard \in Seq(Entry)
      BY <3>2 DEF Stream
    <3> QED BY <1>0, <2>1, <2>2, <3>1, <3>2, <3>3, StillFollows
  <2> QED BY <1>2, <2>3, <2>4, <2>5, <2>6, <2>7, <2>8, <2>9 DEF Viewing, Open, Answer, Load, Fail
<1>3. CASE Crash
  <2>1. ASSUME NEW v \in Viewer, stream'[v] # Absent PROVE FollowsSent(v)'
    <3> DEFINE s == stream[v]
    <3>1. s # Absent /\ stream'[v] = Cut(s) /\ sent' = sent
      BY <1>3, <2>1 DEF Crash
    <3>2. /\ Cut(s) \in Stream /\ ~Cut(s).open /\ Cut(s).from = s.from
          /\ Len(Cut(s).heard) <= Len(s.heard)
          /\ \A n \in 1..Len(Cut(s).heard) : Cut(s).heard[n] = s.heard[n]
      BY <1>0, <3>1, CutType
    <3>3. Cut(s).heard \in Seq(Entry)
      BY <3>2 DEF Stream
    <3> QED BY <1>0, <3>1, <3>2, <3>3, StillFollows
  <2> QED BY <1>0, <2>1 DEF StreamInv
<1>4. CASE Prune \/ Start \/ UNCHANGED vars
  <2>1. UNCHANGED <<stream, sent>>
    BY <1>4 DEF Prune, Start, vars
  <2> QED BY <1>0, <2>1 DEF StreamInv, FollowsSent
<1> QED BY <1>1, <1>2, <1>3, <1>4 DEF Next

(* A websocket carries the entries sent since it was opened in their order  *)
(* and without a gap, whatever the sizes of the channel and the socket.     *)
THEOREM StreamsHaveNoGap == Spec => []StreamIsContiguous
<1>1. Init => StreamInv
  BY InitTyped DEF Init, StreamInv
<1>2. StreamInv => StreamIsContiguous
  BY DEF StreamInv, FollowsSent, StreamIsContiguous
<1> QED BY <1>1, <1>2, StreamStep, PTL DEF Spec

--------------------------------------------------------------------------------
(* What a page with room has lost nothing of: the answer to its fetch and   *)
(* what it took from its socket.                                            *)
HasRoom(v) == Len(page[v].entries) < Limit
KeepsFetched(v) == HasRoom(v) => \A e \in page[v].held : Shown(v, e)
KeepsTaken(v) ==
    stream[v] # Absent =>
        /\ page[v].stage = "open"
        /\ HasRoom(v) => \A n \in 1..stream[v].seen : Shown(v, stream[v].heard[n])

PageInv ==
    /\ StreamInv
    /\ \A v \in Viewer : page[v].stage \in {"answered", "loaded", "open"} => KeepsFetched(v)
    /\ \A v \in Viewer : KeepsTaken(v)

(* An answer with room to spare is the whole table. *)
LEMMA AnswerIsComplete ==
    ASSUME TypeOK, NEW n \in Nat, n < Limit, NEW answer \in [1..n -> Stored], IsRecent(answer),
           NEW e \in Stored
    PROVE  \E k \in 1..Len(answer) : answer[k] = e
<1> DEFINE listed == {answer[k].id : k \in 1..Len(answer)}
<1>1. Len(answer) = n
  BY AnswerType
<1>2. e.id \in Ids /\ e = [id |-> e.id, of |-> table[e.id].of]
  BY DEF Stored
<1>3. e.id \in listed
  BY <1>1, <1>2 DEF IsRecent
<1>4. PICK k \in 1..Len(answer) : answer[k].id = e.id
  BY <1>3
<1>5. answer[k] \in Stored
  BY <1>1, <1>4
<1>6. answer[k] = [id |-> e.id, of |-> table[e.id].of]
  BY <1>4, <1>5 DEF Stored
<1> QED BY <1>2, <1>4, <1>6

(* A page that has room after an entry came has dropped nothing for it. *)
LEMMA RoomDropsNothing ==
    ASSUME NEW e \in Entry, NEW entries \in Seq(Entry), Len(FirstOf(<<e>> \o entries)) < Limit
    PROVE  LET all == FirstOf(<<e>> \o entries)
           IN  /\ Len(all) = Len(entries) + 1 /\ Len(entries) < Limit
               /\ all[1] = e /\ \A k \in 1..Len(entries) : all[k + 1] = entries[k]
<1> DEFINE all == <<e>> \o entries
<1>1. <<e>> \in Seq(Entry) /\ Len(<<e>>) = 1 /\ <<e>>[1] = e /\ Len(entries) \in Nat
  OBVIOUS
<1>2. /\ all \in Seq(Entry) /\ Len(all) = 1 + Len(entries)
      /\ \A n \in 1..Len(all) : all[n] = IF n <= 1 THEN <<e>>[n] ELSE entries[n - 1]
  BY <1>1, ConcatProperties
<1> HIDE DEF all
<1>3. ~(Len(all) > Limit)
  <2> SUFFICES ASSUME Len(all) > Limit PROVE FALSE
    OBVIOUS
  <2>1. \A i \in 1..Limit : all[i] \in Entry /\ i \in 1..Len(all)
    BY <1>2
  <2>2. Len(SubSeq(all, 1, Limit)) = Limit
    BY <2>1, SubSeqProperties
  <2> QED BY <2>2 DEF FirstOf, all
<1>4. FirstOf(all) = all
  BY <1>3 DEF FirstOf
<1> QED BY <1>1, <1>2, <1>4 DEF all

(* Steps that leave a page as it is. *)
LEMMA PageStays ==
    ASSUME PageInv, StreamInv', NEW v \in Viewer,
           page'[v].entries = page[v].entries, page'[v].held = page[v].held
    PROVE  /\ KeepsFetched(v) => KeepsFetched(v)'
           /\ \A e : Shown(v, e)' <=> Shown(v, e)
           /\ HasRoom(v)' <=> HasRoom(v)
BY DEF KeepsFetched, Shown, HasRoom

LEMMA StreamStays ==
    ASSUME PageInv, StreamInv', NEW v \in Viewer, page'[v] = page[v], stream'[v] # Absent,
           stream[v] # Absent, stream'[v].seen = stream[v].seen,
           \A n \in 1..stream[v].seen : stream'[v].heard[n] = stream[v].heard[n]
    PROVE  KeepsTaken(v)'
BY DEF PageInv, KeepsTaken, Shown, HasRoom

LEMMA CutStays ==
    ASSUME PageInv, StreamInv', NEW v \in Viewer, page'[v] = page[v],
           stream[v] # Absent, stream'[v] = Cut(stream[v])
    PROVE  KeepsTaken(v)'
<1>1. /\ stream[v] \in Stream /\ stream[v].seen <= Len(stream[v].heard)
      /\ stream[v].seen \in Nat
  BY DEF PageInv, StreamInv, TypeOK, Stream
<1>2. /\ Cut(stream[v]) \in Stream /\ Cut(stream[v]).seen = stream[v].seen
      /\ Cut(stream[v]).seen = Len(Cut(stream[v]).heard)
      /\ \A n \in 1..Len(Cut(stream[v]).heard) : Cut(stream[v]).heard[n] = stream[v].heard[n]
  BY <1>1, CutType
<1>3. stream'[v] # Absent
  BY <1>2
<1> QED BY <1>2, <1>3, StreamStays

LEMMA ShowKeepsPage ==
    ASSUME PageInv, StreamInv', NEW v \in Viewer, Show(v)
    PROVE  /\ page'[v].stage = page[v].stage
           /\ KeepsFetched(v) => KeepsFetched(v)'
           /\ KeepsTaken(v)'
<1> DEFINE s == stream[v]
           e == s.heard[s.seen + 1]
           all == FirstOf(<<e>> \o page[v].entries)
<1>1. /\ s \in Stream /\ s.heard \in Seq(Entry) /\ s.seen \in Nat /\ s.seen < Len(s.heard)
      /\ page[v] \in Page /\ page[v].entries \in Seq(Entry) /\ s # Absent
      /\ stream'[v] \in Stream /\ stream'[v].heard = s.heard /\ stream'[v].seen = s.seen + 1
  BY ShowHears DEF PageInv, StreamInv, TypeOK, Stream, Page
<1>2. e \in Entry
  BY <1>1
<1>3. [page[v] EXCEPT !.entries = all]
        = [stage |-> page[v].stage, entries |-> all, held |-> page[v].held]
  BY <1>1, ChangedPage
<1>4. /\ page'[v].entries = all /\ page'[v].stage = page[v].stage /\ page'[v].held = page[v].held
  BY <1>3 DEF Show, PageInv, StreamInv, TypeOK
<1> HIDE DEF all
<1>5. ASSUME HasRoom(v)' PROVE HasRoom(v) /\ \A x : x = e \/ Shown(v, x) => Shown(v, x)'
  <2>1. Len(all) < Limit
    BY <1>4, <1>5 DEF HasRoom
  <2>2. /\ Len(all) = Len(page[v].entries) + 1 /\ Len(page[v].entries) < Limit
        /\ all[1] = e /\ \A k \in 1..Len(page[v].entries) : all[k + 1] = page[v].entries[k]
    <3> HIDE DEF e
    <3> QED BY <1>1, <1>2, <2>1, RoomDropsNothing DEF all
  <2>3. Len(page[v].entries) \in Nat
    BY <1>1
  <2>4. ASSUME NEW x, x = e PROVE Shown(v, x)'
    <3>1. 1 \in 1..Len(page'[v].entries) /\ page'[v].entries[1] = e
      BY <1>4, <2>2, <2>3
    <3> QED BY <2>4, <3>1 DEF Shown
  <2>5. ASSUME NEW x, Shown(v, x) PROVE Shown(v, x)'
    <3>1. PICK k \in 1..Len(page[v].entries) : page[v].entries[k] = x
      BY <2>5 DEF Shown
    <3>2. k + 1 \in 1..Len(page'[v].entries) /\ page'[v].entries[k + 1] = x
      BY <1>4, <2>2, <2>3, <3>1
    <3> QED BY <3>2 DEF Shown
  <2> QED BY <2>2, <2>4, <2>5 DEF HasRoom
<1>6. KeepsFetched(v) => KeepsFetched(v)'
  BY <1>4, <1>5 DEF KeepsFetched
<1>7. ASSUME HasRoom(v)', NEW n \in 1..stream'[v].seen PROVE Shown(v, stream[v].heard[n])'
  <2>1. HasRoom(v) /\ \A m \in 1..s.seen : Shown(v, s.heard[m])
    BY <1>1, <1>5, <1>7 DEF PageInv, KeepsTaken
  <2>2. n = s.seen + 1 \/ n \in 1..s.seen
    BY <1>1, <1>7
  <2>3. ASSUME NEW x, x = s.heard[n] PROVE Shown(v, x)'
    <3>1. x = e \/ Shown(v, x)
      BY <2>1, <2>2, <2>3
    <3> HIDE DEF e
    <3> QED BY <1>5, <1>7, <3>1
  <2>4. stream'[v].heard[n] = s.heard[n]
    BY <1>1
  <2> QED BY <2>3, <2>4 DEF Shown
<1>8. page[v].stage = "open"
  BY <1>1 DEF PageInv, KeepsTaken
<1>9. KeepsTaken(v)'
  BY <1>4, <1>7, <1>8 DEF KeepsTaken
<1> QED BY <1>4, <1>6, <1>9

LEMMA ViewingKeepsPages ==
    ASSUME PageInv, StreamInv', NEW v \in Viewer, Viewing(v)
    PROVE  /\ page'[v].stage \in {"answered", "loaded", "open"} => KeepsFetched(v)'
           /\ KeepsTaken(v)'
           /\ \A w \in Viewer \ {v} : page'[w] = page[w] /\ stream'[w] = stream[w]
<1>0. /\ TypeOK /\ page[v] \in Page
      /\ stream[v] # Absent => stream[v] \in Stream
      /\ page \in [Viewer -> Page] /\ stream \in [Viewer -> Stream \cup {Absent}]
      /\ stream[v] # Absent => page[v].stage = "open" /\ KeepsFetched(v)
  BY DEF PageInv, StreamInv, TypeOK, KeepsTaken
<1>1. \A w \in Viewer \ {v} : page'[w] = page[w] /\ stream'[w] = stream[w]
  BY <1>0 DEF Viewing, Open, Answer, Load, Fail, Subscribe, Show, Leave, Receive, Lag, Break, GoTo
<1>2. CASE Open(v)
  <2>1. page'[v].stage = "asked" /\ stream'[v] = Absent
    BY <1>0, <1>2 DEF Open, GoTo
  <2> QED BY <1>1, <2>1 DEF KeepsTaken
<1>3. CASE Answer(v)
  <2>0. PICK n \in 0..Limit : \E a \in [1..n -> Stored] :
          /\ IsRecent(a)
          /\ page' = [page EXCEPT ![v] = [stage |-> "answered", entries |-> a, held |-> Stored]]
    BY <1>3 DEF Answer
  <2>1. PICK answer \in [1..n -> Stored] :
          /\ IsRecent(answer)
          /\ page' = [page EXCEPT ![v] = [stage |-> "answered", entries |-> answer, held |-> Stored]]
    BY <2>0
  <2>2. page'[v].entries = answer /\ page'[v].held = Stored /\ stream'[v] = Absent
    BY <1>0, <1>3, <2>1 DEF Answer
  <2>3. Len(answer) = n
    BY AnswerType
  <2>4. n < Limit => \A x \in Stored : \E k \in 1..Len(answer) : answer[k] = x
    BY <1>0, <2>1, AnswerIsComplete
  <2>5. KeepsFetched(v)'
    BY <2>2, <2>3, <2>4 DEF KeepsFetched, HasRoom, Shown
  <2> QED BY <1>1, <2>2, <2>5 DEF KeepsTaken
<1>4. CASE Load(v)
  <2>1. /\ page'[v].entries = page[v].entries /\ page'[v].held = page[v].held /\ stream'[v] = Absent
        /\ KeepsFetched(v)
    BY <1>0, <1>4, GoToType DEF Load, PageInv
  <2> QED BY <1>1, <2>1, PageStays DEF KeepsTaken
<1>5. CASE Fail(v)
  <2>1. page'[v].stage = "failed"
    <3>1. CASE GoTo(v, "failed")
      BY <1>0, <3>1 DEF GoTo, Page
    <3>2. CASE page' = [page EXCEPT ![v] = Blank("failed")]
      BY <1>0, <3>2 DEF Blank
    <3> QED BY <1>5, <3>1, <3>2 DEF Fail
  <2>2. stream'[v] = Absent
    BY <1>0, <1>5 DEF Fail
  <2> QED BY <1>1, <2>1, <2>2 DEF KeepsTaken
<1>6. CASE Subscribe(v)
  <2>1. /\ page'[v].entries = page[v].entries /\ page'[v].held = page[v].held
        /\ page'[v].stage = "open" /\ stream'[v].seen = 0 /\ KeepsFetched(v)
    BY <1>0, <1>6, GoToType DEF Subscribe, GoTo, PageInv
  <2>2. KeepsTaken(v)'
    BY <2>1 DEF KeepsTaken
  <2> QED BY <1>1, <2>1, <2>2, PageStays
<1>7. CASE Show(v)
  <2>1. page'[v].stage \in {"answered", "loaded", "open"} => KeepsFetched(v)
    BY <1>0, <1>7, ShowKeepsPage DEF PageInv
  <2> QED BY <1>1, <1>7, <2>1, ShowKeepsPage
<1>8. CASE Leave(v)
  <2>1. page'[v].stage = "away" /\ stream'[v] = Absent
    BY <1>0, <1>8 DEF Leave, Blank
  <2> QED BY <1>1, <2>1 DEF KeepsTaken
<1>9. ASSUME page'[v] = page[v], stream[v] # Absent, KeepsTaken(v)'
      PROVE  /\ page'[v].stage \in {"answered", "loaded", "open"} => KeepsFetched(v)'
             /\ KeepsTaken(v)'
  BY <1>0, <1>9, PageStays
<1>10. CASE Receive(v)
  <2>1. page'[v] = page[v] /\ stream[v] # Absent /\ stream'[v] # Absent
    BY <1>10, ReceiveHears, <1>0 DEF Receive, MayReceive
  <2>2. /\ stream[v].heard \in Seq(Entry) /\ stream[v].seen \in Nat
        /\ stream[v].seen <= Len(stream[v].heard)
        /\ sent[stream[v].next] \in Entry
    BY <1>0, <1>10, <2>1, ReceiveHears DEF TypeOK, Stream
  <2>3. /\ stream'[v].seen = stream[v].seen
        /\ \A n \in 1..stream[v].seen : stream'[v].heard[n] = stream[v].heard[n]
    BY <1>0, <1>10, <2>2, ReceiveHears
  <2> QED BY <1>1, <1>9, <2>1, <2>3, StreamStays
<1>11. CASE Lag(v)
  <2>1. /\ page'[v] = page[v] /\ stream[v] # Absent /\ stream'[v] # Absent
        /\ stream'[v].seen = stream[v].seen /\ stream'[v].heard = stream[v].heard
    BY <1>0, <1>11, LagHears DEF Lag, MayReceive
  <2> QED BY <1>1, <1>9, <2>1, StreamStays
<1>12. CASE Break(v)
  <2>1. page'[v] = page[v] /\ stream[v] # Absent /\ stream'[v] = Cut(stream[v])
    BY <1>0, <1>12 DEF Break
  <2> QED BY <1>1, <1>9, <2>1, CutStays
<1> QED BY <1>2, <1>3, <1>4, <1>5, <1>6, <1>7, <1>8, <1>10, <1>11, <1>12 DEF Viewing

LEMMA PageStep == PageInv /\ [Next]_vars => PageInv'
<1> SUFFICES ASSUME PageInv, [Next]_vars PROVE PageInv'
  OBVIOUS
<1>0. StreamInv /\ StreamInv'
  BY StreamStep DEF PageInv
<1>1. ASSUME NEW v \in Viewer, page'[v] = page[v],
             stream'[v] = stream[v] \/ (stream[v] # Absent /\ stream'[v] = Cut(stream[v]))
      PROVE  /\ page'[v].stage \in {"answered", "loaded", "open"} => KeepsFetched(v)'
             /\ KeepsTaken(v)'
  <2>1. page'[v].stage \in {"answered", "loaded", "open"} => KeepsFetched(v)'
    BY <1>0, <1>1, PageStays DEF PageInv
  <2>2. KeepsTaken(v)'
    <3>1. CASE stream'[v] = stream[v]
      BY <1>0, <1>1, <3>1, StreamStays DEF KeepsTaken
    <3>2. CASE stream[v] # Absent /\ stream'[v] = Cut(stream[v])
      BY <1>0, <1>1, <3>2, CutStays
    <3> QED BY <1>1, <3>1, <3>2
  <2> QED BY <2>1, <2>2
<1>2. ASSUME \A v \in Viewer :
               /\ page'[v].stage \in {"answered", "loaded", "open"} => KeepsFetched(v)'
               /\ KeepsTaken(v)'
      PROVE  PageInv'
  BY <1>0, <1>2 DEF PageInv
<1>3. ASSUME NEW r \in Record, Recording(r) PROVE PageInv'
  <2>1. page' = page /\ stream' = stream
    BY <1>3 DEF Recording, Begin, Insert, InsertFails, Send, Drop, InsertLate, RecordLog
  <2> QED BY <1>1, <1>2, <2>1
<1>4. ASSUME NEW v \in Viewer, Viewing(v) PROVE PageInv'
  BY <1>0, <1>1, <1>2, <1>4, ViewingKeepsPages
<1>5. CASE Crash
  <2>1. /\ page' = page
        /\ \A v \in Viewer : stream'[v] = stream[v]
                             \/ (stream[v] # Absent /\ stream'[v] = Cut(stream[v]))
    BY <1>5 DEF Crash
  <2> QED BY <1>1, <1>2, <2>1
<1>6. CASE Prune \/ Start \/ UNCHANGED vars
  <2>1. page' = page /\ stream' = stream
    BY <1>6 DEF Prune, Start, vars
  <2> QED BY <1>1, <1>2, <2>1
<1> QED BY <1>3, <1>4, <1>5, <1>6 DEF Next

LEMMA NothingElseIsMissed == PageInv => OnlyTheGapIsMissed
<1> SUFFICES ASSUME PageInv, NEW v \in Viewer, Live(v), NEW n \in 1..Len(sent), ~Shown(v, sent[n])
             PROVE  n < stream[v].from /\ sent[n] \notin page[v].held
  BY DEF OnlyTheGapIsMissed
<1> DEFINE s == stream[v]
<1>1. /\ s # Absent /\ s.open /\ ~(s.next <= Len(sent)) /\ ~(s.seen < Len(s.heard)) /\ HasRoom(v)
  BY DEF Live, Behind, HasRoom
<1>2. page[v].stage = "open" /\ \A m \in 1..s.seen : Shown(v, s.heard[m])
  BY <1>1 DEF PageInv, KeepsTaken
<1>3. sent[n] \notin page[v].held
  BY <1>1, <1>2 DEF PageInv, KeepsFetched
<1>4. /\ s.heard \in Seq(Entry) /\ s.from \in Nat \ {0} /\ s.next \in Nat /\ s.seen \in Nat
      /\ Len(s.heard) \in Nat /\ Len(sent) \in Nat
      /\ s.next = s.from + Len(s.heard)
      /\ \A m \in 1..Len(s.heard) : s.heard[m] = sent[s.from + m - 1]
  BY <1>1 DEF PageInv, StreamInv, FollowsSent, TypeOK, Stream, Id
<1>5. n < s.from
  <2> SUFFICES ASSUME ~(n < s.from) PROVE FALSE
    OBVIOUS
  <2> DEFINE m == n - s.from + 1
  <2>0. n \in 1..Len(sent)
    OBVIOUS
  <2> HIDE DEF s
  <2>1. m \in 1..Len(s.heard) /\ m \in 1..s.seen /\ s.from + m - 1 = n
    BY <1>1, <1>4, <2>0
  <2> HIDE DEF m
  <2>2. s.heard[m] = sent[n]
    BY <1>4, <2>1
  <2> QED BY <1>2, <2>1, <2>2
<1> QED BY <1>3, <1>5

(* A live page lacks only what was recorded between its fetch and its       *)
(* subscription, whatever the sizes of the answer, the page, the channel    *)
(* and the socket.                                                          *)
THEOREM LivePagesMissOnlyTheGap == Spec => []OnlyTheGapIsMissed
<1>1. Init => PageInv
  <2> SUFFICES ASSUME Init PROVE PageInv
    OBVIOUS
  <2>1. StreamInv
    BY InitTyped DEF Init, StreamInv
  <2>2. \A v \in Viewer : stream[v] = Absent /\ page[v].stage = "away"
    BY DEF Init, Blank
  <2> QED BY <2>1, <2>2 DEF PageInv, KeepsTaken
<1> QED BY <1>1, PageStep, NothingElseIsMissed, PTL DEF Spec

--------------------------------------------------------------------------------
(* Only the call of a record sends it, once; what is ahead of a call has    *)
(* returned.                                                                *)
OrderInv ==
    /\ TypeOK
    /\ \A r \in Record : At(r, "send") => call[r].entry.of = r
    /\ \A n \in 1..Len(sent) : At(sent[n].of, "returned")
    /\ \A r \in Record : \A q \in ahead[r] : At(q, "returned")
    /\ SentInOrder

LEMMA OrderStep == OrderInv /\ [Next]_vars => OrderInv'
<1> SUFFICES ASSUME OrderInv, [Next]_vars PROVE OrderInv'
  OBVIOUS
<1>0. /\ TypeOK /\ TypeOK' /\ call \in [Record -> Call] /\ sent \in Seq(Entry)
      /\ ahead \in [Record -> SUBSET Record]
  BY TypeStep DEF OrderInv, TypeOK
<1>a. ASSUME NEW n \in 1..Len(sent) PROVE sent[n].of \in Record
  <2>1. sent[n] \in Entry
    BY <1>0
  <2> QED BY <2>1 DEF Entry
<1>1. ASSUME UNCHANGED <<sent, ahead>>,
             \A r \in Record : At(r, "returned") => At(r, "returned")',
             \A r \in Record : At(r, "send")' => call'[r].entry.of = r
      PROVE  OrderInv'
  <2>1. \A n \in 1..Len(sent') : At(sent[n].of, "returned")'
    BY <1>0, <1>1, <1>a DEF OrderInv, At
  <2>2. \A r \in Record : \A q \in ahead'[r] : At(q, "returned")'
    BY <1>0, <1>1 DEF OrderInv
  <2>3. SentInOrder'
    BY <1>1 DEF OrderInv, SentInOrder
  <2> QED BY <1>0, <1>1, <2>1, <2>2, <2>3 DEF OrderInv
<1>2. ASSUME NEW r \in Record, Recording(r) PROVE OrderInv'
  <2>1. CASE Begin(r)
    <3>1. /\ sent' = sent /\ At(r, "idle")
          /\ ahead'[r] = {q \in Record : At(q, "returned")}
          /\ \A q \in Record \ {r} : ahead'[q] = ahead[q]
          /\ \A q \in Record \ {r} : call'[q] = call[q]
          /\ ~At(r, "send")' /\ ~At(r, "returned")
      BY <1>0, <2>1 DEF Begin, Move, At, Returned
    <3>2. \A q \in Record : At(q, "returned") => At(q, "returned")'
      BY <3>1 DEF At
    <3>3. \A q \in Record : At(q, "send")' => call'[q].entry.of = q
      BY <3>1 DEF At, OrderInv
    <3>4. \A n \in 1..Len(sent') : At(sent[n].of, "returned")' /\ sent[n].of # r
      BY <1>0, <1>a, <3>1, <3>2 DEF OrderInv, At
    <3>5. \A q \in Record : \A p \in ahead'[q] : At(p, "returned")'
      BY <1>0, <3>1, <3>2 DEF OrderInv
    <3>6. SentInOrder'
      BY <1>0, <1>a, <3>1, <3>4 DEF OrderInv, SentInOrder
    <3> QED BY <1>0, <3>3, <3>4, <3>5, <3>6 DEF OrderInv
  <2>2. CASE Insert(r)
    <3>1. PICK id \in 1..(Len(written) + 1) :
            call' = [call EXCEPT ![r] = [stage |-> "send", entry |-> [id |-> id, of |-> r]]]
      BY <2>2 DEF Insert
    <3> QED BY <1>0, <1>1, <2>2, <3>1 DEF Insert, At, OrderInv
  <2>3. CASE Send(r)
    <3> DEFINE e == call[r].entry
    <3>1. /\ e \in Entry /\ e.of = r /\ ~At(r, "returned")
          /\ sent' = Append(sent, e) /\ ahead' = ahead
          /\ \A q \in Record \ {r} : call'[q] = call[q]
          /\ At(r, "returned")'
      BY <1>0, <2>3 DEF Send, Move, At, OrderInv, Call
    <3>2. \A q \in Record : At(q, "returned") => At(q, "returned")'
      BY <3>1 DEF At
    <3>3. \A q \in Record : At(q, "send")' => call'[q].entry.of = q
      BY <3>1 DEF At, OrderInv
    <3> HIDE DEF e
    <3>4. /\ Len(sent') = Len(sent) + 1 /\ Len(sent) \in Nat /\ sent'[Len(sent) + 1] = e
          /\ \A n \in 1..Len(sent) : sent'[n] = sent[n]
      BY <1>0, <3>1
    <3>5. ASSUME NEW n \in 1..Len(sent') PROVE At(sent[n].of, "returned")'
      <4>1. CASE n = Len(sent) + 1
        BY <3>1, <3>4, <4>1 DEF At
      <4>2. CASE n \in 1..Len(sent)
        <5>1. sent'[n] = sent[n] /\ sent[n].of \in Record /\ At(sent[n].of, "returned")
          BY <1>a, <3>4, <4>2 DEF OrderInv
        <5> QED BY <3>2, <5>1 DEF At
      <4> QED BY <3>4, <4>1, <4>2
    <3>6. \A q \in Record : r \notin ahead[q]
      BY <3>1 DEF OrderInv
    <3>7. ASSUME NEW m \in 1..Len(sent'), NEW n \in 1..Len(sent'), m < n
          PROVE  sent'[n].of \notin ahead'[sent'[m].of]
      <4>1. m \in 1..Len(sent) /\ sent'[m] = sent[m] /\ sent[m].of \in Record
        BY <1>a, <3>4, <3>7
      <4>2. CASE n = Len(sent) + 1
        BY <3>1, <3>4, <3>6, <4>1, <4>2
      <4>3. CASE n \in 1..Len(sent)
        BY <3>1, <3>4, <3>7, <4>1, <4>3 DEF OrderInv, SentInOrder
      <4> QED BY <3>4, <4>2, <4>3
    <3>8. SentInOrder'
      BY <3>7 DEF SentInOrder
    <3>9. \A q \in Record : \A p \in ahead'[q] : At(p, "returned")'
      BY <1>0, <3>1, <3>2 DEF OrderInv
    <3> QED BY <1>0, <3>3, <3>5, <3>8, <3>9 DEF OrderInv
  <2>4. CASE InsertFails(r) \/ Drop(r) \/ InsertLate(r) \/ RecordLog(r)
    <3>1. /\ UNCHANGED <<sent, ahead>> /\ ~At(r, "returned")
          /\ \E stage \in {"returned", "orphan", "lost"} : call' = [call EXCEPT ![r] = [stage |-> stage]]
      BY <2>4 DEF InsertFails, Drop, InsertLate, RecordLog, Move, At
    <3> QED BY <1>0, <1>1, <3>1 DEF At, OrderInv
  <2> QED BY <1>2, <2>1, <2>2, <2>3, <2>4 DEF Recording
<1>3. CASE Crash
  BY <1>0, <1>1, <1>3 DEF Crash, At, OrderInv
<1>4. CASE Prune \/ Start \/ UNCHANGED vars \/ \E v \in Viewer : Viewing(v)
  <2>1. UNCHANGED <<sent, ahead, call>>
    BY <1>4 DEF Prune, Start, vars, Viewing, Open, Answer, Load, Fail, Subscribe, Show, Leave,
                Receive, Lag, Break
  <2> QED BY <1>1, <2>1 DEF At, OrderInv
<1> QED BY <1>2, <1>3, <1>4 DEF Next

(* An entry is never sent behind one whose call began after its own had     *)
(* returned, however many requests record at once.                          *)
THEOREM EntriesAreSentInOrder == Spec => []SentInOrder
<1>1. Init => OrderInv
  BY InitTyped DEF Init, OrderInv, SentInOrder, At
<1>2. OrderInv => SentInOrder
  BY DEF OrderInv
<1> QED BY <1>1, <1>2, OrderStep, PTL DEF Spec

--------------------------------------------------------------------------------
(* Of the pruned rows one is the newest, and all above it stay. *)
LEMMA NewestPruned ==
    ASSUME IdInv, NEW id \in Ids, Pruned(id)
    PROVE  \E m \in Ids : /\ Pruned(m) /\ id <= m
                          /\ \A i \in Ids : i > m => ~Pruned(i)
<1> DEFINE top == Len(written)
           below == {top - i : i \in {j \in Ids : Pruned(j)}}
           less == OpToRel(<, Nat)
<1>1. top \in Nat
  BY DEF IdInv, TypeOK
<1>2. \A i \in Ids : i \in Nat /\ top - i \in Nat
  <2> SUFFICES ASSUME NEW i \in Ids PROVE i \in Nat /\ top - i \in Nat
    OBVIOUS
  <2>1. i \in 1..top
    BY DEF IdInv
  <2> HIDE DEF top
  <2> QED BY <1>1, <2>1
<1>3. below \subseteq Nat /\ below # {}
  BY <1>2
<1>4. PICK k \in below : \A n \in below : <<n, k>> \notin less
  <2> HIDE DEF below, less
  <2>1. IsWellFoundedOn(less, Nat)
    BY NatLessThanWellFounded DEF less
  <2> QED BY <1>3, <2>1, WFMin
<1>5. PICK m \in Ids : Pruned(m) /\ k = top - m
  BY <1>4
<1>6. ASSUME NEW i \in Ids, Pruned(i) PROVE i <= m
  <2>1. top - i \in below /\ top - i \in Nat /\ top - m \in Nat /\ i \in Nat /\ m \in Nat
    BY <1>2, <1>5, <1>6
  <2>2. ~(top - i < top - m)
    <3> HIDE DEF top
    <3> QED BY <1>4, <1>5, <2>1 DEF OpToRel
  <2> HIDE DEF top
  <2> QED BY <1>1, <2>1, <2>2
<1>7. \A i \in Ids : i > m => ~Pruned(i)
  BY <1>2, <1>6
<1> QED BY <1>5, <1>6, <1>7

(* Pruning keeps the Keep newest rows, whatever was pruned before.          *)
THEOREM PruningKeepsTheNewest == Spec => PruneKeepsNewest
<1> DEFINE Kept == \A id \in Ids \ Ids' : Cardinality({i \in Ids' : i > id}) >= Keep
<1>1. IdInv /\ [Next]_vars => [Kept]_vars
  <2> SUFFICES ASSUME IdInv, [Next]_vars, NEW id \in Ids \ Ids'
               PROVE  Cardinality({i \in Ids' : i > id}) >= Keep
    OBVIOUS
  <2>1. CASE Prune
    <3>1. Ids' = {i \in Ids : ~Pruned(i)}
      BY <2>1 DEF Prune, Ids
    <3>2. PICK m \in Ids : Pruned(m) /\ id <= m /\ \A i \in Ids : i > m => ~Pruned(i)
      BY <3>1, NewestPruned
    <3> DEFINE newer == {i \in Ids' : i > id}
    <3>3. \A i \in Ids : i \in 1..Len(written) /\ Len(written) \in Nat
      BY DEF IdInv, TypeOK
    <3>4. newer \subseteq 1..Len(written) /\ Above(m) \subseteq newer
      BY <3>1, <3>2, <3>3 DEF Above
    <3>5. IsFiniteSet(newer)
      <4>1. IsFiniteSet(1..Len(written))
        BY <3>3, FS_Interval
      <4> HIDE DEF newer
      <4> QED BY <3>4, <4>1, FS_Subset
    <3>6. /\ Cardinality(newer) \in Nat /\ Cardinality(Above(m)) \in Nat
          /\ Cardinality(Above(m)) <= Cardinality(newer)
      BY <3>4, <3>5, FS_Subset, FS_CardinalityType
    <3> QED BY <3>2, <3>6 DEF Pruned
  <2>2. CASE ~Prune
    <3>1. Ids \subseteq Ids'
      <4>1. ASSUME NEW r \in Record, Recording(r) PROVE Ids \subseteq Ids'
        BY <4>1 DEF Recording, Begin, Insert, InsertFails, Send, Drop, InsertLate, RecordLog,
                    StoreRow, Ids
      <4>2. ASSUME NEW v \in Viewer, Viewing(v) PROVE Ids \subseteq Ids'
        BY <4>2 DEF Viewing, Open, Answer, Load, Fail, Subscribe, Show, Leave, Receive, Lag,
                    Break, Ids
      <4>3. CASE Crash \/ Start \/ UNCHANGED vars
        BY <4>3 DEF Crash, Start, vars, Ids
      <4> QED BY <2>2, <4>1, <4>2, <4>3 DEF Next
    <3> QED BY <3>1
  <2> QED BY <2>1, <2>2
<1>2. Init => IdInv
  BY InitIds
<1> QED BY <1>1, <1>2, IdStep, PTL DEF Spec, PruneKeepsNewest
================================================================================
