----------------------------- MODULE NyxProofs -----------------------------
(***************************************************************************)
(* The proofs about the snapshot managers: the inductive invariant of Nyx  *)
(* and that every step keeps it, for any managers, callers and snapshots.  *)
(* ServicesProofs applies them to the system that Nyx is part of.          *)
(***************************************************************************)
EXTENDS Nyx, TLAPS

(* A part of snapshot i is in the store, or its deletion has begun. *)
Stored(i, p) == <<i, p>> \in store \/ i \in deleted

(* A file of snapshot i on m is whole, but for the cases excepted. *)
Whole(m, i, p) == files[m][i][p] = "whole" \/ <<m, i>> \in torn \/ i \in deleted

Puts == {"put_mem", "put_disk", "put_json"}
Fills == {"copy_mem", "copy_disk", "copy_json", "get_mem", "get_disk", "get_json"}
Erasures == {"erase_mem", "erase_disk", "erase_json", "remove"}
Questions == {"enter", "join", "share", "again", "look"}
Works == Puts \cup Fills \cup Erasures \cup Questions
           \cup {"build", "point", "add", "drop", "unpoint", "clear"}
Item == [act : Works, id : Nat]
NyxOps == {"get", "prepare", "save", "delete", "invalidate"}

(* Before item k of the list todo comes one of acts for part p of i. *)
Earlier(todo, k, acts, i, p) ==
  \E j \in 1..(k - 1) : todo[j].act \in acts /\ todo[j].id = i /\ PartOf(todo[j].act) = p

(* What c may rely on when it comes to item k: what is erased is being     *)
(* deleted; the pointer comes after the parts, and the answer after the    *)
(* files, that are still to be written.                                    *)
ItemOK(S, c, k) ==
  LET q == nyxCall[c]
      a == q.todo[k]
  IN  /\ a.act \in Erasures => a.id \in deleted \cup {0}
      /\ a.act \in Puts \cup Fills \cup {"point", "add"} => a.id \in S
      /\ a.act = "point" => \A p \in Part : Stored(a.id, p) \/ Earlier(q.todo, k, Puts, a.id, p)
      /\ a.act = "add" => /\ a.id = q.id
                          /\ \A p \in {"mem", "disk"} :
                               Whole(q.m, a.id, p) \/ Earlier(q.todo, k, Fills, a.id, p)
      /\ a.act \in {"remove", "clear"} => q.op # "get"

IsCall(q) ==
  q = [op |-> q.op, m |-> q.m, todo |-> q.todo, id |-> q.id, known |-> q.known, res |-> q.res]

CallOK(S, c) ==
  /\ IsCall(nyxCall[c]) /\ nyxCall[c].known \in BOOLEAN
  /\ nyxCall[c].todo \in Seq(Item) /\ nyxCall[c].id \in Nat
  /\ nyxCall[c].todo # <<>> => nyxCall[c].m \in Managers /\ nyxCall[c].op \in NyxOps /\ nyxCall[c].res = "none"
  /\ \A k \in 1..Len(nyxCall[c].todo) : ItemOK(S, c, k)

NyxShape == nyxCall = [c \in Callers |-> nyxCall[c]]

CallsOK(S) == NyxShape /\ \A c \in Callers : CallOK(S, c)

(* What the managers and the store hold. *)
FilesOK(S) ==
  /\ files \in [Managers -> [S -> [Part -> {"none", "torn", "whole"}]]]
  /\ \A m \in Managers, i \in S, p \in Part : files[m][i][p] # "none" => Whole(m, i, p)

PointerOK(S) == latest \in S \cup {0} /\ (latest # 0 => \A p \in Part : Stored(latest, p))

Entry(S) == [path : S, known : BOOLEAN]

CacheOK(S) ==
  /\ byTemplate \in [Managers -> Seq(Entry(S))]
  /\ \A m \in Managers : \A k \in 1..Len(byTemplate[m]) :
       \A p \in {"mem", "disk"} : Whole(m, byTemplate[m][k].path, p)

Data(S) == made \in Nat /\ FilesOK(S) /\ PointerOK(S) /\ CacheOK(S)

NyxInv(S) == Data(S) /\ CallsOK(S)

(* Every answered GetSnapshot has whole files. *)
ServedWhole ==
  \A c \in Callers : \A m, i : Served(c) /\ m = nyxCall[c].m /\ i = nyxCall'[c].id =>
    \A p \in {"mem", "disk"} : Whole(m, i, p)'

(* What no step takes back. *)
Preserves(S) ==
  /\ deleted \subseteq deleted'
  /\ \A i \in S, p \in Part : Stored(i, p) => Stored(i, p)'
  /\ \A m \in Managers, i \in S, p \in Part : Whole(m, i, p) => Whole(m, i, p)'

-----------------------------------------------------------------------------
(* Calls.                                                                  *)

LEMMA CallStays ==
  ASSUME NEW S, NEW c, CallOK(S, c), nyxCall'[c] = nyxCall[c], Preserves(S)
  PROVE  CallOK(S, c)'
<1>1. ASSUME NEW k \in 1..Len(nyxCall[c].todo)
      PROVE  ItemOK(S, c, k)'
  <2>1. ItemOK(S, c, k)
    BY DEF CallOK
  <2>2. nyxCall[c].m \in Managers
    BY DEF CallOK
  <2>3. nyxCall[c].todo[k].act = "add" => \A p \in {"mem", "disk"} :
           Whole(nyxCall[c].m, nyxCall[c].todo[k].id, p) => Whole(nyxCall[c].m, nyxCall[c].todo[k].id, p)'
    BY <2>1, <2>2 DEF ItemOK, Preserves, Part
  <2>4. nyxCall[c].todo[k].act = "point" => \A p \in Part :
           Stored(nyxCall[c].todo[k].id, p) => Stored(nyxCall[c].todo[k].id, p)'
    BY <2>1 DEF ItemOK, Preserves
  <2>5. deleted \subseteq deleted'
    BY DEF Preserves
  <2>. QED BY <2>1, <2>3, <2>4, <2>5 DEF ItemOK
<1>. QED BY <1>1 DEF CallOK

(* c has done the first item of its list. *)
LEMMA CallPops ==
  ASSUME NEW S, NEW c, CallOK(S, c), Preserves(S), nyxCall[c].todo # <<>>,
         IsCall(nyxCall'[c]), nyxCall'[c].known \in BOOLEAN,
         nyxCall'[c].op = nyxCall[c].op, nyxCall'[c].m = nyxCall[c].m,
         nyxCall'[c].todo = Tail(nyxCall[c].todo),
         nyxCall'[c].id = nyxCall[c].id, nyxCall'[c].res = nyxCall[c].res,
         NEW a, a = Head(nyxCall[c].todo), NEW m, m = nyxCall[c].m,
         a.act \in Puts => Stored(a.id, PartOf(a.act))',
         a.act \in Fills /\ PartOf(a.act) \in {"mem", "disk"} => Whole(m, a.id, PartOf(a.act))'
  PROVE  CallOK(S, c)'
<1>. DEFINE q == nyxCall[c].todo
            t == nyxCall'[c].todo
<1>0. /\ q \in Seq(Item) /\ nyxCall[c].m \in Managers /\ nyxCall[c].op \in NyxOps
      /\ nyxCall[c].res = "none" /\ nyxCall[c].id \in Nat
      /\ Len(q) \in Nat /\ q[1] = a
  BY DEF CallOK
<1>1. t \in Seq(Item) /\ Len(t) = Len(q) - 1 /\ \A k \in 1..Len(t) : t[k] = q[k + 1]
  BY <1>0
<1>2. ASSUME NEW k \in 1..Len(t)
      PROVE  ItemOK(S, c, k)'
  <2>1. ItemOK(S, c, k + 1) /\ t[k] = q[k + 1]
    BY <1>0, <1>1 DEF CallOK
  <2>2. ASSUME NEW acts, NEW i, NEW p, Earlier(q, k + 1, acts, i, p)
        PROVE  \/ a.act \in acts /\ a.id = i /\ PartOf(a.act) = p
               \/ Earlier(t, k, acts, i, p)
    <3>1. PICK j \in 1..k : q[j].act \in acts /\ q[j].id = i /\ PartOf(q[j].act) = p
      BY <2>2 DEF Earlier
    <3>2. CASE j = 1
      BY <1>0, <3>1, <3>2
    <3>3. CASE j # 1
      <4>1. j - 1 \in 1..(k - 1) /\ t[j - 1] = q[j]
        BY <1>1, <3>3
      <4>. QED BY <3>1, <4>1 DEF Earlier
    <3>. QED BY <3>2, <3>3
  <2>3. ASSUME t[k].act = "add", NEW p \in {"mem", "disk"}
        PROVE  \E i : i = t[k].id /\ (Whole(m, i, p)' \/ Earlier(t, k, Fills, i, p))
    <3>0. PICK i : i = t[k].id
      OBVIOUS
    <3>1. i \in S /\ (Whole(m, i, p) \/ Earlier(q, k + 1, Fills, i, p))
      BY <2>1, <2>3, <3>0, Zenon DEF ItemOK
    <3>2. Whole(m, i, p) => Whole(m, i, p)'
      BY <1>0, <3>1 DEF Preserves, Part
    <3>. QED BY <2>2, <3>0, <3>1, <3>2
  <2>4. ASSUME t[k].act = "point", NEW p \in Part
        PROVE  \E i : i = t[k].id /\ (Stored(i, p)' \/ Earlier(t, k, Puts, i, p))
    <3>0. PICK i : i = t[k].id
      OBVIOUS
    <3>1. i \in S /\ (Stored(i, p) \/ Earlier(q, k + 1, Puts, i, p))
      BY <2>1, <2>4, <3>0 DEF ItemOK
    <3>2. Stored(i, p) => Stored(i, p)'
      BY <3>1 DEF Preserves
    <3>. QED BY <2>2, <3>0, <3>1, <3>2
  <2>5. deleted \subseteq deleted'
    BY DEF Preserves
  <2>. QED BY <2>1, <2>3, <2>4, <2>5, Zenon DEF ItemOK
<1>. QED BY <1>0, <1>1, <1>2 DEF CallOK

(* A call that has ended. *)
LEMMA CallIdle ==
  ASSUME NEW S, NEW c, IsCall(nyxCall'[c]), nyxCall'[c].known \in BOOLEAN,
         nyxCall'[c].todo = <<>>, nyxCall'[c].id \in Nat
  PROVE  CallOK(S, c)'
<1>1. nyxCall'[c].todo \in Seq(Item) /\ Len(nyxCall'[c].todo) = 0 /\ 1..0 = {}
  OBVIOUS
<1>. QED BY <1>1 DEF CallOK

(* A call with one thing to do that writes nothing. *)
LEMMA CallAsks ==
  ASSUME NEW S, NEW c, IsCall(nyxCall'[c]), nyxCall'[c].known \in BOOLEAN,
         nyxCall'[c].id \in Nat, nyxCall'[c].m \in Managers, nyxCall'[c].op \in NyxOps, nyxCall'[c].res = "none",
         NEW act \in Questions, NEW i \in Nat, nyxCall'[c].todo = <<Do(act, i)>>
  PROVE  CallOK(S, c)'
<1>1. Do(act, i) \in Item /\ Do(act, i).act = act
  BY DEF Do, Item, Works
<1>2. /\ nyxCall'[c].todo \in Seq(Item) /\ Len(nyxCall'[c].todo) = 1
      /\ nyxCall'[c].todo[1].act = act
  BY <1>1
<1>3. ItemOK(S, c, 1)'
  BY <1>2 DEF ItemOK, Questions, Puts, Fills, Erasures
<1>. QED BY <1>2, <1>3 DEF CallOK

(* Only c's call changes, and stays right. *)
LEMMA CallsTurn ==
  ASSUME NEW S, CallsOK(S), Preserves(S), NEW c \in Callers, NyxShape', CallOK(S, c)',
         \A d \in Callers : d # c => nyxCall'[d] = nyxCall[d]
  PROVE  CallsOK(S)'
  BY CallStays, Zenon DEF CallsOK

LEMMA CallsStay ==
  ASSUME NEW S, CallsOK(S), Preserves(S), nyxCall' = nyxCall
  PROVE  CallsOK(S)' /\ ServedWhole
<1>1. NyxShape' /\ \A d \in Callers : nyxCall'[d] = nyxCall[d]
  BY DEF CallsOK, NyxShape
<1>. QED BY <1>1, CallStays, Zenon DEF CallsOK, ServedWhole, Served

(* c's call goes on, or ends with an error: nobody is served. *)
LEMMA NobodyServed ==
  ASSUME NEW c \in Callers, \A d \in Callers : d # c => nyxCall'[d] = nyxCall[d],
         nyxCall'[c].todo # <<>> \/ nyxCall'[c].res # "ok"
  PROVE  ServedWhole
  BY Zenon DEF ServedWhole, Served

-----------------------------------------------------------------------------
(* The ways a call changes.                                                *)

LEMMA AnsweredIs ==
  ASSUME NEW res, NEW i
  PROVE  /\ IsCall(Answered(res, i)) /\ Answered(res, i).todo = <<>> /\ Answered(res, i).id = i
         /\ Answered(res, i).known \in BOOLEAN /\ Answered(res, i).res = res
  BY DEF IsCall, Answered

LEMMA TodoIs ==
  ASSUME NEW q, IsCall(q), NEW t, NEW d, d = [q EXCEPT !.todo = t]
  PROVE  /\ IsCall(d) /\ d.op = q.op /\ d.m = q.m /\ d.todo = t
         /\ d.id = q.id /\ d.known = q.known /\ d.res = q.res
  BY DEF IsCall

LEMMA IdIs ==
  ASSUME NEW q, IsCall(q), NEW i, NEW d, d = [q EXCEPT !.id = i]
  PROVE  /\ IsCall(d) /\ d.op = q.op /\ d.m = q.m /\ d.todo = q.todo
         /\ d.id = i /\ d.known = q.known /\ d.res = q.res
  BY DEF IsCall

LEMMA KnownIs ==
  ASSUME NEW q, IsCall(q), NEW k, NEW d, d = [q EXCEPT !.known = k]
  PROVE  /\ IsCall(d) /\ d.op = q.op /\ d.m = q.m /\ d.todo = q.todo
         /\ d.id = q.id /\ d.known = k /\ d.res = q.res
  BY DEF IsCall

(* c's call ends, with those that share its flight. *)
LEMMA CallReturns ==
  ASSUME NEW S, CallsOK(S), Preserves(S), NEW c \in Callers, NEW m, NEW res, NEW i \in Nat,
         Return(c, m, res, i),
         res = "ok" /\ nyxCall[c].op = "get" =>
           m = nyxCall[c].m /\ \A p \in {"mem", "disk"} : Whole(m, i, p)'
  PROVE  CallsOK(S)' /\ ServedWhole
<1>. DEFINE Ends(d) == d = c \/ (nyxCall[c].op = "get" /\ nyxCall[d].m = m
                                  /\ nyxCall[d].todo = <<Do("share", 0)>>)
<1>1. NyxShape' /\ \A d \in Callers :
        nyxCall'[d] = IF Ends(d) THEN Answered(res, i) ELSE nyxCall[d]
  BY DEF Return, NyxShape
<1>. HIDE DEF Ends
<1>2. ASSUME NEW d \in Callers
      PROVE  CallOK(S, d)'
  <2>1. CASE Ends(d)
    <3>1. nyxCall'[d] = Answered(res, i)
      BY <1>1, <2>1, Zenon
    <3>2. /\ IsCall(nyxCall'[d]) /\ nyxCall'[d].todo = <<>> /\ nyxCall'[d].id = i
          /\ nyxCall'[d].known \in BOOLEAN
      BY <3>1, AnsweredIs
    <3>. QED BY <3>2, CallIdle, Zenon
  <2>2. CASE ~Ends(d)
    BY <1>1, <2>2, CallStays, Zenon DEF CallsOK
  <2>. QED BY <2>1, <2>2, Zenon
<1>3. ASSUME NEW d \in Callers, Served(d), NEW n, n = nyxCall[d].m, NEW j, j = nyxCall'[d].id,
             NEW p \in {"mem", "disk"}
      PROVE  Whole(n, j, p)'
  <2>1. Ends(d)
    BY <1>1, <1>3, Zenon DEF Served
  <2>2. nyxCall'[d].id = i /\ nyxCall'[d].res = res
    <3>1. nyxCall'[d] = Answered(res, i)
      BY <1>1, <2>1, Zenon
    <3>. QED BY <3>1, AnsweredIs
  <2>3. res = "ok" /\ nyxCall[c].op = "get" /\ n = m
    BY <1>3, <2>1, <2>2, Zenon DEF Served, Ends
  <2>. QED BY <1>3, <2>2, <2>3, Zenon
<1>. QED BY <1>1, <1>2, <1>3, Zenon DEF CallsOK, ServedWhole

(* c is done with the first item of its list. *)
LEMMA Goes ==
  ASSUME NEW S, CallsOK(S), Preserves(S), NEW c \in Callers, Done(c), nyxCall[c].todo # <<>>,
         NEW a, a = Head(nyxCall[c].todo), NEW m, m = nyxCall[c].m,
         a.act \in Puts => Stored(a.id, PartOf(a.act))',
         a.act \in Fills /\ PartOf(a.act) \in {"mem", "disk"} => Whole(m, a.id, PartOf(a.act))'
  PROVE  CallsOK(S)' /\ ServedWhole
<1>1. /\ NyxShape' /\ \A d \in Callers : d # c => nyxCall'[d] = nyxCall[d]
      /\ nyxCall'[c] = [nyxCall[c] EXCEPT !.todo = Tail(nyxCall[c].todo)]
  BY Zenon DEF Done, CallsOK, NyxShape
<1>2. CallOK(S, c)
  BY DEF CallsOK
<1>3. PICK q, d, t : q = nyxCall[c] /\ d = nyxCall'[c] /\ t = Tail(q.todo)
  BY Zenon
<1>4. /\ IsCall(d) /\ d.op = q.op /\ d.m = q.m /\ d.todo = t
      /\ d.id = q.id /\ d.known = q.known /\ d.res = q.res
  <2>1. IsCall(q) /\ d = [q EXCEPT !.todo = t]
    BY <1>1, <1>2, <1>3, Zenon DEF CallOK
  <2>. QED BY <2>1, TodoIs
<1>5. CallOK(S, c)'
  <2>1. q.known \in BOOLEAN
    BY <1>2, <1>3, Zenon DEF CallOK
  <2>. QED BY <1>2, <1>3, <1>4, <2>1, CallPops, Zenon
<1>6. nyxCall'[c].res # "ok"
  BY <1>2, <1>3, <1>4 DEF CallOK
<1>. QED BY <1>1, <1>5, <1>6, CallsTurn, NobodyServed, Zenon

(* c does the first item of its list and it fails: its call ends. *)
LEMMA GivesUp ==
  ASSUME NEW S, CallsOK(S), Preserves(S), NEW c \in Callers, NEW m, Gives(c, m)
  PROVE  CallsOK(S)' /\ ServedWhole
<1>1. Return(c, m, "error", 0) /\ 0 \in Nat /\ "error" # "ok"
  BY DEF Gives
<1>. QED BY <1>1, CallReturns, Zenon

-----------------------------------------------------------------------------
(* The lists of things to do.                                              *)

(* A list acts of things to do with one snapshot, of which k comes after   *)
(* what it needs.                                                          *)
InOrder(acts, k) ==
  /\ acts[k] = "point" => \A p \in Part : \E j \in 1..(k - 1) : acts[j] \in Puts /\ PartOf(acts[j]) = p
  /\ acts[k] = "add" => \A p \in {"mem", "disk"} :
                          \E j \in 1..(k - 1) : acts[j] \in Fills /\ PartOf(acts[j]) = p

(* c is at work on snapshot i. *)
Ready(c, i) ==
  /\ IsCall(nyxCall[c]) /\ nyxCall[c].known \in BOOLEAN /\ nyxCall[c].id = i
  /\ nyxCall[c].m \in Managers /\ nyxCall[c].op \in NyxOps /\ nyxCall[c].res = "none"

LEMMA PlanOK ==
  ASSUME NEW S, NEW c, NEW i \in Nat, NEW acts \in Seq(Works),
         Ready(c, i)', nyxCall'[c].todo = Acts(acts, i),
         \A k \in 1..Len(acts) :
           /\ InOrder(acts, k)
           /\ acts[k] \in Erasures => i \in deleted'
           /\ acts[k] \in {"remove", "clear"} => nyxCall'[c].op # "get"
           /\ acts[k] \in Puts \cup Fills \cup {"point", "add"} => i \in S
  PROVE  CallOK(S, c)'
<1>. DEFINE t == nyxCall'[c].todo
<1>1. Len(acts) \in Nat /\ \A k \in 1..Len(acts) : acts[k] \in Works
  OBVIOUS
<1>2. t = [k \in 1..Len(acts) |-> [act |-> acts[k], id |-> i]]
  BY DEF Acts, Do
<1>3. t \in Seq(Item) /\ Len(t) = Len(acts) /\ \A k \in 1..Len(acts) : t[k].act = acts[k] /\ t[k].id = i
  BY <1>1, <1>2 DEF Item
<1>. HIDE DEF t
<1>4. ASSUME NEW k \in 1..Len(acts)
      PROVE  ItemOK(S, c, k)'
  <2>0. t[k].act = acts[k] /\ t[k].id = i /\ t = nyxCall'[c].todo
    BY <1>3 DEF t
  <2>1. \A p \in Part : acts[k] = "point" => Earlier(t, k, Puts, i, p)
    BY <1>1, <1>3 DEF InOrder, Earlier
  <2>2. \A p \in {"mem", "disk"} : acts[k] = "add" => Earlier(t, k, Fills, i, p)
    BY <1>1, <1>3 DEF InOrder, Earlier
  <2>. QED BY <2>0, <2>1, <2>2 DEF ItemOK, Ready
<1>5. t = nyxCall'[c].todo
  BY DEF t
<1>. QED BY <1>3, <1>4, <1>5 DEF CallOK, Ready

PrepareActs == <<"build", "put_mem", "put_disk", "put_json", "point", "copy_mem", "copy_disk", "copy_json", "add">>
SaveActs == <<"put_mem", "put_disk", "copy_mem", "copy_disk", "put_json", "copy_json", "add">>
DeleteActs == <<"drop", "erase_mem", "erase_disk", "erase_json", "remove">>
DownloadActs == <<"get_mem", "get_disk", "get_json", "add">>

LEMMA PrepareOrder ==
  /\ PrepareActs \in Seq(Works)
  /\ \A k \in 1..Len(PrepareActs) : InOrder(PrepareActs, k) /\ PrepareActs[k] \notin Erasures \cup {"clear"}
<1>1. PrepareActs \in Seq(Works) /\ Len(PrepareActs) = 9
  BY DEF PrepareActs, Works, Puts, Fills
<1>2. ASSUME NEW k \in 1..9
      PROVE  InOrder(PrepareActs, k)
  <2>1. /\ PrepareActs[2] = "put_mem" /\ PrepareActs[3] = "put_disk" /\ PrepareActs[4] = "put_json"
        /\ PrepareActs[6] = "copy_mem" /\ PrepareActs[7] = "copy_disk"
    BY DEF PrepareActs
  <2>2. PrepareActs[k] = "point" => k = 5
    BY DEF PrepareActs
  <2>3. PrepareActs[k] = "add" => k = 9
    BY DEF PrepareActs
  <2>4. ASSUME k = 5, NEW p \in Part
        PROVE  \E j \in 1..(k - 1) : PrepareActs[j] \in Puts /\ PartOf(PrepareActs[j]) = p
    BY <2>1, <2>4 DEF Puts, Part, PartOf
  <2>5. ASSUME k = 9, NEW p \in {"mem", "disk"}
        PROVE  \E j \in 1..(k - 1) : PrepareActs[j] \in Fills /\ PartOf(PrepareActs[j]) = p
    BY <2>1, <2>5 DEF Fills, PartOf
  <2>. QED BY <2>2, <2>3, <2>4, <2>5, Zenon DEF InOrder
<1>3. \A k \in 1..9 : PrepareActs[k] \notin Erasures \cup {"clear"}
  BY DEF PrepareActs, Erasures
<1>. QED BY <1>1, <1>2, <1>3, Zenon

LEMMA SaveOrder ==
  /\ SaveActs \in Seq(Works)
  /\ \A k \in 1..Len(SaveActs) : InOrder(SaveActs, k) /\ SaveActs[k] \notin Erasures \cup {"clear"}
<1>1. SaveActs \in Seq(Works) /\ Len(SaveActs) = 7
  BY DEF SaveActs, Works, Puts, Fills
<1>2. ASSUME NEW k \in 1..7
      PROVE  InOrder(SaveActs, k)
  <2>1. SaveActs[3] = "copy_mem" /\ SaveActs[4] = "copy_disk"
    BY DEF SaveActs
  <2>2. SaveActs[k] # "point" /\ (SaveActs[k] = "add" => k = 7)
    BY DEF SaveActs
  <2>3. ASSUME k = 7, NEW p \in {"mem", "disk"}
        PROVE  \E j \in 1..(k - 1) : SaveActs[j] \in Fills /\ PartOf(SaveActs[j]) = p
    BY <2>1, <2>3 DEF Fills, PartOf
  <2>. QED BY <2>2, <2>3, Zenon DEF InOrder
<1>3. \A k \in 1..7 : SaveActs[k] \notin Erasures \cup {"clear"}
  BY DEF SaveActs, Erasures
<1>. QED BY <1>1, <1>2, <1>3, Zenon

LEMMA DownloadOrder ==
  /\ DownloadActs \in Seq(Works)
  /\ \A k \in 1..Len(DownloadActs) : InOrder(DownloadActs, k) /\ DownloadActs[k] \notin Erasures \cup {"clear"}
<1>1. DownloadActs \in Seq(Works) /\ Len(DownloadActs) = 4
  BY DEF DownloadActs, Works, Fills
<1>2. ASSUME NEW k \in 1..4
      PROVE  InOrder(DownloadActs, k)
  <2>1. DownloadActs[1] = "get_mem" /\ DownloadActs[2] = "get_disk"
    BY DEF DownloadActs
  <2>2. DownloadActs[k] # "point" /\ (DownloadActs[k] = "add" => k = 4)
    BY DEF DownloadActs
  <2>3. ASSUME k = 4, NEW p \in {"mem", "disk"}
        PROVE  \E j \in 1..(k - 1) : DownloadActs[j] \in Fills /\ PartOf(DownloadActs[j]) = p
    BY <2>1, <2>3 DEF Fills, PartOf
  <2>. QED BY <2>2, <2>3, Zenon DEF InOrder
<1>3. \A k \in 1..4 : DownloadActs[k] \notin Erasures \cup {"clear"}
  BY DEF DownloadActs, Erasures
<1>. QED BY <1>1, <1>2, <1>3, Zenon

LEMMA DeleteOrder ==
  /\ DeleteActs \in Seq(Works)
  /\ \A k \in 1..Len(DeleteActs) : /\ InOrder(DeleteActs, k)
                                   /\ DeleteActs[k] \notin Puts \cup Fills \cup {"point", "add"}
<1>1. DeleteActs \in Seq(Works) /\ Len(DeleteActs) = 5
  BY DEF DeleteActs, Works, Erasures
<1>2. \A k \in 1..5 : DeleteActs[k] \notin Puts \cup Fills \cup {"point", "add"}
  BY DEF DeleteActs, Puts, Fills
<1>3. \A k \in 1..5 : InOrder(DeleteActs, k)
  BY <1>2, Zenon DEF InOrder
<1>. QED BY <1>1, <1>2, <1>3, Zenon


-----------------------------------------------------------------------------
(* What the managers and the store hold.                                   *)

LEMMA Element ==
  ASSUME NEW X, NEW s \in Seq(X), NEW j \in 1..Len(s)
  PROVE  s[j] \in X
  OBVIOUS

LEMMA Listed ==
  ASSUME NEW X, NEW n \in Nat, NEW t \in [1..n -> X]
  PROVE  t \in Seq(X) /\ Len(t) = n
  OBVIOUS

LEMMA ValuePut ==
  ASSUME NEW D, NEW X, NEW f \in [D -> X], NEW d, NEW x \in X
  PROVE  [f EXCEPT ![d] = x] \in [D -> X]
  BY Zenon

LEMMA NothingTaken ==
  ASSUME NEW S, store \subseteq store', files' = files, torn \subseteq torn', deleted \subseteq deleted'
  PROVE  Preserves(S)
  BY DEF Preserves, Stored, Whole

LEMMA FilesStay ==
  ASSUME NEW S, FilesOK(S), files' = files, torn \subseteq torn', deleted \subseteq deleted'
  PROVE  FilesOK(S)'
  BY DEF FilesOK, Whole

LEMMA PointerStays ==
  ASSUME NEW S, PointerOK(S), latest' = latest, Preserves(S)
  PROVE  PointerOK(S)'
<1>1. ASSUME latest # 0, NEW p \in Part
      PROVE  \E i : i = latest /\ Stored(i, p)'
  <2>1. PICK i : i = latest
    OBVIOUS
  <2>2. i \in S /\ Stored(i, p)
    BY <1>1, <2>1 DEF PointerOK
  <2>. QED BY <2>1, <2>2 DEF Preserves
<1>. QED BY <1>1 DEF PointerOK

(* Snapshots of the cache come from the cache, whose files stay whole. *)
LEMMA CacheKept ==
  ASSUME NEW S, CacheOK(S), Preserves(S), byTemplate' \in [Managers -> Seq(Entry(S))],
         \A m \in Managers : \A k \in 1..Len(byTemplate'[m]) :
           \/ \E j \in 1..Len(byTemplate[m]) : byTemplate'[m][k] = byTemplate[m][j]
           \/ \E i : i = byTemplate'[m][k].path /\ \A p \in {"mem", "disk"} : Whole(m, i, p)'
  PROVE  CacheOK(S)'
<1>1. ASSUME NEW m \in Managers, NEW k \in 1..Len(byTemplate'[m]), NEW p \in {"mem", "disk"},
             NEW j \in 1..Len(byTemplate[m]), byTemplate'[m][k] = byTemplate[m][j]
      PROVE  \E i : i = byTemplate'[m][k].path /\ Whole(m, i, p)'
  <2>1. PICK i : i = byTemplate[m][j].path
    OBVIOUS
  <2>2. Whole(m, i, p)
    BY <2>1, Zenon DEF CacheOK
  <2>3. i \in S /\ p \in Part
    <3>1. byTemplate[m] \in Seq(Entry(S))
      BY DEF CacheOK
    <3>2. byTemplate[m][j] \in Entry(S)
      BY <3>1, Element, Zenon
    <3>. QED BY <2>1, <3>2 DEF Part, Entry
  <2>. QED BY <1>1, <2>1, <2>2, <2>3 DEF Preserves
<1>2. ASSUME NEW m \in Managers, NEW k \in 1..Len(byTemplate'[m]), NEW p \in {"mem", "disk"}
      PROVE  \E i : i = byTemplate'[m][k].path /\ Whole(m, i, p)'
  BY <1>1, Zenon
<1>. QED BY <1>2 DEF CacheOK

LEMMA CacheStays ==
  ASSUME NEW S, CacheOK(S), Preserves(S), byTemplate' = byTemplate
  PROVE  CacheOK(S)'
<1>1. byTemplate' \in [Managers -> Seq(Entry(S))]
  BY DEF CacheOK
<1>. QED BY <1>1, CacheKept, Zenon

LEMMA DataStays ==
  ASSUME NEW S, Data(S), UNCHANGED <<store, latest, files, byTemplate, torn>>,
         deleted \subseteq deleted', made' \in Nat
  PROVE  Preserves(S) /\ Data(S)'
<1>1. Preserves(S)
  BY NothingTaken
<1>. QED BY <1>1, FilesStay, PointerStays, CacheStays DEF Data

(* One file is written: whole, or half. *)
LEMMA FileWritten ==
  ASSUME NEW S, FilesOK(S), NEW m \in Managers, NEW i \in S, NEW p \in Part, NEW left,
         files' = [files EXCEPT ![m][i][p] = left], torn \subseteq torn', deleted' = deleted, store' = store,
         left = "whole" \/ (left = "torn" /\ <<m, i>> \in torn') \/ left = files[m][i][p]
  PROVE  FilesOK(S)' /\ Preserves(S) /\ (left = "whole" => Whole(m, i, p)')
<1>1. files \in [Managers -> [S -> [Part -> {"none", "torn", "whole"}]]]
  BY DEF FilesOK
<1>2. files[m] \in [S -> [Part -> {"none", "torn", "whole"}]] /\ files[m][i] \in [Part -> {"none", "torn", "whole"}]
  BY <1>1
<1>3. files[m][i][p] \in {"none", "torn", "whole"}
  BY <1>2
<1>4. files' \in [Managers -> [S -> [Part -> {"none", "torn", "whole"}]]]
  BY <1>1, <1>2, <1>3
<1>5. \A n \in Managers, j \in S, o \in Part :
        files'[n][j][o] = IF n = m /\ j = i /\ o = p THEN left ELSE files[n][j][o]
  BY <1>1
<1>6. \A n \in Managers, j \in S, o \in Part : Whole(n, j, o) => Whole(n, j, o)'
  BY <1>3, <1>5 DEF Whole
<1>7. \A n \in Managers, j \in S, o \in Part : files'[n][j][o] # "none" => Whole(n, j, o)'
  <2>1. \A n \in Managers, j \in S, o \in Part : files[n][j][o] # "none" => Whole(n, j, o)
    BY DEF FilesOK
  <2>. QED BY <1>5, <2>1 DEF Whole
<1>8. Preserves(S)
  BY <1>6 DEF Preserves, Stored
<1>9. left = "whole" => Whole(m, i, p)'
  BY <1>5 DEF Whole
<1>. QED BY <1>4, <1>7, <1>8, <1>9 DEF FilesOK


-----------------------------------------------------------------------------
(* The steps of a list of things to do.                                    *)

(* What c may rely on when a is the next thing of its list. *)
LEMMA Next1 ==
  ASSUME NEW S, CallsOK(S), NEW c \in Callers, NEW acts, At(c, acts),
         NEW a, a = Head(nyxCall[c].todo), NEW m, m = nyxCall[c].m
  PROVE  /\ nyxCall[c].todo # <<>> /\ a.act \in acts /\ a.id \in Nat /\ m \in Managers
         /\ a.act \in Erasures => a.id \in deleted \cup {0}
         /\ a.act \in Puts \cup Fills \cup {"point", "add"} => a.id \in S
         /\ a.act = "point" => \A p \in Part : Stored(a.id, p)
         /\ a.act = "add" => a.id = nyxCall[c].id /\ \A p \in {"mem", "disk"} : Whole(m, a.id, p)
         /\ a.act \in {"remove", "clear"} => nyxCall[c].op # "get"
<1>1. CallOK(S, c) /\ nyxCall[c].todo # <<>> /\ a.act \in acts
  BY DEF CallsOK, At
<1>2. nyxCall[c].todo \in Seq(Item) /\ m \in Managers
  BY <1>1 DEF CallOK
<1>3. 1 \in 1..Len(nyxCall[c].todo) /\ a = nyxCall[c].todo[1] /\ a \in Item
  BY <1>1, <1>2
<1>4. ItemOK(S, c, 1)
  BY <1>1, <1>3, Zenon DEF CallOK
<1>5. \A t, q, i, p : ~Earlier(t, 1, q, i, p)
  BY DEF Earlier
<1>. QED BY <1>1, <1>2, <1>3, <1>4, <1>5 DEF ItemOK, Item

LEMMA StepBuild ==
  ASSUME NEW S, NyxInv(S), NEW c \in Callers, Build(c)
  PROVE  NyxInv(S)' /\ ServedWhole
<1>1. UNCHANGED <<store, latest, files, byTemplate, torn, deleted, made>>
  BY DEF Build
<1>2. Preserves(S) /\ Data(S)'
  BY <1>1, DataStays DEF NyxInv, Data
<1>3. PICK a, m : a = Head(nyxCall[c].todo) /\ m = nyxCall[c].m
  OBVIOUS
<1>4. nyxCall[c].todo # <<>> /\ a.act = "build"
  <2>1. At(c, {"build"}) /\ CallsOK(S)
    BY Zenon DEF Build, NyxInv
  <2>. QED BY <1>3, <2>1, Next1
<1>5. a.act \notin Puts \cup Fills
  BY <1>4 DEF Puts, Fills
<1>6. CallsOK(S)
  BY DEF NyxInv
<1>7. CASE Done(c)
  BY <1>2, <1>3, <1>4, <1>5, <1>6, <1>7, Goes, Zenon DEF NyxInv
<1>8. CASE Gives(c, m)
  BY <1>2, <1>6, <1>8, GivesUp, Zenon DEF NyxInv
<1>. QED BY <1>3, <1>7, <1>8, Zenon DEF Build

LEMMA StepPut ==
  ASSUME NEW S, NyxInv(S), NEW c \in Callers, Put(c)
  PROVE  NyxInv(S)' /\ ServedWhole
<1>0. PICK a, m : a = Head(nyxCall[c].todo) /\ m = nyxCall[c].m
  OBVIOUS
<1>1. UNCHANGED <<latest, files, byTemplate, torn, deleted, made>> /\ store \subseteq store'
  BY DEF Put
<1>2. Preserves(S)
  BY <1>1, NothingTaken
<1>3. Data(S)'
  BY <1>1, <1>2, FilesStay, PointerStays, CacheStays DEF NyxInv, Data
<1>4. nyxCall[c].todo # <<>> /\ a.act \in Puts
  <2>1. At(c, {"put_mem", "put_disk", "put_json"}) /\ CallsOK(S)
    BY Zenon DEF Put, NyxInv
  <2>. QED BY <1>0, <2>1, Next1 DEF Puts
<1>5. CallsOK(S)
  BY DEF NyxInv
<1>6. CASE Done(c) /\ store' = store \cup {<<a.id, PartOf(a.act)>>}
  <2>1. Stored(a.id, PartOf(a.act))'
    BY <1>6 DEF Stored
  <2>2. a.act \notin Fills
    BY <1>4 DEF Puts, Fills
  <2>. QED BY <1>0, <1>2, <1>3, <1>4, <1>5, <1>6, <2>1, <2>2, Goes, Zenon DEF NyxInv
<1>7. CASE Gives(c, m)
  BY <1>2, <1>3, <1>5, <1>7, GivesUp, Zenon DEF NyxInv
<1>. QED BY <1>0, <1>6, <1>7, Zenon DEF Put

LEMMA StepPoint ==
  ASSUME NEW S, NyxInv(S), NEW c \in Callers, Point(c)
  PROVE  NyxInv(S)' /\ ServedWhole
<1>0. PICK a, m : a = Head(nyxCall[c].todo) /\ m = nyxCall[c].m
  OBVIOUS
<1>1. UNCHANGED <<store, files, byTemplate, torn, deleted, made>>
  BY DEF Point
<1>2. Preserves(S)
  BY <1>1, NothingTaken
<1>3. /\ nyxCall[c].todo # <<>> /\ a.act = "point" /\ a.id \in S
      /\ \A p \in Part : Stored(a.id, p)
  <2>1. At(c, {"point"}) /\ CallsOK(S)
    BY Zenon DEF Point, NyxInv
  <2>. QED BY <1>0, <2>1, Next1
<1>4. latest' \in {a.id, latest}
  BY <1>0 DEF Point
<1>5. PointerOK(S)'
  <2>1. CASE latest' = a.id
    BY <1>1, <1>3, <2>1 DEF PointerOK, Stored
  <2>2. CASE latest' = latest
    BY <1>2, <2>2, PointerStays DEF NyxInv, Data
  <2>. QED BY <1>4, <2>1, <2>2
<1>6. Data(S)'
  BY <1>1, <1>2, <1>5, FilesStay, CacheStays DEF NyxInv, Data
<1>7. a.act \notin Puts \cup Fills
  BY <1>3 DEF Puts, Fills
<1>8. CallsOK(S)
  BY DEF NyxInv
<1>9. CASE Done(c)
  BY <1>0, <1>2, <1>3, <1>6, <1>7, <1>8, <1>9, Goes, Zenon DEF NyxInv
<1>10. CASE Gives(c, m)
  BY <1>2, <1>6, <1>8, <1>10, GivesUp, Zenon DEF NyxInv
<1>. QED BY <1>0, <1>9, <1>10, Zenon DEF Point


LEMMA PartIs ==
  ASSUME NEW act
  PROVE  PartOf(act) \in Part
  BY DEF PartOf, Part

(* A file is written, and the rest of the data stays. *)
LEMMA DataWritten ==
  ASSUME NEW S, Data(S), NEW m \in Managers, NEW i \in S, NEW p \in Part, NEW left,
         files' = [files EXCEPT ![m][i][p] = left], torn \subseteq torn',
         UNCHANGED <<store, latest, byTemplate, made, deleted>>,
         left = "whole" \/ (left = "torn" /\ <<m, i>> \in torn') \/ left = files[m][i][p]
  PROVE  Data(S)' /\ Preserves(S) /\ (left = "whole" => Whole(m, i, p)')
<1>1. FilesOK(S)' /\ Preserves(S) /\ (left = "whole" => Whole(m, i, p)')
  BY FileWritten, Zenon DEF Data
<1>. QED BY <1>1, PointerStays, CacheStays DEF Data

LEMMA StepCopy ==
  ASSUME NEW S, NyxInv(S), NEW c \in Callers, Copy(c)
  PROVE  NyxInv(S)' /\ ServedWhole
<1>0. PICK a, m, p : a = Head(nyxCall[c].todo) /\ m = nyxCall[c].m /\ p = PartOf(a.act)
  OBVIOUS
<1>1. UNCHANGED <<store, latest, byTemplate, deleted, made>>
  BY Zenon DEF Copy
<1>2. nyxCall[c].todo # <<>> /\ a.act \in Fills /\ a.id \in S /\ m \in Managers
  <2>1. At(c, {"copy_mem", "copy_disk", "copy_json"}) /\ CallsOK(S)
    BY Zenon DEF Copy, NyxInv
  <2>. QED BY <1>0, <2>1, Next1 DEF Fills
<1>3. p \in Part /\ a.act \notin Puts
  BY <1>0, <1>2, PartIs DEF Puts, Fills
<1>4. CallsOK(S) /\ Data(S)
  BY DEF NyxInv
<1>5. CASE files' = [files EXCEPT ![m][a.id][p] = "whole"] /\ Done(c) /\ torn' = torn
  <2>1. Data(S)' /\ Preserves(S) /\ Whole(m, a.id, p)'
    BY <1>1, <1>2, <1>3, <1>4, <1>5, DataWritten, Zenon
  <2>. QED BY <1>0, <1>2, <1>3, <1>4, <1>5, <2>1, Goes, Zenon DEF NyxInv
<1>6. CASE /\ \E left \in {"torn", files[m][a.id][p]} :
                /\ files' = [files EXCEPT ![m][a.id][p] = left]
                /\ torn' = IF left = "torn" THEN torn \cup {<<m, a.id>>} ELSE torn
           /\ Gives(c, m)
  <2>1. PICK left \in {"torn", files[m][a.id][p]} :
               /\ files' = [files EXCEPT ![m][a.id][p] = left]
               /\ torn' = IF left = "torn" THEN torn \cup {<<m, a.id>>} ELSE torn
    BY <1>6, Zenon
  <2>2. torn \subseteq torn' /\ (left = "torn" => <<m, a.id>> \in torn')
    BY <2>1
  <2>3. Data(S)' /\ Preserves(S)
    BY <1>1, <1>2, <1>3, <1>4, <2>1, <2>2, DataWritten, Zenon
  <2>. QED BY <1>4, <1>6, <2>3, GivesUp, Zenon DEF NyxInv
<1>. QED BY <1>0, <1>5, <1>6, Zenon DEF Copy

LEMMA StepDownload ==
  ASSUME NEW S, NyxInv(S), NEW c \in Callers, Download(c)
  PROVE  NyxInv(S)' /\ ServedWhole
<1>0. PICK a, m, p : a = Head(nyxCall[c].todo) /\ m = nyxCall[c].m /\ p = PartOf(a.act)
  OBVIOUS
<1>1. UNCHANGED <<store, latest, byTemplate, deleted, made, torn>>
  BY Zenon DEF Download
<1>2. nyxCall[c].todo # <<>> /\ a.act \in Fills /\ a.id \in S /\ m \in Managers
  <2>1. At(c, {"get_mem", "get_disk"}) /\ CallsOK(S)
    BY Zenon DEF Download, NyxInv
  <2>. QED BY <1>0, <2>1, Next1 DEF Fills
<1>3. p \in Part /\ a.act \notin Puts
  BY <1>0, <1>2, PartIs DEF Puts, Fills
<1>4. CallsOK(S) /\ Data(S)
  BY DEF NyxInv
<1>5. CASE files' = [files EXCEPT ![m][a.id][p] = "whole"] /\ Done(c)
  <2>1. Data(S)' /\ Preserves(S) /\ Whole(m, a.id, p)'
    BY <1>1, <1>2, <1>3, <1>4, <1>5, DataWritten, Zenon
  <2>. QED BY <1>0, <1>2, <1>3, <1>4, <1>5, <2>1, Goes, Zenon DEF NyxInv
<1>6. CASE files' = files /\ Gives(c, m)
  <2>1. Data(S)' /\ Preserves(S)
    BY <1>1, <1>4, <1>6, DataStays DEF Data
  <2>. QED BY <1>4, <1>6, <2>1, GivesUp, Zenon DEF NyxInv
<1>. QED BY <1>0, <1>5, <1>6, Zenon DEF Download

LEMMA StepDownloadJSON ==
  ASSUME NEW S, NyxInv(S), NEW c \in Callers, DownloadJSON(c)
  PROVE  NyxInv(S)' /\ ServedWhole
<1>0. PICK a, m : a = Head(nyxCall[c].todo) /\ m = nyxCall[c].m
  OBVIOUS
<1>1. UNCHANGED <<store, latest, byTemplate, deleted, made, torn>>
  BY Zenon DEF DownloadJSON
<1>2. nyxCall[c].todo # <<>> /\ a.act = "get_json" /\ a.id \in S /\ m \in Managers
  <2>1. At(c, {"get_json"}) /\ CallsOK(S)
    BY Zenon DEF DownloadJSON, NyxInv
  <2>. QED BY <1>0, <2>1, Next1 DEF Fills
<1>3. "json" \in Part /\ a.act \notin Puts /\ PartOf(a.act) = "json"
  BY <1>2 DEF Puts, Part, PartOf
<1>4. CallsOK(S) /\ Data(S)
  BY DEF NyxInv
<1>5. PICK ok \in {TRUE, FALSE} :
        /\ files' = IF ok THEN [files EXCEPT ![m][a.id]["json"] = "whole"] ELSE files
        /\ nyxCall' = [nyxCall EXCEPT ![c].todo = Tail(@), ![c].known = ok]
  BY <1>0, Zenon DEF DownloadJSON
<1>6. Data(S)' /\ Preserves(S)
  <2>1. CASE files' = [files EXCEPT ![m][a.id]["json"] = "whole"]
    BY <1>1, <1>2, <1>3, <1>4, <2>1, DataWritten, Zenon
  <2>2. CASE files' = files
    BY <1>1, <1>4, <2>2, DataStays DEF Data
  <2>. QED BY <1>5, <2>1, <2>2, Zenon
<1>7. CallOK(S, c)
  BY <1>4 DEF CallsOK
<1>8. /\ NyxShape' /\ \A d \in Callers : d # c => nyxCall'[d] = nyxCall[d]
      /\ nyxCall'[c] = [[nyxCall[c] EXCEPT !.todo = Tail(nyxCall[c].todo)] EXCEPT !.known = ok]
  BY <1>4, <1>5, Zenon DEF CallsOK, NyxShape
<1>9. PICK q, d, t : q = nyxCall[c] /\ d = nyxCall'[c] /\ t = Tail(q.todo)
  BY Zenon
<1>10. /\ IsCall(d) /\ d.op = q.op /\ d.m = q.m /\ d.todo = t
       /\ d.id = q.id /\ d.known = ok /\ d.res = q.res
  <2>1. PICK e : e = [q EXCEPT !.todo = t]
    BY Zenon
  <2>2. IsCall(q) /\ d = [e EXCEPT !.known = ok]
    BY <1>7, <1>8, <1>9, <2>1, Zenon DEF CallOK
  <2>3. IsCall(e) /\ e.op = q.op /\ e.m = q.m /\ e.todo = t /\ e.id = q.id /\ e.res = q.res
    BY <2>1, <2>2, TodoIs
  <2>. QED BY <2>2, <2>3, KnownIs
<1>11. CallOK(S, c)'
  <2>1. ok \in BOOLEAN /\ "json" \notin {"mem", "disk"}
    BY <1>5, Zenon
  <2>. QED BY <1>0, <1>2, <1>3, <1>6, <1>7, <1>9, <1>10, <2>1, CallPops, Zenon
<1>12. nyxCall'[c].res # "ok"
  BY <1>2, <1>7, <1>9, <1>10 DEF CallOK
<1>. QED BY <1>4, <1>6, <1>8, <1>11, <1>12, CallsTurn, NobodyServed, Zenon DEF NyxInv


LEMMA StepAdd ==
  ASSUME NEW S, S \subseteq Nat, NyxInv(S), NEW c \in Callers, Add(c)
  PROVE  NyxInv(S)' /\ ServedWhole
<1>0. PICK a, m, i, known : /\ a = Head(nyxCall[c].todo) /\ m = nyxCall[c].m
                            /\ i = nyxCall[c].id /\ known = nyxCall[c].known
  BY Zenon
<1>1. /\ UNCHANGED <<store, latest, files, deleted, made, torn>>
      /\ byTemplate' = [byTemplate EXCEPT ![m] = Append(byTemplate[m], Cached(i, known))]
      /\ Return(c, m, "ok", i)
  BY <1>0, Zenon DEF Add
<1>2. At(c, {"add"}) /\ CallsOK(S) /\ Data(S)
  BY Zenon DEF Add, NyxInv
<1>3. m \in Managers /\ i \in S /\ \A p \in {"mem", "disk"} : Whole(m, i, p)
  BY <1>0, <1>2, Next1
<1>4. known \in BOOLEAN
  BY <1>0, <1>2 DEF CallsOK, CallOK
<1>5. Preserves(S)
  BY <1>1, NothingTaken
<1>6. \A p \in {"mem", "disk"} : Whole(m, i, p)'
  BY <1>3, <1>5 DEF Preserves, Part
<1>7. CacheOK(S)'
  <2>1. byTemplate \in [Managers -> Seq(Entry(S))]
    BY <1>2 DEF Data, CacheOK
  <2>2. Cached(i, known) \in Entry(S) /\ Cached(i, known).path = i
    BY <1>3, <1>4 DEF Cached, Entry
  <2>3. PICK e : e = Cached(i, known)
    OBVIOUS
  <2>4. byTemplate' \in [Managers -> Seq(Entry(S))]
    <3>1. byTemplate[m] \in Seq(Entry(S)) /\ e \in Entry(S)
      BY <1>3, <2>1, <2>2, <2>3, Zenon
    <3>2. Append(byTemplate[m], e) \in Seq(Entry(S))
      BY <3>1
    <3>. QED BY <1>1, <2>1, <2>3, <3>2, ValuePut
  <2>5. ASSUME NEW n \in Managers, NEW k \in 1..Len(byTemplate'[n])
        PROVE  \/ \E j \in 1..Len(byTemplate[n]) : byTemplate'[n][k] = byTemplate[n][j]
               \/ \E j : j = byTemplate'[n][k].path /\ \A p \in {"mem", "disk"} : Whole(n, j, p)'
    <3>1. CASE n # m
      BY <1>1, <2>1, <3>1
    <3>2. CASE n = m
      <4>1. byTemplate'[n] = Append(byTemplate[n], e) /\ byTemplate[n] \in Seq(Entry(S))
        BY <1>1, <2>1, <2>3, <3>2
      <4>2. \/ k \in 1..Len(byTemplate[n]) /\ byTemplate'[n][k] = byTemplate[n][k]
            \/ byTemplate'[n][k] = e
        BY <4>1
      <4>. QED BY <1>6, <2>2, <2>3, <3>2, <4>2, Zenon
    <3>. QED BY <3>1, <3>2
  <2>. QED BY <1>2, <1>5, <2>4, <2>5, CacheKept, Zenon DEF Data
<1>8. Data(S)'
  BY <1>1, <1>2, <1>5, <1>7, FilesStay, PointerStays DEF Data
<1>9. CallsOK(S)' /\ ServedWhole
  <2>1. i \in Nat
    BY <1>3
  <2>. QED BY <1>0, <1>1, <1>2, <1>5, <1>6, <2>1, CallReturns, Zenon
<1>. QED BY <1>8, <1>9, Zenon DEF NyxInv

LEMMA StepErase ==
  ASSUME NEW S, 0 \notin S, NyxInv(S), NEW c \in Callers, Erase(c)
  PROVE  NyxInv(S)' /\ ServedWhole
<1>0. PICK a, m : a = Head(nyxCall[c].todo) /\ m = nyxCall[c].m
  OBVIOUS
<1>1. /\ UNCHANGED <<latest, files, byTemplate, deleted, made, torn>> /\ Done(c)
      /\ store' = store \/ store' = store \ {<<a.id, PartOf(a.act)>>}
  BY <1>0, Zenon DEF Erase
<1>2. At(c, {"erase_mem", "erase_disk", "erase_json"}) /\ CallsOK(S) /\ Data(S)
  BY Zenon DEF Erase, NyxInv
<1>3. /\ nyxCall[c].todo # <<>> /\ a.id \in deleted \cup {0}
      /\ a.act \in {"erase_mem", "erase_disk", "erase_json"}
  BY <1>0, <1>2, Next1 DEF Erasures
<1>4. Preserves(S)
  <2>1. \A i \in S, p \in Part : Stored(i, p) => Stored(i, p)'
    BY <1>1, <1>3 DEF Stored
  <2>. QED BY <1>1, <2>1 DEF Preserves, Whole
<1>5. Data(S)'
  BY <1>1, <1>2, <1>4, FilesStay, PointerStays, CacheStays DEF Data
<1>6. a.act \notin Puts \cup Fills
  BY <1>3 DEF Puts, Fills
<1>. QED BY <1>0, <1>1, <1>2, <1>3, <1>4, <1>5, <1>6, Goes, Zenon DEF NyxInv

LEMMA StepUnpoint ==
  ASSUME NEW S, NyxInv(S), NEW c \in Callers, Unpoint(c)
  PROVE  NyxInv(S)' /\ ServedWhole
<1>0. PICK a, m : a = Head(nyxCall[c].todo) /\ m = nyxCall[c].m
  OBVIOUS
<1>1. /\ UNCHANGED <<store, files, byTemplate, deleted, made, torn>> /\ Done(c)
      /\ latest' = 0 \/ latest' = latest
  BY Zenon DEF Unpoint
<1>2. At(c, {"unpoint"}) /\ CallsOK(S) /\ Data(S)
  BY Zenon DEF Unpoint, NyxInv
<1>3. nyxCall[c].todo # <<>> /\ a.act = "unpoint"
  BY <1>0, <1>2, Next1
<1>4. Preserves(S)
  BY <1>1, NothingTaken
<1>5. PointerOK(S)'
  <2>1. CASE latest' = 0
    BY <2>1 DEF PointerOK
  <2>2. CASE latest' = latest
    BY <1>2, <1>4, <2>2, PointerStays DEF Data
  <2>. QED BY <1>1, <2>1, <2>2
<1>6. Data(S)'
  BY <1>1, <1>2, <1>4, <1>5, FilesStay, CacheStays DEF Data
<1>7. a.act \notin Puts \cup Fills
  BY <1>3 DEF Puts, Fills
<1>. QED BY <1>0, <1>1, <1>2, <1>3, <1>4, <1>6, <1>7, Goes, Zenon DEF NyxInv


LEMMA CacheThinned ==
  ASSUME NEW S, CacheOK(S), Preserves(S), NEW m \in Managers, NEW X, X \subseteq DOMAIN byTemplate[m],
         NEW n \in 0..Len(byTemplate[m]), NEW place \in [1..n -> X],
         byTemplate' = [byTemplate EXCEPT ![m] = [k \in 1..n |-> byTemplate[m][place[k]]]]
  PROVE  CacheOK(S)'
<1>2. byTemplate \in [Managers -> Seq(Entry(S))]
  BY DEF CacheOK
<1>3. byTemplate[m] \in Seq(Entry(S))
  BY <1>2, Zenon
<1>4. PICK t : t = [k \in 1..n |-> byTemplate[m][place[k]]]
  BY Zenon
<1>5. n \in Nat /\ \A k \in 1..n : place[k] \in 1..Len(byTemplate[m])
  BY <1>3
<1>6. t \in Seq(Entry(S)) /\ Len(t) = n
  <2>1. \A k \in 1..n : t[k] \in Entry(S)
    BY <1>3, <1>4, <1>5, Element, Zenon
  <2>2. t \in [1..n -> Entry(S)]
    BY <1>4, <2>1, Zenon
  <2>. QED BY <1>5, <2>2, Listed, Zenon
<1>7. byTemplate' \in [Managers -> Seq(Entry(S))]
  BY <1>2, <1>4, <1>6, ValuePut
<1>8. ASSUME NEW o \in Managers, NEW k \in 1..Len(byTemplate'[o])
      PROVE  \E j \in 1..Len(byTemplate[o]) : byTemplate'[o][k] = byTemplate[o][j]
  <2>1. CASE o # m
    BY <1>2, <2>1
  <2>2. CASE o = m
    <3>1. byTemplate'[o] = t
      BY <1>2, <1>4, <2>2
    <3>2. k \in 1..n
      BY <1>6, <3>1
    <3>. QED BY <1>4, <1>5, <2>2, <3>1, <3>2, Zenon
  <2>. QED BY <2>1, <2>2
<1>. QED BY <1>7, <1>8, CacheKept, Zenon

LEMMA StepDrop ==
  ASSUME NEW S, NyxInv(S), NEW c \in Callers, Drop(c)
  PROVE  NyxInv(S)' /\ ServedWhole
<1>0. PICK a, m : a = Head(nyxCall[c].todo) /\ m = nyxCall[c].m
  OBVIOUS
<1>1. UNCHANGED <<store, latest, files, deleted, made, torn>> /\ Done(c)
  BY Zenon DEF Drop
<1>2. At(c, {"drop"}) /\ CallsOK(S) /\ Data(S)
  BY Zenon DEF Drop, NyxInv
<1>3. nyxCall[c].todo # <<>> /\ a.act = "drop" /\ m \in Managers
  BY <1>0, <1>2, Next1
<1>4. Preserves(S)
  BY <1>1, NothingTaken
<1>5. CacheOK(S)'
  <2>0. Others(nyxCall[c].m, nyxCall[c].id) \subseteq DOMAIN byTemplate[nyxCall[c].m]
    BY DEF Others
  <2>1. PICK n \in 0..Len(byTemplate[nyxCall[c].m]) :
          \E place \in [1..n -> Others(nyxCall[c].m, nyxCall[c].id)] :
            byTemplate' = [byTemplate EXCEPT ![nyxCall[c].m] =
                             [k \in 1..n |-> byTemplate[nyxCall[c].m][place[k]]]]
    BY Zenon DEF Drop
  <2>2. nyxCall[c].m \in Managers /\ CacheOK(S)
    BY <1>0, <1>2, <1>3, Zenon DEF Data
  <2>3. PICK place \in [1..n -> Others(nyxCall[c].m, nyxCall[c].id)] :
            byTemplate' = [byTemplate EXCEPT ![nyxCall[c].m] =
                             [k \in 1..n |-> byTemplate[nyxCall[c].m][place[k]]]]
    BY <2>1, Zenon
  <2>4. PICK X : X = Others(nyxCall[c].m, nyxCall[c].id)
    OBVIOUS
  <2>. QED BY <1>4, <2>0, <2>2, <2>3, <2>4, CacheThinned, Zenon
<1>6. Data(S)'
  BY <1>1, <1>2, <1>4, <1>5, FilesStay, PointerStays DEF Data
<1>7. a.act \notin Puts \cup Fills
  BY <1>3 DEF Puts, Fills
<1>. QED BY <1>0, <1>1, <1>2, <1>3, <1>4, <1>6, <1>7, Goes, Zenon DEF NyxInv

LEMMA StepRemoveFiles ==
  ASSUME NEW S, 0 \notin S, NyxInv(S), NEW c \in Callers, RemoveFiles(c)
  PROVE  NyxInv(S)' /\ ServedWhole
<1>0. PICK a, m, i : a = Head(nyxCall[c].todo) /\ m = nyxCall[c].m /\ i = a.id
  OBVIOUS
<1>1. /\ UNCHANGED <<store, latest, byTemplate, deleted, made, torn>>
      /\ files' = [files EXCEPT ![m] =
           [j \in DOMAIN files[m] |-> IF j = i THEN [p \in Part |-> "none"] ELSE files[m][j]]]
      /\ Done(c) \/ Return(c, m, "ok", i)
  BY <1>0, Zenon DEF RemoveFiles
<1>2. At(c, {"remove"}) /\ CallsOK(S) /\ Data(S)
  BY Zenon DEF RemoveFiles, NyxInv
<1>3. /\ nyxCall[c].todo # <<>> /\ a.act = "remove" /\ m \in Managers
      /\ i \in Nat /\ i \in deleted \cup {0} /\ nyxCall[c].op # "get"
  BY <1>0, <1>2, Next1 DEF Erasures
<1>4. files \in [Managers -> [S -> [Part -> {"none", "torn", "whole"}]]]
  BY <1>2 DEF Data, FilesOK
<1>5. PICK f : f = [j \in S |-> IF j = i THEN [p \in Part |-> "none"] ELSE files[m][j]]
  BY Zenon
<1>6. f \in [S -> [Part -> {"none", "torn", "whole"}]] /\ files' = [files EXCEPT ![m] = f]
  <2>1. files[m] \in [S -> [Part -> {"none", "torn", "whole"}]] /\ DOMAIN files[m] = S
    BY <1>3, <1>4
  <2>2. \A j \in S : files[m][j] \in [Part -> {"none", "torn", "whole"}]
    BY <2>1
  <2>3. [p \in Part |-> "none"] \in [Part -> {"none", "torn", "whole"}]
    OBVIOUS
  <2>4. f \in [S -> [Part -> {"none", "torn", "whole"}]]
    BY <1>5, <2>2, <2>3
  <2>. QED BY <1>1, <1>5, <2>1, <2>4
<1>7. files' \in [Managers -> [S -> [Part -> {"none", "torn", "whole"}]]]
  BY <1>4, <1>6, ValuePut, Zenon
<1>8. \A n \in Managers, j \in S, p \in Part :
        \/ files'[n][j][p] = files[n][j][p]
        \/ j = i /\ files'[n][j][p] = "none"
  BY <1>4, <1>5, <1>6
<1>9. \A n \in Managers, j \in S, p \in Part : Whole(n, j, p) => Whole(n, j, p)'
  BY <1>1, <1>3, <1>8 DEF Whole
<1>10. Preserves(S)
  BY <1>1, <1>9 DEF Preserves, Stored
<1>11. FilesOK(S)'
  <2>1. \A n \in Managers, j \in S, p \in Part : files[n][j][p] # "none" => Whole(n, j, p)
    BY <1>2 DEF Data, FilesOK
  <2>2. \A n \in Managers, j \in S, p \in Part : files'[n][j][p] # "none" => Whole(n, j, p)'
    BY <1>8, <1>9, <2>1
  <2>. QED BY <1>7, <2>2 DEF FilesOK
<1>12. Data(S)'
  BY <1>1, <1>2, <1>10, <1>11, PointerStays, CacheStays DEF Data
<1>13. a.act \notin Puts \cup Fills
  BY <1>3 DEF Puts, Fills
<1>14. CASE Done(c)
  BY <1>0, <1>2, <1>3, <1>10, <1>12, <1>13, <1>14, Goes, Zenon DEF NyxInv
<1>15. CASE Return(c, m, "ok", i)
  BY <1>2, <1>3, <1>10, <1>12, <1>15, CallReturns, Zenon DEF NyxInv
<1>. QED BY <1>1, <1>14, <1>15, Zenon

(* The cache of a manager is emptied. *)
LEMMA CacheEmptied ==
  ASSUME NEW S, CacheOK(S), Preserves(S), NEW m, byTemplate' = [byTemplate EXCEPT ![m] = <<>>]
  PROVE  CacheOK(S)'
<1>1. byTemplate \in [Managers -> Seq(Entry(S))]
  BY DEF CacheOK
<1>2. <<>> \in Seq(Entry(S))
  OBVIOUS
<1>3. byTemplate' \in [Managers -> Seq(Entry(S))]
  BY <1>1, <1>2, ValuePut, Zenon
<1>4. ASSUME NEW o \in Managers, NEW k \in 1..Len(byTemplate'[o])
      PROVE  \E j \in 1..Len(byTemplate[o]) : byTemplate'[o][k] = byTemplate[o][j]
  <2>1. o # m
    BY <1>1
  <2>. QED BY <1>1, <2>1
<1>. QED BY <1>3, <1>4, CacheKept, Zenon

LEMMA StepClear ==
  ASSUME NEW S, NyxInv(S), NEW c \in Callers, Clear(c)
  PROVE  NyxInv(S)' /\ ServedWhole
<1>0. PICK a, m : a = Head(nyxCall[c].todo) /\ m = nyxCall[c].m
  OBVIOUS
<1>1. /\ UNCHANGED <<store, latest, files, deleted, made, torn>> /\ Return(c, m, "ok", 0)
      /\ byTemplate' = [byTemplate EXCEPT ![m] = <<>>]
  BY <1>0, Zenon DEF Clear
<1>2. At(c, {"clear"}) /\ CallsOK(S) /\ Data(S)
  BY Zenon DEF Clear, NyxInv
<1>3. nyxCall[c].op # "get" /\ 0 \in Nat
  BY <1>0, <1>2, Next1
<1>4. Preserves(S)
  BY <1>1, NothingTaken
<1>5. CacheOK(S)'
  BY <1>1, <1>2, <1>4, CacheEmptied, Zenon DEF Data
<1>6. Data(S)'
  BY <1>1, <1>2, <1>4, <1>5, FilesStay, PointerStays DEF Data
<1>. QED BY <1>1, <1>2, <1>3, <1>4, <1>6, CallReturns, Zenon DEF NyxInv


(* The half-written copies that a restart leaves are known to be torn. *)
LEMMA StepRestart ==
  ASSUME NEW S, NyxInv(S), NEW m \in Managers, NyxRestart(m)
  PROVE  NyxInv(S)' /\ ServedWhole
<1>1. UNCHANGED <<store, latest, made, deleted>> /\ byTemplate' = [byTemplate EXCEPT ![m] = <<>>]
  BY Zenon DEF NyxRestart
<1>2. nyxCall' = [c \in Callers |-> IF nyxCall[c].m = m /\ nyxCall[c].todo # <<>> THEN NoCall ELSE nyxCall[c]]
  BY Zenon DEF NyxRestart
<1>3. PICK half : /\ files' = [files EXCEPT ![m] = [i \in DOMAIN files[m] |-> [p \in Part |->
                       IF \E a \in half : a.id = i /\ PartOf(a.act) = p THEN "torn" ELSE files[m][i][p]]]]
                  /\ torn' = torn \cup {<<m, a.id>> : a \in half}
  BY Zenon DEF NyxRestart
<1>4. Data(S) /\ CallsOK(S)
  BY DEF NyxInv
<1>5. files \in [Managers -> [S -> [Part -> {"none", "torn", "whole"}]]]
  BY <1>4 DEF Data, FilesOK
<1>6. PICK f : f = [i \in S |-> [p \in Part |->
                 IF \E a \in half : a.id = i /\ PartOf(a.act) = p THEN "torn" ELSE files[m][i][p]]]
  BY Zenon
<1>7. DOMAIN files[m] = S /\ \A i \in S, p \in Part : files[m][i][p] \in {"none", "torn", "whole"}
  BY <1>5
<1>8. f \in [S -> [Part -> {"none", "torn", "whole"}]] /\ files' = [files EXCEPT ![m] = f]
  BY <1>3, <1>6, <1>7
<1>9. files' \in [Managers -> [S -> [Part -> {"none", "torn", "whole"}]]]
  BY <1>5, <1>8, ValuePut
<1>10. \A n \in Managers, i \in S, p \in Part :
         files'[n][i][p] = files[n][i][p] \/ <<n, i>> \in torn'
  <2>1. \A n \in Managers, i \in S, p \in Part : n # m => files'[n][i][p] = files[n][i][p]
    BY <1>5, <1>8
  <2>2. \A i \in S, p \in Part : files'[m][i][p] = f[i][p]
    BY <1>5, <1>8
  <2>3. ASSUME NEW i \in S, NEW p \in Part
        PROVE  f[i][p] = files[m][i][p] \/ <<m, i>> \in torn'
    <3>1. CASE \E a \in half : a.id = i /\ PartOf(a.act) = p
      BY <1>3, <3>1
    <3>2. CASE ~\E a \in half : a.id = i /\ PartOf(a.act) = p
      BY <1>6, <3>2
    <3>. QED BY <3>1, <3>2
  <2>. QED BY <2>1, <2>2, <2>3
<1>11. torn \subseteq torn'
  BY <1>3
<1>12. \A n \in Managers, i \in S, p \in Part : Whole(n, i, p) => Whole(n, i, p)'
  BY <1>1, <1>10, <1>11 DEF Whole
<1>13. Preserves(S)
  BY <1>1, <1>12 DEF Preserves, Stored
<1>14. FilesOK(S)'
  <2>1. \A n \in Managers, j \in S, p \in Part : files[n][j][p] # "none" => Whole(n, j, p)
    BY <1>4 DEF Data, FilesOK
  <2>2. \A n \in Managers, j \in S, p \in Part : files'[n][j][p] # "none" => Whole(n, j, p)'
    <3>1. \A n \in Managers, j \in S, p \in Part : <<n, j>> \in torn' => Whole(n, j, p)'
      BY DEF Whole
    <3>. QED BY <1>10, <1>12, <2>1, <3>1, Zenon
  <2>. QED BY <1>9, <2>2 DEF FilesOK
<1>15. Data(S)'
  BY <1>1, <1>4, <1>13, <1>14, PointerStays, CacheEmptied, Zenon DEF Data
<1>16. NyxShape' /\ \A c \in Callers : nyxCall'[c] = NoCall \/ nyxCall'[c] = nyxCall[c]
  BY <1>2 DEF NyxShape
<1>17. ASSUME NEW c \in Callers
       PROVE  CallOK(S, c)' /\ (nyxCall'[c] = nyxCall[c] \/ nyxCall'[c].res # "ok")
  <2>1. CASE nyxCall'[c] = NoCall
    <3>1. /\ IsCall(NoCall) /\ NoCall.todo = <<>> /\ NoCall.id = 0 /\ 0 \in Nat
          /\ NoCall.known \in BOOLEAN /\ NoCall.res # "ok"
      BY AnsweredIs DEF NoCall
    <3>. QED BY <2>1, <3>1, CallIdle
  <2>2. CASE nyxCall'[c] = nyxCall[c]
    BY <1>4, <1>13, <2>2, CallStays, Zenon DEF CallsOK
  <2>. QED BY <1>16, <2>1, <2>2
<1>18. ServedWhole
  BY <1>17, Zenon DEF ServedWhole, Served
<1>. QED BY <1>15, <1>16, <1>17, <1>18, Zenon DEF NyxInv, CallsOK

LEMMA StepBegin ==
  ASSUME NEW S, NyxInv(S), NEW c \in Callers, NEW m \in Managers, NEW op \in NyxOps, NEW i \in Nat,
         NyxBegin(c, m, op, i)
  PROVE  NyxInv(S)' /\ ServedWhole
<1>1. /\ UNCHANGED <<store, latest, files, byTemplate, made, torn, deleted>>
      /\ nyxCall' = [nyxCall EXCEPT ![c] = [op |-> op, m |-> m, todo |-> <<Do("enter", i)>>, id |-> i,
                                            known |-> TRUE, res |-> "none"]]
  BY Zenon DEF NyxBegin
<1>2. Data(S) /\ CallsOK(S)
  BY DEF NyxInv
<1>3. Preserves(S) /\ Data(S)'
  BY <1>1, <1>2, DataStays DEF Data
<1>4. PICK q : q = [op |-> op, m |-> m, todo |-> <<Do("enter", i)>>, id |-> i, known |-> TRUE, res |-> "none"]
  BY Zenon
<1>5. /\ IsCall(q) /\ q.known \in BOOLEAN /\ q.m = m /\ q.op = op /\ q.id = i /\ q.res = "none"
      /\ q.todo = <<Do("enter", i)>>
  BY <1>4 DEF IsCall
<1>6. /\ NyxShape' /\ nyxCall'[c] = q
      /\ \A d \in Callers : d # c => nyxCall'[d] = nyxCall[d]
  BY <1>1, <1>2, <1>4, Zenon DEF CallsOK, NyxShape
<1>7. "enter" \in Questions
  BY DEF Questions
<1>8. CallOK(S, c)'
  BY <1>5, <1>6, <1>7, CallAsks
<1>9. nyxCall'[c].res # "ok"
  BY <1>5, <1>6
<1>. QED BY <1>2, <1>3, <1>6, <1>8, <1>9, CallsTurn, NobodyServed, Zenon DEF NyxInv


-----------------------------------------------------------------------------
(* GetSnapshot, and the calls that take the mutex.                         *)

LEMMA CachedWhole ==
  ASSUME NEW S, CacheOK(S), NEW m \in Managers, Hit(m), NEW i, i = Newest(m)
  PROVE  i \in S /\ \A p \in {"mem", "disk"} : Whole(m, i, p)
<1>1. byTemplate[m] \in Seq(Entry(S)) /\ byTemplate[m] # <<>>
  BY DEF CacheOK, Hit
<1>2. PICK k : k = Len(byTemplate[m])
  BY Zenon
<1>3. k \in 1..Len(byTemplate[m]) /\ i = byTemplate[m][k].path
  BY <1>1, <1>2 DEF Newest
<1>4. byTemplate[m][k] \in Entry(S)
  BY <1>1, <1>3, Element, Zenon
<1>5. i \in S
  BY <1>3, <1>4 DEF Entry
<1>. QED BY <1>3, <1>5, Zenon DEF CacheOK

(* c's list is replaced, and the snapshot it is about. *)
Replan(c, i, t) == nyxCall' = [nyxCall EXCEPT ![c].id = i, ![c].todo = t]

LEMMA Replans ==
  ASSUME NEW S, CallsOK(S), NEW c \in Callers, nyxCall[c].todo # <<>>, NEW i, NEW t,
         Replan(c, i, t)
  PROVE  /\ NyxShape' /\ \A d \in Callers : d # c => nyxCall'[d] = nyxCall[d]
         /\ IsCall(nyxCall'[c]) /\ nyxCall'[c].known \in BOOLEAN
         /\ nyxCall'[c].op = nyxCall[c].op /\ nyxCall'[c].op \in NyxOps
         /\ nyxCall'[c].m = nyxCall[c].m /\ nyxCall'[c].m \in Managers
         /\ nyxCall'[c].id = i /\ nyxCall'[c].todo = t /\ nyxCall'[c].res = "none"
<1>1. /\ IsCall(nyxCall[c]) /\ nyxCall[c].known \in BOOLEAN /\ nyxCall[c].op \in NyxOps
      /\ nyxCall[c].m \in Managers /\ nyxCall[c].res = "none"
  BY Zenon DEF CallsOK, CallOK
<1>2. /\ NyxShape' /\ \A d \in Callers : d # c => nyxCall'[d] = nyxCall[d]
      /\ nyxCall'[c] = [[nyxCall[c] EXCEPT !.id = i] EXCEPT !.todo = t]
  BY DEF CallsOK, NyxShape, Replan
<1>3. PICK q, e, d : q = nyxCall[c] /\ e = [q EXCEPT !.id = i] /\ d = nyxCall'[c]
  BY Zenon
<1>4. d = [e EXCEPT !.todo = t] /\ IsCall(q)
  BY <1>1, <1>2, <1>3, Zenon
<1>5. IsCall(e) /\ e.op = q.op /\ e.m = q.m /\ e.id = i /\ e.known = q.known /\ e.res = q.res
  <2>1. IsCall(q) /\ e = [q EXCEPT !.id = i]
    BY <1>3, <1>4, Zenon
  <2>. QED BY <2>1, IdIs
<1>6. /\ IsCall(d) /\ d.op = q.op /\ d.m = q.m /\ d.id = i /\ d.known = q.known /\ d.res = q.res
      /\ d.todo = t
  BY <1>4, <1>5, TodoIs
<1>. QED BY <1>1, <1>2, <1>3, <1>6

(* c has another question to ask. *)
LEMMA Asks ==
  ASSUME NEW S, CallsOK(S), Preserves(S), NEW c \in Callers, nyxCall[c].todo # <<>>,
         NEW act \in Questions, nyxCall' = [nyxCall EXCEPT ![c].todo = <<Do(act, 0)>>]
  PROVE  CallsOK(S)' /\ ServedWhole
<1>1. CallOK(S, c)
  BY DEF CallsOK
<1>2. /\ NyxShape' /\ \A d \in Callers : d # c => nyxCall'[d] = nyxCall[d]
      /\ nyxCall'[c] = [nyxCall[c] EXCEPT !.todo = <<Do(act, 0)>>]
  BY DEF CallsOK, NyxShape
<1>3. PICK q, d, t : q = nyxCall[c] /\ d = nyxCall'[c] /\ t = <<Do(act, 0)>>
  BY Zenon
<1>4. /\ IsCall(q) /\ q.known \in BOOLEAN /\ q.op \in NyxOps /\ q.m \in Managers /\ q.res = "none"
      /\ q.id \in Nat
  BY <1>1, <1>3 DEF CallOK
<1>5. /\ IsCall(d) /\ d.op = q.op /\ d.m = q.m /\ d.todo = t
      /\ d.id = q.id /\ d.known = q.known /\ d.res = q.res
  <2>1. IsCall(q) /\ d = [q EXCEPT !.todo = t]
    BY <1>2, <1>3, <1>4, Zenon
  <2>. QED BY <2>1, TodoIs
<1>6. CallOK(S, c)'
  BY <1>3, <1>4, <1>5, CallAsks
<1>7. nyxCall'[c].res # "ok"
  BY <1>3, <1>4, <1>5
<1>. QED BY <1>2, <1>6, <1>7, CallsTurn, NobodyServed, Zenon

(* The cache is asked: c is answered from it or has another question. *)
LEMMA AsksCache ==
  ASSUME NEW S, S \subseteq Nat, NyxInv(S), NEW c \in Callers, nyxCall[c].todo # <<>>,
         UNCHANGED <<store, latest, files, byTemplate, made, torn, deleted>>,
         NEW act \in Questions,
         IF Hit(nyxCall[c].m) THEN Return(c, nyxCall[c].m, "ok", Newest(nyxCall[c].m))
         ELSE nyxCall' = [nyxCall EXCEPT ![c].todo = <<Do(act, 0)>>]
  PROVE  NyxInv(S)' /\ ServedWhole
<1>1. Data(S) /\ CallsOK(S)
  BY DEF NyxInv
<1>2. Preserves(S) /\ Data(S)'
  BY <1>1, DataStays DEF Data
<1>3. PICK m, i : m = nyxCall[c].m /\ i = Newest(m)
  OBVIOUS
<1>4. m \in Managers
  BY <1>1, <1>3 DEF CallsOK, CallOK
<1>5. CASE Hit(m)
  <2>1. i \in S /\ \A p \in {"mem", "disk"} : Whole(m, i, p)
    BY <1>1, <1>3, <1>4, <1>5, CachedWhole, Zenon DEF Data
  <2>2. \A p \in {"mem", "disk"} : Whole(m, i, p)'
    BY <1>2, <1>4, <2>1 DEF Preserves, Part
  <2>3. i \in Nat /\ Return(c, m, "ok", i)
    BY <1>3, <1>5, <2>1
  <2>. QED BY <1>1, <1>2, <1>3, <2>2, <2>3, CallReturns, Zenon DEF NyxInv
<1>6. CASE ~Hit(m)
  BY <1>1, <1>2, <1>3, <1>6, Asks, Zenon DEF NyxInv
<1>. QED BY <1>5, <1>6


LEMMA StepGetEnter ==
  ASSUME NEW S, S \subseteq Nat, NyxInv(S), NEW c \in Callers, GetEnter(c)
  PROVE  NyxInv(S)' /\ ServedWhole
<1>1. nyxCall[c].todo # <<>> /\ "join" \in Questions
  BY DEF GetEnter, Questions
<1>2. UNCHANGED <<store, latest, files, byTemplate, made, torn, deleted>>
  BY Zenon DEF GetEnter
<1>3. IF Hit(nyxCall[c].m) THEN Return(c, nyxCall[c].m, "ok", Newest(nyxCall[c].m))
      ELSE nyxCall' = [nyxCall EXCEPT ![c].todo = <<Do("join", 0)>>]
  BY Zenon DEF GetEnter
<1>. QED BY <1>1, <1>2, <1>3, AsksCache, Zenon

LEMMA StepGetAgain ==
  ASSUME NEW S, S \subseteq Nat, NyxInv(S), NEW c \in Callers, GetAgain(c)
  PROVE  NyxInv(S)' /\ ServedWhole
<1>1. nyxCall[c].todo # <<>> /\ "look" \in Questions
  BY DEF GetAgain, Questions
<1>2. UNCHANGED <<store, latest, files, byTemplate, made, torn, deleted>>
  BY Zenon DEF GetAgain
<1>3. IF Hit(nyxCall[c].m) THEN Return(c, nyxCall[c].m, "ok", Newest(nyxCall[c].m))
      ELSE nyxCall' = [nyxCall EXCEPT ![c].todo = <<Do("look", 0)>>]
  BY Zenon DEF GetAgain
<1>. QED BY <1>1, <1>2, <1>3, AsksCache, Zenon

LEMMA StepGetJoin ==
  ASSUME NEW S, NyxInv(S), NEW c \in Callers, GetJoin(c)
  PROVE  NyxInv(S)' /\ ServedWhole
<1>1. nyxCall[c].todo # <<>>
  BY DEF GetJoin
<1>2. UNCHANGED <<store, latest, files, byTemplate, made, torn, deleted>>
  BY Zenon DEF GetJoin
<1>3. PICK act \in Questions : nyxCall' = [nyxCall EXCEPT ![c].todo = <<Do(act, 0)>>]
  <2>1. PICK act : act = (IF Flight(nyxCall[c].m) = {} THEN "again" ELSE "share")
    OBVIOUS
  <2>2. act \in Questions
    BY <2>1 DEF Questions
  <2>3. nyxCall' = [nyxCall EXCEPT ![c].todo = <<Do(act, 0)>>]
    BY <2>1, Zenon DEF GetJoin
  <2>. QED BY <2>2, <2>3, Zenon
<1>4. Preserves(S) /\ Data(S)' /\ CallsOK(S)
  BY <1>2, DataStays DEF NyxInv, Data
<1>. QED BY <1>1, <1>3, <1>4, Asks, Zenon DEF NyxInv

(* A list of the one thing left, to answer with files that are there. *)
LEMMA CallAdds ==
  ASSUME NEW S, NEW c, NEW i \in Nat, i \in S,
         IsCall(nyxCall'[c]), nyxCall'[c].known \in BOOLEAN, NEW m \in Managers, nyxCall'[c].m = m,
         nyxCall'[c].op \in NyxOps, nyxCall'[c].res = "none", nyxCall'[c].id = i,
         nyxCall'[c].todo = <<Do("add", i)>>, \A p \in {"mem", "disk"} : Whole(m, i, p)'
  PROVE  CallOK(S, c)'
<1>1. Do("add", i) \in Item /\ Do("add", i).act = "add" /\ Do("add", i).id = i
  BY DEF Do, Item, Works
<1>2. /\ nyxCall'[c].todo \in Seq(Item) /\ Len(nyxCall'[c].todo) = 1
      /\ nyxCall'[c].todo[1].act = "add" /\ nyxCall'[c].todo[1].id = i
  BY <1>1
<1>3. ItemOK(S, c, 1)'
  BY <1>2 DEF ItemOK, Erasures
<1>. QED BY <1>2, <1>3 DEF CallOK

LEMMA StepGetLook ==
  ASSUME NEW S, S \subseteq Nat, NyxInv(S), NEW c \in Callers, GetLook(c)
  PROVE  NyxInv(S)' /\ ServedWhole
<1>1. nyxCall[c].todo # <<>>
  BY DEF GetLook
<1>2. UNCHANGED <<store, latest, files, byTemplate, made, torn, deleted>>
  BY Zenon DEF GetLook
<1>3. Data(S) /\ CallsOK(S)
  BY DEF NyxInv
<1>4. Preserves(S) /\ Data(S)'
  BY <1>2, <1>3, DataStays DEF Data
<1>5. PICK m, i : m = nyxCall[c].m /\ i = latest
  OBVIOUS
<1>6. m \in Managers
  BY <1>1, <1>3, <1>5 DEF CallsOK, CallOK
<1>7. CASE Return(c, m, "error", 0)
  BY <1>3, <1>4, <1>7, CallReturns DEF NyxInv
<1>8. ASSUME i # 0, NEW t, Replan(c, i, t),
             t = IF files[m][i]["mem"] # "none" /\ files[m][i]["disk"] # "none"
                 THEN <<Do("add", i)>> ELSE DownloadPlan(i)
      PROVE  NyxInv(S)' /\ ServedWhole
  <2>1. i \in S /\ i \in Nat
    BY <1>3, <1>5, <1>8 DEF Data, PointerOK
  <2>2. /\ NyxShape' /\ \A d \in Callers : d # c => nyxCall'[d] = nyxCall[d]
        /\ IsCall(nyxCall'[c]) /\ nyxCall'[c].known \in BOOLEAN
        /\ nyxCall'[c].op \in NyxOps /\ nyxCall'[c].m = m /\ nyxCall'[c].m \in Managers
        /\ nyxCall'[c].id = i /\ nyxCall'[c].todo = t /\ nyxCall'[c].res = "none"
    <3>1. Replan(c, i, t)
      BY <1>8
    <3>2. /\ NyxShape' /\ \A d \in Callers : d # c => nyxCall'[d] = nyxCall[d]
          /\ IsCall(nyxCall'[c]) /\ nyxCall'[c].known \in BOOLEAN
          /\ nyxCall'[c].op = nyxCall[c].op /\ nyxCall'[c].op \in NyxOps
          /\ nyxCall'[c].m = nyxCall[c].m /\ nyxCall'[c].m \in Managers
          /\ nyxCall'[c].id = i /\ nyxCall'[c].todo = t /\ nyxCall'[c].res = "none"
      BY <1>1, <1>3, <3>1, Replans, Zenon
    <3>. QED BY <1>5, <3>2, Zenon
  <2>3. ASSUME files[m][i]["mem"] # "none" /\ files[m][i]["disk"] # "none"
        PROVE  CallOK(S, c)'
    <3>1. \A p \in {"mem", "disk"} : Whole(m, i, p)
      BY <1>3, <1>6, <2>1, <2>3 DEF Data, FilesOK, Part
    <3>2. \A p \in {"mem", "disk"} : Whole(m, i, p)'
      BY <1>4, <1>6, <2>1, <3>1 DEF Preserves, Part
    <3>3. nyxCall'[c].todo = <<Do("add", i)>>
      BY <1>8, <2>2, <2>3, Zenon
    <3>. QED BY <1>6, <2>1, <2>2, <3>2, <3>3, CallAdds, Zenon
  <2>4. ASSUME ~(files[m][i]["mem"] # "none" /\ files[m][i]["disk"] # "none")
        PROVE  CallOK(S, c)'
    <3>0. Ready(c, i)'
      BY <2>2, Zenon DEF Ready
    <3>1. nyxCall'[c].todo = Acts(DownloadActs, i)
      BY <1>8, <2>2, <2>4, Zenon DEF DownloadPlan, DownloadActs
    <3>2. "remove" \in Erasures
      BY DEF Erasures
    <3>3. \A k \in 1..Len(DownloadActs) :
            /\ InOrder(DownloadActs, k)
            /\ DownloadActs[k] \in Erasures => i \in deleted'
            /\ DownloadActs[k] \in {"remove", "clear"} => nyxCall'[c].op # "get"
            /\ DownloadActs[k] \in Puts \cup Fills \cup {"point", "add"} => i \in S
      BY <2>1, <3>2, DownloadOrder, Zenon
    <3>4. DownloadActs \in Seq(Works)
      BY DownloadOrder, Zenon
    <3>. QED BY <2>1, <3>0, <3>1, <3>3, <3>4, PlanOK, Zenon
  <2>5. CallOK(S, c)' => NyxInv(S)' /\ ServedWhole
    <3>1. nyxCall'[c].res # "ok"
      BY <2>2
    <3>. QED BY <1>3, <1>4, <2>2, <3>1, CallsTurn, NobodyServed, Zenon DEF NyxInv
  <2>. QED BY <2>3, <2>4, <2>5, Zenon
<1>. QED BY <1>5, <1>7, <1>8, Zenon DEF GetLook, Replan


(* A list that only erases what is being deleted, or writes nothing. *)
LEMMA ListErases ==
  ASSUME NEW S, NEW c, NEW t \in Seq(Item),
         IsCall(nyxCall'[c]), nyxCall'[c].known \in BOOLEAN, nyxCall'[c].id \in Nat,
         nyxCall'[c].m \in Managers, nyxCall'[c].op \in NyxOps, nyxCall'[c].op # "get",
         nyxCall'[c].res = "none", nyxCall'[c].todo = t,
         \A k \in 1..Len(t) : \/ t[k].act \in Erasures /\ t[k].id \in deleted' \cup {0}
                              \/ t[k].act \in {"unpoint", "clear"}
  PROVE  CallOK(S, c)'
<1>1. ASSUME NEW k \in 1..Len(t)
      PROVE  ItemOK(S, c, k)'
  BY DEF ItemOK, Erasures, Puts, Fills
<1>. QED BY <1>1 DEF CallOK

LEMMA ErasureIs ==
  ASSUME NEW x \in 1..4
  PROVE  <<"erase_mem", "erase_disk", "erase_json", "remove">>[x] \in Erasures
  BY DEF Erasures

LEMMA Quarters ==
  ASSUME NEW n \in Nat, NEW k \in 1..(4 * n)
  PROVE  ((k - 1) % 4) + 1 \in 1..4 /\ ((k - 1) \div 4) + 1 \in 1..n
  OBVIOUS

(* What the list of Invalidate consists of. *)
LEMMA InvalidateItems ==
  ASSUME NEW S, S \subseteq Nat, NEW m, byTemplate[m] \in Seq(Entry(S)), NEW t, t = InvalidatePlan(m)
  PROVE  /\ t \in Seq(Item)
         /\ \A k \in 1..Len(t) :
              \/ t[k].act \in Erasures /\ t[k].id \in Deletes(m, "invalidate", 0) \cup {0}
              \/ t[k].act \in {"unpoint", "clear"}
<1>. DEFINE Is(e) == \/ e.act \in Erasures /\ e.id \in Deletes(m, "invalidate", 0) \cup {0}
                     \/ e.act \in {"unpoint", "clear"}
<1>1. PICK cache, n : cache = byTemplate[m] /\ n = Len(cache)
  OBVIOUS
<1>2. cache \in Seq(Entry(S)) /\ n \in Nat /\ DOMAIN cache = 1..n
  BY <1>1
<1>3. ASSUME NEW j \in 1..n
      PROVE  (IF cache[j].known THEN cache[j].path ELSE 0) \in (Deletes(m, "invalidate", 0) \cup {0}) \cap Nat
  <2>1. cache[j] \in Entry(S)
    BY <1>2
  <2>2. cache[j].path \in Nat
    BY <2>1, Zenon DEF Entry
  <2>3. Deletes(m, "invalidate", 0) = {e.path : e \in {f \in Range(cache) : f.known}}
    BY <1>1 DEF Deletes
  <2>4. cache[j] \in Range(cache)
    BY <1>2 DEF Range
  <2>5. CASE cache[j].known
    <3>1. cache[j].path \in Deletes(m, "invalidate", 0)
      BY <2>3, <2>4, <2>5
    <3>. QED BY <2>2, <2>5, <3>1
  <2>6. CASE ~cache[j].known
    BY <2>6
  <2>. QED BY <2>5, <2>6
<1>4. ASSUME NEW act \in Erasures \cup {"unpoint", "clear"}, NEW i \in Nat,
             act \in Erasures => i \in Deletes(m, "invalidate", 0) \cup {0}
      PROVE  Do(act, i) \in Item /\ Is(Do(act, i))
  <2>1. Do(act, i).act = act /\ Do(act, i).id = i
    BY DEF Do
  <2>2. Do(act, i) \in Item
    BY DEF Do, Item, Works
  <2>. QED BY <1>4, <2>1, <2>2
<1>. DEFINE erasure == <<"erase_mem", "erase_disk", "erase_json", "remove">>
            Id(e) == IF e.known THEN e.path ELSE 0
            At4(k) == Do(erasure[((k - 1) % 4) + 1], Id(cache[((k - 1) \div 4) + 1]))
            Kth(k) == CASE k <= 4 * n -> At4(k) [] k = 4 * n + 1 -> Do("unpoint", 0) [] OTHER -> Do("clear", 0)
<1>5. t = [k \in 1..(4 * n + 2) |-> Kth(k)]
  BY <1>1 DEF InvalidatePlan
<1>6. ASSUME NEW k \in 1..(4 * n)
      PROVE  At4(k) \in Item /\ Is(At4(k))
  <2>1. PICK x, j : x = ((k - 1) % 4) + 1 /\ j = ((k - 1) \div 4) + 1
    OBVIOUS
  <2>2. x \in 1..4 /\ j \in 1..n
    BY <1>2, <2>1, Quarters
  <2>3. erasure[x] \in Erasures
    BY <2>2, ErasureIs
  <2>4. Id(cache[j]) \in (Deletes(m, "invalidate", 0) \cup {0}) \cap Nat
    BY <1>3, <2>2
  <2>5. PICK act, i : act = erasure[x] /\ i = Id(cache[j])
    OBVIOUS
  <2>6. Do(act, i) \in Item /\ Is(Do(act, i))
    BY <1>4, <2>3, <2>4, <2>5
  <2>. QED BY <2>1, <2>5, <2>6, Zenon
<1>. HIDE DEF At4, Is
<1>7. Do("unpoint", 0) \in Item /\ Is(Do("unpoint", 0)) /\ Do("clear", 0) \in Item /\ Is(Do("clear", 0))
  BY <1>4 DEF Erasures
<1>8. \A k \in 1..(4 * n + 2) : Kth(k) \in Item /\ Is(Kth(k))
  BY <1>2, <1>6, <1>7
<1>. HIDE DEF Kth
<1>9. t \in [1..(4 * n + 2) -> Item]
  BY <1>5, <1>8
<1>10. 4 * n + 2 \in Nat
  BY <1>2
<1>11. t \in Seq(Item) /\ Len(t) = 4 * n + 2
  BY <1>9, <1>10, Listed
<1>12. \A k \in 1..Len(t) : Is(t[k])
  BY <1>5, <1>8, <1>11, Zenon
<1>. QED BY <1>11, <1>12 DEF Is


LEMMA StepEnter ==
  ASSUME NEW S, S \subseteq Nat, 0 \notin S, NyxInv(S), NEW c \in Callers, NyxEnter(c, S)
  PROVE  NyxInv(S)' /\ ServedWhole
<1>. DEFINE Plan(op, m, i) == CASE op = "prepare" -> PreparePlan(i)
                                [] op = "save" -> SavePlan(i)
                                [] op = "delete" -> DeletePlan(i)
                                [] op = "invalidate" -> InvalidatePlan(m)
<1>0. PICK m, op, i : /\ m = nyxCall[c].m /\ op = nyxCall[c].op
                      /\ i = IF op \in {"prepare", "save"} THEN made + 1 ELSE nyxCall[c].id
  OBVIOUS
<1>1. /\ nyxCall[c].todo # <<>> /\ op # "get"
      /\ UNCHANGED <<store, latest, files, byTemplate, torn>>
  BY <1>0, Zenon DEF NyxEnter
<1>2. \/ Hit(m) /\ Return(c, m, "ok", Newest(m)) /\ UNCHANGED <<made, deleted>>
      \/ /\ i \in S \cup {0} /\ deleted' = deleted \cup Deletes(m, op, i)
         /\ made' = IF op \in {"prepare", "save"} THEN i ELSE made
         /\ Replan(c, i, Plan(op, m, i))
  BY <1>0, Zenon DEF NyxEnter, Replan
<1>. HIDE DEF Plan
<1>3. Data(S) /\ CallsOK(S) /\ made \in Nat
  BY DEF NyxInv, Data
<1>4. m \in Managers /\ op \in NyxOps /\ i \in Nat
  BY <1>0, <1>1, <1>3 DEF CallsOK, CallOK
<1>5. ASSUME Hit(m), Return(c, m, "ok", Newest(m)), UNCHANGED <<made, deleted>>
      PROVE  NyxInv(S)' /\ ServedWhole
  <2>1. PICK j : j = Newest(m)
    OBVIOUS
  <2>2. j \in S
    BY <1>3, <1>4, <1>5, <2>1, CachedWhole, Zenon DEF Data
  <2>3. Preserves(S) /\ Data(S)'
    BY <1>1, <1>3, <1>5, DataStays
  <2>4. j \in Nat /\ Return(c, m, "ok", j) /\ nyxCall[c].op # "get"
    BY <1>0, <1>1, <1>5, <2>1, <2>2
  <2>. QED BY <1>3, <2>3, <2>4, CallReturns, Zenon DEF NyxInv
<1>6. ASSUME i \in S \cup {0}, deleted' = deleted \cup Deletes(m, op, i),
             made' = IF op \in {"prepare", "save"} THEN i ELSE made,
             NEW t, t = Plan(op, m, i), Replan(c, i, t)
      PROVE  NyxInv(S)' /\ ServedWhole
  <2>1. deleted \subseteq deleted' /\ made' \in Nat
    BY <1>3, <1>4, <1>6
  <2>2. Preserves(S) /\ Data(S)'
    BY <1>1, <1>3, <2>1, DataStays, Zenon
  <2>3. /\ NyxShape' /\ \A d \in Callers : d # c => nyxCall'[d] = nyxCall[d]
        /\ IsCall(nyxCall'[c]) /\ nyxCall'[c].known \in BOOLEAN
        /\ nyxCall'[c].op = nyxCall[c].op /\ nyxCall'[c].op \in NyxOps
        /\ nyxCall'[c].m = nyxCall[c].m /\ nyxCall'[c].m \in Managers
        /\ nyxCall'[c].id = i /\ nyxCall'[c].todo = t /\ nyxCall'[c].res = "none"
    <3>1. CallsOK(S) /\ nyxCall[c].todo # <<>> /\ Replan(c, i, t)
      BY <1>1, <1>3, <1>6, Zenon
    <3>. QED BY <3>1, Replans, Zenon
  <2>4. nyxCall'[c].op = op
    BY <1>0, <2>3, Zenon
  <2>5. "remove" \in Erasures /\ Ready(c, i)'
    BY <2>3 DEF Erasures, Ready
  <2>6. ASSUME op \in {"prepare", "save"}
        PROVE  i \in S
    BY <1>0, <1>3, <1>6, <2>6
  <2>7. ASSUME op = "prepare"
        PROVE  CallOK(S, c)'
    <3>1. t = Acts(PrepareActs, i)
      BY <1>6, <2>7 DEF Plan, PreparePlan, PrepareActs
    <3>2. i \in S
      BY <2>6, <2>7
    <3>3. nyxCall'[c].todo = Acts(PrepareActs, i)
      BY <2>3, <3>1, Zenon
    <3>4. \A k \in 1..Len(PrepareActs) :
            /\ InOrder(PrepareActs, k)
            /\ PrepareActs[k] \in Erasures => i \in deleted'
            /\ PrepareActs[k] \in {"remove", "clear"} => nyxCall'[c].op # "get"
            /\ PrepareActs[k] \in Puts \cup Fills \cup {"point", "add"} => i \in S
      BY <2>5, <3>2, PrepareOrder, Zenon
    <3>5. PrepareActs \in Seq(Works)
      BY PrepareOrder, Zenon
    <3>. QED BY <1>4, <2>5, <3>3, <3>4, <3>5, PlanOK, Zenon
  <2>8. ASSUME op = "save"
        PROVE  CallOK(S, c)'
    <3>1. t = Acts(SaveActs, i)
      BY <1>6, <2>8 DEF Plan, SavePlan, SaveActs
    <3>2. i \in S
      BY <2>6, <2>8
    <3>3. nyxCall'[c].todo = Acts(SaveActs, i)
      BY <2>3, <3>1, Zenon
    <3>4. \A k \in 1..Len(SaveActs) :
            /\ InOrder(SaveActs, k)
            /\ SaveActs[k] \in Erasures => i \in deleted'
            /\ SaveActs[k] \in {"remove", "clear"} => nyxCall'[c].op # "get"
            /\ SaveActs[k] \in Puts \cup Fills \cup {"point", "add"} => i \in S
      BY <2>5, <3>2, SaveOrder, Zenon
    <3>5. SaveActs \in Seq(Works)
      BY SaveOrder, Zenon
    <3>. QED BY <1>4, <2>5, <3>3, <3>4, <3>5, PlanOK, Zenon
  <2>9. ASSUME op = "delete"
        PROVE  CallOK(S, c)'
    <3>1. t = Acts(DeleteActs, i)
      BY <1>6, <2>9 DEF Plan, DeletePlan, DeleteActs
    <3>2. i \in deleted'
      BY <1>6, <2>9 DEF Deletes
    <3>3. nyxCall'[c].todo = Acts(DeleteActs, i) /\ nyxCall'[c].op # "get"
      BY <1>1, <2>3, <2>4, <3>1, Zenon
    <3>4. \A k \in 1..Len(DeleteActs) :
            /\ InOrder(DeleteActs, k)
            /\ DeleteActs[k] \in Erasures => i \in deleted'
            /\ DeleteActs[k] \in {"remove", "clear"} => nyxCall'[c].op # "get"
            /\ DeleteActs[k] \in Puts \cup Fills \cup {"point", "add"} => i \in S
      BY <3>2, <3>3, DeleteOrder, Zenon
    <3>5. DeleteActs \in Seq(Works)
      BY DeleteOrder, Zenon
    <3>. QED BY <1>4, <2>5, <3>3, <3>4, <3>5, PlanOK, Zenon
  <2>10. ASSUME op = "invalidate"
         PROVE  CallOK(S, c)'
    <3>1. t = InvalidatePlan(m)
      BY <1>6, <2>10 DEF Plan
    <3>2. byTemplate[m] \in Seq(Entry(S))
      BY <1>3, <1>4 DEF Data, CacheOK
    <3>3. /\ t \in Seq(Item)
          /\ \A k \in 1..Len(t) :
               \/ t[k].act \in Erasures /\ t[k].id \in Deletes(m, "invalidate", 0) \cup {0}
               \/ t[k].act \in {"unpoint", "clear"}
      BY <3>1, <3>2, InvalidateItems, Zenon
    <3>4. Deletes(m, "invalidate", 0) \subseteq deleted'
      BY <1>6, <2>10 DEF Deletes
    <3>5. nyxCall'[c].op # "get" /\ nyxCall'[c].id \in Nat
      BY <1>1, <1>4, <2>3, <2>4, Zenon
    <3>6. \A k \in 1..Len(t) : \/ t[k].act \in Erasures /\ t[k].id \in deleted' \cup {0}
                               \/ t[k].act \in {"unpoint", "clear"}
      BY <3>3, <3>4
    <3>. QED BY <2>3, <3>3, <3>5, <3>6, ListErases, Zenon
  <2>11. CallOK(S, c)'
    BY <1>1, <1>4, <2>7, <2>8, <2>9, <2>10 DEF NyxOps
  <2>12. nyxCall'[c].res # "ok"
    BY <2>3
  <2>. QED BY <1>3, <2>2, <2>3, <2>11, <2>12, CallsTurn, NobodyServed, Zenon DEF NyxInv
<1>. QED BY <1>2, <1>5, <1>6

(* Every step of the managers keeps the invariant and serves whole files. *)
NyxNext(S) ==
  \/ \E c \in Callers, m \in Managers, op \in NyxOps, i \in Nat : NyxBegin(c, m, op, i)
  \/ \E c \in Callers : NyxStep(c, S)
  \/ \E m \in Managers : NyxRestart(m)

LEMMA NyxKeeps ==
  ASSUME NEW S, S \subseteq Nat, 0 \notin S, NyxInv(S), NyxNext(S)
  PROVE  NyxInv(S)' /\ ServedWhole
<1>1. CASE \E c \in Callers, m \in Managers, op \in NyxOps, i \in Nat : NyxBegin(c, m, op, i)
  BY <1>1, StepBegin, Zenon
<1>2. CASE \E m \in Managers : NyxRestart(m)
  BY <1>2, StepRestart, Zenon
<1>3. ASSUME NEW c \in Callers, NyxStep(c, S)
      PROVE  NyxInv(S)' /\ ServedWhole
  BY <1>3, StepEnter, StepGetEnter, StepGetJoin, StepGetAgain, StepGetLook, StepBuild, StepPut, StepPoint,
     StepCopy, StepAdd, StepDownload, StepDownloadJSON, StepErase, StepUnpoint, StepDrop, StepRemoveFiles,
     StepClear, Zenon DEF NyxStep
<1>. QED BY <1>1, <1>2, <1>3, Zenon DEF NyxNext

(* Steps of others change nothing here. *)
LEMMA NyxStutters ==
  ASSUME NEW S, NyxInv(S), UNCHANGED nyxVars
  PROVE  NyxInv(S)' /\ ServedWhole
<1>1. UNCHANGED <<store, latest, files, byTemplate, nyxCall, made, torn, deleted>>
  BY DEF nyxVars
<1>2. Preserves(S) /\ Data(S)'
  BY <1>1, DataStays DEF NyxInv, Data
<1>. QED BY <1>1, <1>2, CallsStay, Zenon DEF NyxInv


LEMMA NyxStarts ==
  ASSUME NEW S, NyxInit(S)
  PROVE  NyxInv(S)
<1>1. files = [m \in Managers |-> [i \in S |-> [p \in Part |-> "none"]]] /\ FilesOK(S)
  BY DEF NyxInit, FilesOK
<1>2. PointerOK(S) /\ made \in Nat
  BY DEF NyxInit, PointerOK
<1>3. CacheOK(S)
  <2>1. byTemplate = [m \in Managers |-> <<>>] /\ <<>> \in Seq(Entry(S))
    BY DEF NyxInit
  <2>2. byTemplate \in [Managers -> Seq(Entry(S))] /\ \A m \in Managers : Len(byTemplate[m]) = 0
    BY <2>1
  <2>. QED BY <2>2 DEF CacheOK
<1>4. NyxShape /\ \A c \in Callers : nyxCall[c] = NoCall
  BY DEF NyxInit, NyxShape
<1>5. ASSUME NEW c \in Callers
      PROVE  CallOK(S, c)
  <2>1. /\ IsCall(NoCall) /\ NoCall.todo = <<>> /\ NoCall.id = 0 /\ 0 \in Nat
        /\ NoCall.known \in BOOLEAN
    BY AnsweredIs DEF NoCall
  <2>2. nyxCall[c].todo \in Seq(Item) /\ Len(nyxCall[c].todo) = 0 /\ 1..0 = {}
    <3>1. nyxCall[c].todo = <<>>
      BY <1>4, <2>1, Zenon
    <3>2. <<>> \in Seq(Item) /\ Len(<<>>) = 0 /\ 1..0 = {}
      OBVIOUS
    <3>. QED BY <3>1, <3>2, Zenon
  <2>. QED BY <1>4, <2>1, <2>2 DEF CallOK
<1>. QED BY <1>1, <1>2, <1>3, <1>4, <1>5 DEF NyxInv, Data, CallsOK

=============================================================================
