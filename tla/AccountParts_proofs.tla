------------------------ MODULE AccountParts_proofs ------------------------
(***************************************************************************)
(* Proofs about the parts of signing in, for any number of users,          *)
(* administrators, requests, servers, rows and names:                      *)
(*   - codes and tokens: types, that a token takes effect once, that       *)
(*     superseded rows are used, that a code has a bounded number of       *)
(*     answers;                                                            *)
(*   - accounts: no two with one name or address, none without identity,   *)
(*     and a chosen password that only an overtaken request replaces;      *)
(*   - the status a guard believes: how old it may be;                     *)
(*   - an administrator's challenges: each lets in nobody once it is       *)
(*     deleted, and a bounded number of answers are told of;               *)
(*   - attempts to log in: no key admits more than its limit in a window,  *)
(*     though the store cleans up and drops counters.                      *)
(***************************************************************************)
EXTENDS AccountParts, Sequences, FiniteSetTheorems, WellFoundedInduction, TLAPS

-----------------------------------------------------------------------------
(* Rows and requests                                                       *)

\* Where a request is says which fields it has.
LEMMA RequestKinds ==
    ASSUME TypeOK, NEW r \in Requests
    PROVE  /\ request[r].at \in {"invalidate", "insert"} => request[r] \in Issuing
           /\ request[r].at \in {"wrong", "spend", "forget", "right", "bind", "use", "password"}
                => request[r] \in Answering
           /\ request[r].at \in {"idle", "invalidate", "insert", "wrong", "spend", "forget",
                                 "right", "bind", "use", "password"}
BY DEF TypeOK, Idle, Issuing, Answering

\* Marking rows used makes just the rows of the set used that were active.
LEMMA Marking ==
    ASSUME TypeOK, NEW S
    PROVE  /\ MarkUsed(S) \in [Tokens -> Row \cup {NoRow}]
           /\ \A t \in Tokens :
                /\ (MarkUsed(S)[t].state = "active") <=> (Active(t) /\ t \notin S)
                /\ (MarkUsed(S)[t] = NoRow) <=> (row[t] = NoRow)
                /\ row[t] # NoRow => /\ MarkUsed(S)[t].owner = row[t].owner
                                     /\ MarkUsed(S)[t].type = row[t].type
                /\ row[t].state = "used" => MarkUsed(S)[t].state = "used"
                /\ MarkUsed(S)[t].state # "used" => MarkUsed(S)[t] = row[t]
<1>1. ASSUME NEW t \in Tokens
      PROVE  row[t] \in Row \cup {NoRow} /\ (Active(t) => row[t] \in Row)
  BY DEF TypeOK, Active, Row, NoRow
<1>2. ASSUME NEW t \in Tokens, Active(t)
      PROVE  /\ [row[t] EXCEPT !.state = "used"] \in Row
             /\ [row[t] EXCEPT !.state = "used"].state = "used"
             /\ [row[t] EXCEPT !.state = "used"].owner = row[t].owner
             /\ [row[t] EXCEPT !.state = "used"].type = row[t].type
  BY <1>1, <1>2 DEF Row
<1>3. \A t \in Tokens : MarkUsed(S)[t] = IF t \in S /\ Active(t)
                                         THEN [row[t] EXCEPT !.state = "used"] ELSE row[t]
  BY DEF MarkUsed
<1>4. MarkUsed(S) \in [Tokens -> Row \cup {NoRow}]
  BY <1>1, <1>2 DEF MarkUsed
<1>5. \A t \in Row : t # NoRow /\ NoRow.state = "none"
  BY DEF Row, NoRow
<1> QED
  BY <1>1, <1>2, <1>3, <1>4, <1>5 DEF Active, Row

\* A request that marks its own token used sets out from a token.
LEMMA TokenOf ==
    ASSUME TypeOK, NEW r \in Requests,
           request[r].at \in {"wrong", "spend", "forget", "right", "bind", "use", "password"}
    PROVE  request[r].token \in Tokens
BY RequestKinds DEF Answering

\* A request that moves on keeps its token.
LEMMA Moved ==
    ASSUME TypeOK, NEW r \in Requests, NEW place, Moves(r, place), request[r].at # "idle"
    PROVE  /\ request'[r].at = place
           /\ \A q \in Requests : q # r => request'[q] = request[q]
           /\ request[r] \in Answering => request'[r].token = request[r].token
<1>1. request[r] \in Issuing \/ request[r] \in Answering
  BY DEF TypeOK, Idle
<1>2. /\ request'[r] = [request[r] EXCEPT !.at = place]
      /\ \A q \in Requests : q # r => request'[q] = request[q]
  BY DEF TypeOK, Moves
<1> QED
  BY <1>1, <1>2 DEF Issuing, Answering

LEMMA TypeInit == Init => TypeOK
BY CodesAssumption DEF Init, TypeOK, NoRow, Idle, Tokens

LEMMA TypeStep == TypeOK /\ [Next]_vars => TypeOK'
<1> SUFFICES ASSUME TypeOK, [Next]_vars PROVE TypeOK'
  OBVIOUS
<1> USE CodesAssumption
<1>1. ASSUME NEW r \in Requests, NEW u \in Users, NEW e \in Emails,
             RequestVerification(r, u, e)
      PROVE  TypeOK'
  BY <1>1 DEF TypeOK, RequestVerification, Goes, Issuing, Types, codes, ghosts
<1>2. ASSUME NEW r \in Requests, NEW u \in Users, RequestReset(r, u) PROVE TypeOK'
  BY <1>2 DEF TypeOK, RequestReset, Goes, Issuing, Types, codes, ghosts
<1>3. ASSUME NEW r \in Requests, NEW u \in Users, NEW right \in BOOLEAN, Answer(r, u, right)
      PROVE  TypeOK'
  <2>1. PICK t \in Tokens : request' = [request EXCEPT
            ![r] = [at |-> IF right THEN "right" ELSE "wrong", token |-> t]]
    BY <1>3 DEF Answer, Readable, Of, Goes
  <2>2. [at |-> IF right THEN "right" ELSE "wrong", token |-> t] \in Answering
    BY DEF Answering
  <2> QED
    BY <1>3, <2>1, <2>2 DEF TypeOK, Answer, codes, ghosts
<1>4. ASSUME NEW r \in Requests, Invalidate(r) PROVE TypeOK'
  <2>1. request[r] \in Issuing
    BY <1>4, RequestKinds DEF Invalidate, At
  <2>2. [request[r] EXCEPT !.at = "insert"] \in Issuing
    BY <2>1 DEF Issuing
  <2>3. request' \in [Requests -> {Idle} \cup Issuing \cup Answering]
    BY <1>4, <2>2 DEF TypeOK, Invalidate, Moves
  <2>4. row' \in [Tokens -> Row \cup {NoRow}]
    BY <1>4, Marking DEF Invalidate
  <2> QED
    BY <1>4, <2>3, <2>4 DEF TypeOK, Invalidate, ghosts
<1>5. ASSUME NEW r \in Requests, Insert(r) PROVE TypeOK'
  <2> DEFINE t == issued + 1
  <2>1. request[r] \in Issuing /\ t \in Tokens
    BY <1>5, RequestKinds DEF Insert, At
  <2>2. row' \in [Tokens -> Row \cup {NoRow}]
    BY <1>5, <2>1 DEF TypeOK, Insert, Row, Issuing
  <2>3. older' \in [Tokens -> SUBSET Tokens] /\ issued' \in 0..MaxTokens
    BY <1>5, <2>1 DEF TypeOK, Insert, Issuing, Tokens
  <2>4. ASSUME NEW q \in Requests
        PROVE  request'[q] \in {Idle} \cup Issuing \cup Answering
    <3>1. CASE q = r
      BY <1>5, <3>1 DEF Insert
    <3>2. CASE q # r /\ At(q, "insert")
      <4>1. request[q] \in Issuing
        BY <3>2, RequestKinds DEF At
      <4>2. [request[q] EXCEPT !.since = @ \cup {t}] \in Issuing
        BY <2>1, <4>1 DEF Issuing
      <4> QED
        BY <1>5, <3>2, <4>2 DEF Insert
    <3>3. CASE q # r /\ ~At(q, "insert")
      BY <1>5, <3>3 DEF Insert, TypeOK
    <3> QED
      BY <3>1, <3>2, <3>3
  <2>5. request' \in [Requests -> {Idle} \cup Issuing \cup Answering]
    BY <1>5, <2>4 DEF Insert
  <2> QED
    BY <1>5, <2>2, <2>3, <2>5 DEF TypeOK, Insert
<1>6. ASSUME NEW r \in Requests,
             \/ CountWrong(r) \/ Spend(r) \/ Forget(r) \/ ForgetRight(r)
             \/ Bind(r) \/ Use(r) \/ SetPassword(r) \/ Fail(r)
      PROVE  TypeOK'
  <2>1. ASSUME NEW place \in {"spend", "forget", "bind", "password"},
               request[r] \in Answering
        PROVE  [request[r] EXCEPT !.at = place] \in Answering
    BY <2>1 DEF Answering
  <2>2. request' \in [Requests -> {Idle} \cup Issuing \cup Answering]
    BY <1>6, <2>1, RequestKinds
      DEF TypeOK, CountWrong, Spend, Forget, ForgetRight, Bind, Use, SetPassword, Fail,
          Goes, Moves, At
  <2>3. row' \in [Tokens -> Row \cup {NoRow}]
    BY <1>6, Marking
      DEF TypeOK, CountWrong, Spend, Forget, ForgetRight, Bind, Use, SetPassword, Fail, codes
  <2>4. count' \in [Tokens -> Nat] /\ told' \in [Tokens -> Nat] /\ applied' \in [Tokens -> Nat]
    <3>1. ~Fail(r) => request[r].token \in Tokens
      BY <1>6, TokenOf
        DEF CountWrong, Spend, Forget, ForgetRight, Bind, Use, SetPassword, At
    <3>2. CASE Fail(r) \/ Spend(r) \/ Use(r)
      BY <3>2 DEF TypeOK, Fail, Spend, Use, codes, ghosts
    <3>3. CASE CountWrong(r)
      BY <3>3, TokenOf DEF TypeOK, CountWrong, At
    <3>4. CASE Forget(r) \/ ForgetRight(r)
      BY <3>4 DEF TypeOK, Forget, ForgetRight, ghosts
    <3>5. CASE Bind(r) \/ SetPassword(r)
      BY <3>5, TokenOf DEF TypeOK, Bind, SetPassword, codes, At
    <3> QED
      BY <1>6, <3>2, <3>3, <3>4, <3>5
  <2>5. email' \in [Users -> Emails \cup {NoEmail}] /\ bound' \in [Users -> 0..MaxTokens]
    <3>1. CASE Bind(r)
      <4>1. request[r].token \in Tokens
        BY <3>1, TokenOf DEF Bind, At
      <4>2. Active(request[r].token) => row[request[r].token] \in Row
        BY <4>1 DEF TypeOK, Active, NoRow
      <4> QED
        BY <3>1, <4>1, <4>2 DEF TypeOK, Bind, Row
    <3>2. CASE ~Bind(r)
      BY <1>6, <3>2
        DEF TypeOK, CountWrong, Spend, Forget, ForgetRight, Use, SetPassword, Fail, codes, ghosts
    <3> QED
      BY <3>1, <3>2
  <2>6. UNCHANGED <<expired, issued, older>>
    BY <1>6 DEF CountWrong, Spend, Forget, ForgetRight, Bind, Use, SetPassword, Fail, codes, ghosts
  <2> QED
    BY <2>2, <2>3, <2>4, <2>5, <2>6 DEF TypeOK
<1>7. ASSUME NEW r \in Requests, NEW t \in Tokens, FindReset(r, t) PROVE TypeOK'
  BY <1>7 DEF TypeOK, FindReset, Goes, Answering, codes, ghosts
<1>8. ASSUME NEW t \in Tokens, Expire(t) \/ DropCounter(t) PROVE TypeOK'
  BY <1>8 DEF TypeOK, Expire, DropCounter, ghosts
<1>9. CASE UNCHANGED vars
  BY <1>9 DEF TypeOK, vars, codes, ghosts
<1> QED
  BY <1>1, <1>2, <1>3, <1>4, <1>5, <1>6, <1>7, <1>8, <1>9 DEF Next

\* Rows, requests and counters keep their types.
THEOREM TypeCorrect == Spec => []TypeOK
BY TypeInit, TypeStep, PTL DEF Spec

-----------------------------------------------------------------------------
(* A token takes effect once                                               *)

\* Request q has had its conditional update of t succeed, and goes on.
Holds(q, t) == request[q].at = "password" /\ request[q].token = t

\* A row not used has taken no effect and is held by nobody; one that is held
\* is held by one request and has taken none yet; rows not issued are blank.
Once ==
    /\ \A t \in Tokens :
         /\ t > issued => row[t] = NoRow
         /\ row[t].state # "used" => applied[t] = 0 /\ \A q \in Requests : ~Holds(q, t)
         /\ applied[t] <= 1
    /\ \A t \in Tokens, q \in Requests : Holds(q, t) =>
         applied[t] = 0 /\ \A p \in Requests : Holds(p, t) => p = q

LEMMA OnceInit == Init => Once
BY CodesAssumption DEF Init, Once, Holds, Tokens, Idle

\* Steps that use rows, or none, and after which no more requests hold a row.
LEMMA OnceQuiet ==
    ASSUME TypeOK, Once, UNCHANGED <<issued, applied>>, NEW S,
           row' = row \/ row' = MarkUsed(S),
           \A q \in Requests, t \in Tokens : Holds(q, t)' => Holds(q, t)
    PROVE  Once'
<1>1. \A t \in Tokens : /\ (row'[t] = NoRow) <=> (row[t] = NoRow)
                        /\ row'[t].state # "used" => row[t].state # "used"
  BY Marking
<1> QED
  BY <1>1 DEF Once

LEMMA OnceStep == TypeOK /\ Once /\ [Next]_vars => Once'
<1> SUFFICES ASSUME TypeOK, Once, [Next]_vars PROVE Once'
  OBVIOUS
<1> USE CodesAssumption
<1>1. ASSUME NEW r \in Requests, NEW u \in Users,
             \/ \E e \in Emails : RequestVerification(r, u, e)
             \/ RequestReset(r, u) \/ \E right \in BOOLEAN : Answer(r, u, right)
      PROVE  Once'
  <2>1. UNCHANGED <<row, issued, applied>>
    BY <1>1 DEF RequestVerification, RequestReset, Answer, codes, ghosts
  <2>2. \A q \in Requests, t \in Tokens : Holds(q, t)' => Holds(q, t)
    BY <1>1 DEF RequestVerification, RequestReset, Answer, Goes, Holds, TypeOK
  <2> QED
    BY <2>1, <2>2, OnceQuiet
<1>2. ASSUME NEW r \in Requests,
             \/ Invalidate(r) \/ CountWrong(r) \/ Spend(r) \/ Forget(r)
             \/ ForgetRight(r) \/ Fail(r)
      PROVE  Once'
  <2>1. UNCHANGED <<issued, applied>> /\ \E S : row' = row \/ row' = MarkUsed(S)
    BY <1>2 DEF Invalidate, CountWrong, Spend, Forget, ForgetRight, Fail, codes, ghosts
  <2>2. ASSUME NEW q \in Requests, NEW t \in Tokens, Holds(q, t)'
        PROVE  Holds(q, t)
    <3>1. CASE Goes(r, Idle)
      BY <2>2, <3>1 DEF Goes, Holds, TypeOK, Idle
    <3>2. CASE \E place \in {"insert", "spend", "forget", "bind"} : Moves(r, place)
      <4>1. request[r].at # "idle"
        BY <1>2 DEF Invalidate, CountWrong, Spend, Forget, ForgetRight, Fail, At
      <4> QED
        BY <2>2, <3>2, <4>1, Moved DEF Holds
    <3> QED
      BY <1>2, <3>1, <3>2 DEF Invalidate, CountWrong, Spend, Forget, ForgetRight, Fail
  <2> QED
    BY <2>1, <2>2, OnceQuiet
<1>3. ASSUME NEW r \in Requests, Insert(r) PROVE Once'
  <2>1. \A q \in Requests, t \in Tokens : Holds(q, t)' => Holds(q, t)
    BY <1>3 DEF Insert, Holds, At, Idle
  <2>2. issued + 1 \in Tokens /\ issued \in Nat /\ row[issued + 1] = NoRow
    BY <1>3 DEF Insert, Once, TypeOK, Tokens
  <2>3. \A t \in Tokens \ {issued + 1} : row'[t] = row[t]
    BY <1>3 DEF Insert, TypeOK
  <2>4. issued' = issued + 1 /\ applied' = applied
    BY <1>3 DEF Insert
  <2>5. row[issued + 1].state # "used"
    BY <2>2 DEF NoRow
  <2> QED
    BY <2>1, <2>2, <2>3, <2>4, <2>5 DEF Once, Tokens
<1>4. ASSUME NEW r \in Requests, Bind(r) PROVE Once'
  <2> DEFINE t == request[r].token
             S == {t} \cup Of(row[t].owner, "verification")
  <2>1. t \in Tokens
    BY <1>4, TokenOf DEF Bind, At
  <2>2. \A q \in Requests, s \in Tokens : Holds(q, s)' => Holds(q, s)
    BY <1>4 DEF Bind, Goes, Holds, TypeOK, Idle
  <2>3. CASE Active(t) /\ row' = MarkUsed(S) /\ applied' = [applied EXCEPT ![t] = @ + 1]
    <3>1. row'[t].state # "active" /\ row'[t].state # "none"
      <4>1. row[t] # NoRow /\ NoRow.state = "none" /\ \A x \in Row : x.state # "none"
        BY <2>3 DEF Active, NoRow, Row
      <4>2. MarkUsed(S)[t] \in Row /\ MarkUsed(S)[t].state # "active"
        BY <2>1, <4>1, Marking
      <4> QED
        BY <2>3, <4>1, <4>2
    <3>2. row'[t].state = "used"
      BY <2>1, <2>3, <3>1, Marking DEF Row, NoRow
    <3>3. applied[t] = 0 /\ applied'[t] = 1 /\ \A q \in Requests : ~Holds(q, t)
      BY <2>1, <2>3 DEF Once, Active, TypeOK
    <3>4. \A s \in Tokens : /\ (row'[s] = NoRow) <=> (row[s] = NoRow)
                            /\ row'[s].state # "used" => row[s].state # "used"
      BY <2>3, Marking
    <3>5. \A s \in Tokens : s # t => applied'[s] = applied[s]
      BY <2>3 DEF TypeOK
    <3>6. issued' = issued
      BY <1>4 DEF Bind
    <3> HIDE DEF t, S
    <3> QED
      BY <2>1, <2>2, <3>2, <3>3, <3>4, <3>5, <3>6 DEF Once
  <2>4. CASE UNCHANGED <<row, applied>>
    BY <1>4, <2>2, <2>4, OnceQuiet DEF Bind
  <2> QED
    BY <1>4, <2>3, <2>4 DEF Bind
<1>5. ASSUME NEW r \in Requests, Use(r) PROVE Once'
  <2>1. PICK t \in Tokens : t = request[r].token
    BY <1>5, TokenOf DEF Use, At
  <2>2. issued' = issued /\ applied' = applied /\ row' = MarkUsed({t})
    BY <1>5, <2>1 DEF Use, ghosts
  <2>3. CASE ~Active(t)
    <3>1. \A q \in Requests, s \in Tokens : Holds(q, s)' => Holds(q, s)
      BY <1>5, <2>1, <2>3 DEF Use, Goes, Holds, TypeOK, Idle
    <3> QED
      BY <2>2, <3>1, OnceQuiet
  <2>4. CASE Active(t)
    <3>1. /\ request'[r].token = t
          /\ \A q \in Requests : q # r => request'[q] = request[q]
      BY <1>5, <2>1, <2>4, Moved, RequestKinds DEF Use, At
    <3>2. applied[t] = 0 /\ \A q \in Requests : ~Holds(q, t)
      BY <2>4 DEF Once, Active
    <3>3. \A s \in Tokens : /\ (row'[s] = NoRow) <=> (row[s] = NoRow)
                            /\ row'[s].state # "used" => row[s].state # "used"
      BY <2>2, Marking
    <3>4. row'[t].state = "used"
      <4>1. row[t] # NoRow
        BY <2>4 DEF Active, NoRow
      <4> QED
        BY <2>2, <4>1, Marking DEF Row
    <3>5. ASSUME NEW q \in Requests, NEW s \in Tokens, Holds(q, s)'
          PROVE  (q = r /\ s = t) \/ (q # r /\ s # t /\ Holds(q, s))
      BY <3>1, <3>2, <3>5 DEF Holds
    <3>6. ASSUME NEW s \in Tokens
          PROVE  /\ s > issued' => row'[s] = NoRow
                 /\ row'[s].state # "used" => applied'[s] = 0 /\ \A q \in Requests : ~Holds(q, s)'
                 /\ applied'[s] <= 1
      BY <2>2, <3>3, <3>4, <3>5 DEF Once
    <3>7. ASSUME NEW s \in Tokens, NEW q \in Requests, Holds(q, s)'
          PROVE  applied'[s] = 0 /\ \A p \in Requests : Holds(p, s)' => p = q
      BY <2>2, <3>2, <3>5, <3>7 DEF Once
    <3> QED
      BY <3>6, <3>7 DEF Once
  <2> QED
    BY <2>3, <2>4
<1>6. ASSUME NEW r \in Requests, SetPassword(r) PROVE Once'
  <2>1. PICK t \in Tokens : Holds(r, t) /\ t = request[r].token
    BY <1>6, TokenOf DEF SetPassword, At, Holds
  <2>2. \A q \in Requests, s \in Tokens : Holds(q, s)' => q # r /\ Holds(q, s)
    BY <1>6 DEF SetPassword, Goes, Holds, TypeOK, Idle
  <2>3. applied[t] = 0 /\ applied'[t] = 1 /\ \A s \in Tokens : s # t => applied'[s] = applied[s]
    BY <1>6, <2>1 DEF SetPassword, Once, TypeOK
  <2>4. UNCHANGED <<row, issued>> /\ row[t].state = "used"
    BY <1>6, <2>1 DEF SetPassword, Once, codes
  <2>5. \A q \in Requests : ~Holds(q, t)'
    BY <2>1, <2>2 DEF Once
  <2> QED
    BY <2>1, <2>2, <2>3, <2>4, <2>5 DEF Once
<1>7. ASSUME NEW r \in Requests, NEW t \in Tokens, FindReset(r, t) PROVE Once'
  <2>1. UNCHANGED <<row, issued, applied>>
    BY <1>7 DEF FindReset, codes, ghosts
  <2>2. \A q \in Requests, s \in Tokens : Holds(q, s)' => Holds(q, s)
    BY <1>7 DEF FindReset, Goes, Holds, TypeOK
  <2> QED
    BY <2>1, <2>2, OnceQuiet
<1>8. ASSUME \/ UNCHANGED vars
             \/ \E t \in Tokens : Expire(t) \/ DropCounter(t)
      PROVE  Once'
  BY <1>8, OnceQuiet DEF Expire, DropCounter, vars, codes, ghosts, Holds
<1> QED
  BY <1>1, <1>2, <1>3, <1>4, <1>5, <1>6, <1>7, <1>8 DEF Next

LEMMA OnceAlways == Spec => [](TypeOK /\ Once)
<1>1. TypeOK /\ Once /\ [Next]_vars => (TypeOK /\ Once)'
  BY TypeStep, OnceStep
<1> QED
  BY <1>1, TypeInit, OnceInit, PTL DEF Spec

\* No token takes effect twice.
THEOREM TokensApplyOnce == Spec => []AppliedOnce
<1>1. Once => AppliedOnce
  BY DEF Once, AppliedOnce
<1> QED
  BY <1>1, OnceAlways, PTL

-----------------------------------------------------------------------------
(* Superseded rows                                                         *)

Same(s, t) == row[s].owner = row[t].owner /\ row[s].type = row[t].type

\* A request about to insert has seen every row that is in force for its user
\* and type inserted since it invalidated the others.
Seen ==
    \A r \in Requests, s \in Tokens :
        (/\ request[r].at = "insert" /\ Active(s)
         /\ row[s].owner = request[r].owner /\ row[s].type = request[r].type)
        => s \in request[r].since

Superseded == SupersededIsUsed /\ Seen /\ \A u \in Users : bound[u] <= issued

LEMMA SupersededInit == Init => Superseded
BY CodesAssumption DEF Init, Superseded, SupersededIsUsed, Seen, Active, NoRow, Idle, Tokens

\* Steps that insert no row, bind no address, and bring no request to insert.
LEMMA SupersededQuiet ==
    ASSUME TypeOK, Superseded, UNCHANGED <<issued, older, bound>>, NEW S,
           row' = row \/ row' = MarkUsed(S),
           \A q \in Requests : request'[q].at = "insert" => request'[q] = request[q]
    PROVE  Superseded'
<1>1. \A t \in Tokens : Active(t)' => Active(t) /\ row'[t] = row[t]
  BY Marking DEF Active
<1>2. SupersededIsUsed'
  BY <1>1 DEF Superseded, SupersededIsUsed
<1>3. Seen'
  BY <1>1 DEF Superseded, Seen
<1> QED
  BY <1>2, <1>3 DEF Superseded

LEMMA SupersededStep == TypeOK /\ Once /\ Superseded /\ [Next]_vars => Superseded'
<1> SUFFICES ASSUME TypeOK, Once, Superseded, [Next]_vars PROVE Superseded'
  OBVIOUS
<1> USE CodesAssumption
<1>1. ASSUME NEW r \in Requests, NEW u \in Users,
             \/ \E e \in Emails : RequestVerification(r, u, e)
             \/ RequestReset(r, u) \/ \E right \in BOOLEAN : Answer(r, u, right)
      PROVE  Superseded'
  <2>1. UNCHANGED <<row, issued, older, bound>>
    BY <1>1 DEF RequestVerification, RequestReset, Answer, codes, ghosts
  <2>2. \A q \in Requests : request'[q].at = "insert" => request'[q] = request[q]
    BY <1>1 DEF RequestVerification, RequestReset, Answer, Goes, TypeOK
  <2> QED
    BY <2>1, <2>2, SupersededQuiet
<1>2. ASSUME NEW r \in Requests, Invalidate(r) PROVE Superseded'
  <2> DEFINE S == Of(request[r].owner, request[r].type)
  <2>1. UNCHANGED <<issued, older, bound>> /\ row' = MarkUsed(S)
    BY <1>2 DEF Invalidate, ghosts
  <2>2. \A t \in Tokens : Active(t)' => Active(t) /\ row'[t] = row[t] /\ t \notin S
    BY <2>1, Marking DEF Active
  <2>3. SupersededIsUsed'
    BY <2>1, <2>2 DEF Superseded, SupersededIsUsed
  <2>4. request[r] \in Issuing /\ request'[r] = [request[r] EXCEPT !.at = "insert"]
    BY <1>2, RequestKinds DEF Invalidate, Moves, At, TypeOK
  <2>5. request'[r].owner = request[r].owner /\ request'[r].type = request[r].type
    BY <2>4 DEF Issuing
  <2>6. \A q \in Requests : q # r => request'[q] = request[q]
    BY <1>2 DEF Invalidate, Moves, TypeOK
  <2>7. ASSUME NEW q \in Requests, NEW s \in Tokens, request'[q].at = "insert", Active(s)',
               row'[s].owner = request'[q].owner, row'[s].type = request'[q].type
        PROVE  s \in request'[q].since
    <3>1. CASE q = r
      <4>1. row[s] # NoRow
        BY <2>2, <2>7 DEF Active, NoRow
      <4>2. s \in S
        BY <2>2, <2>5, <2>7, <3>1, <4>1 DEF Of
      <4> QED
        BY <2>2, <2>7, <4>2
    <3>2. CASE q # r
      BY <2>2, <2>6, <2>7, <3>2 DEF Superseded, Seen
    <3> QED
      BY <3>1, <3>2
  <2>8. Seen'
    BY <2>7 DEF Seen
  <2> QED
    BY <2>1, <2>3, <2>8 DEF Superseded
<1>3. ASSUME NEW r \in Requests, Insert(r) PROVE Superseded'
  <2>1. PICK t \in Tokens : t = issued + 1
    BY <1>3 DEF Insert
  <2>2. /\ issued \in Nat /\ issued' = t /\ row[t] = NoRow /\ bound' = bound
        /\ \A s \in Tokens : row[s] # NoRow => s < t
    BY <1>3, <2>1 DEF Insert, Once, TypeOK, Tokens
  <2>3. /\ request[r].at = "insert" /\ request[r] \in Issuing
        /\ row'[t].state = "active" /\ row'[t].owner = request[r].owner
        /\ row'[t].type = request[r].type
        /\ older'[t] = request[r].since
    BY <1>3, <2>1, RequestKinds DEF Insert, At, TypeOK
  <2>4. \A s \in Tokens : s # t => row'[s] = row[s] /\ older'[s] = older[s]
    BY <1>3, <2>1 DEF Insert, TypeOK
  <2>5. \A s \in Tokens : s # t /\ Active(s)' => Active(s) /\ s < t
    BY <2>2, <2>4 DEF Active, NoRow
  <2>6. ASSUME NEW a \in Tokens, NEW b \in Tokens, Active(a)', Active(b)', a < b,
               row'[a].owner = row'[b].owner, row'[a].type = row'[b].type
        PROVE  a \in older'[b]
    <3>1. CASE b = t
      <4>1. a # t /\ Active(a) /\ row'[a] = row[a]
        BY <2>4, <2>5, <2>6, <3>1 DEF Tokens
      <4> QED
        BY <2>3, <2>6, <3>1, <4>1 DEF Superseded, Seen
    <3>2. CASE b # t
      <4>1. a # t
        BY <2>5, <2>6, <3>2 DEF Tokens
      <4> QED
        BY <2>4, <2>5, <2>6, <3>2, <4>1 DEF Superseded, SupersededIsUsed
    <3> QED
      BY <3>1, <3>2
  <2>7. ASSUME NEW a \in Tokens, Active(a)', row'[a].type = "verification"
        PROVE  a > bound'[row'[a].owner]
    <3>1. CASE a = t
      <4>1. request[r].owner \in Users
        BY <2>3 DEF Issuing
      <4> QED
        BY <2>1, <2>2, <2>3, <3>1, <4>1 DEF Superseded, TypeOK
    <3>2. CASE a # t
      BY <2>2, <2>4, <2>5, <2>7, <3>2 DEF Superseded, SupersededIsUsed
    <3> QED
      BY <3>1, <3>2
  <2>8. SupersededIsUsed'
    BY <2>6, <2>7 DEF SupersededIsUsed
  <2>9. ASSUME NEW q \in Requests, NEW s \in Tokens, request'[q].at = "insert", Active(s)',
               row'[s].owner = request'[q].owner, row'[s].type = request'[q].type
        PROVE  s \in request'[q].since
    <3>1. q # r /\ At(q, "insert")
      BY <1>3, <2>9 DEF Insert, Idle, At
    <3>2. request[q] \in Issuing /\ request'[q] = [request[q] EXCEPT !.since = @ \cup {t}]
      BY <1>3, <2>1, <3>1, RequestKinds DEF Insert, At
    <3>3. /\ request'[q].since = request[q].since \cup {t}
          /\ request'[q].owner = request[q].owner /\ request'[q].type = request[q].type
      BY <3>2 DEF Issuing
    <3>4. CASE s = t
      BY <3>3, <3>4
    <3>5. CASE s # t
      BY <2>4, <2>5, <2>9, <3>1, <3>3, <3>5 DEF Superseded, Seen, At
    <3> QED
      BY <3>4, <3>5
  <2>10. Seen'
    BY <2>9 DEF Seen
  <2>11. \A u \in Users : bound'[u] <= issued'
    BY <2>1, <2>2 DEF Superseded, TypeOK
  <2> QED
    BY <2>8, <2>10, <2>11 DEF Superseded
<1>4. ASSUME NEW r \in Requests,
             \/ CountWrong(r) \/ Spend(r) \/ Forget(r) \/ ForgetRight(r)
             \/ Use(r) \/ SetPassword(r) \/ Fail(r)
      PROVE  Superseded'
  <2>1. /\ UNCHANGED <<issued, older, bound>>
        /\ \E S : row' = row \/ row' = MarkUsed(S)
    BY <1>4 DEF CountWrong, Spend, Forget, ForgetRight, Use, SetPassword, Fail, codes, ghosts
  <2>2. \A q \in Requests : request'[q].at = "insert" => request'[q] = request[q]
    <3>1. CASE Goes(r, Idle)
      BY <3>1 DEF Goes, TypeOK, Idle
    <3>2. CASE \E place \in {"spend", "forget", "bind", "password"} : Moves(r, place)
      <4>1. request[r].at # "idle"
        BY <1>4 DEF CountWrong, Spend, Forget, ForgetRight, Use, SetPassword, Fail, At
      <4> QED
        BY <3>2, <4>1, Moved
    <3> QED
      BY <1>4, <3>1, <3>2 DEF CountWrong, Spend, Forget, ForgetRight, Use, SetPassword, Fail
  <2> QED
    BY <2>1, <2>2, SupersededQuiet
<1>5. ASSUME NEW r \in Requests, Bind(r) PROVE Superseded'
  <2>1. PICK t \in Tokens : t = request[r].token
    BY <1>5, TokenOf DEF Bind, At
  <2>2. \A q \in Requests : request'[q].at = "insert" => request'[q] = request[q]
    BY <1>5 DEF Bind, Goes, TypeOK, Idle
  <2>3. CASE UNCHANGED <<email, row, applied, bound>>
    BY <1>5, <2>2, <2>3, SupersededQuiet DEF Bind
  <2>4. CASE /\ Active(t) /\ bound' = [bound EXCEPT ![row[t].owner] = issued]
             /\ row' = MarkUsed({t} \cup Of(row[t].owner, "verification"))
    <3>1. PICK u \in Users : u = row[t].owner
      BY <2>4 DEF Active, TypeOK, Row, NoRow
    <3>2. \A s \in Tokens : Active(s)' => /\ Active(s) /\ row'[s] = row[s]
                                          /\ s \notin Of(u, "verification")
      BY <2>4, <3>1, Marking DEF Active
    <3>3. UNCHANGED <<issued, older>> /\ bound'[u] = issued
          /\ \A v \in Users : v # u => bound'[v] = bound[v]
      BY <1>5, <2>4, <3>1 DEF Bind, TypeOK
    <3>4. ASSUME NEW s \in Tokens, Active(s)', row'[s].type = "verification"
          PROVE  s > bound'[row'[s].owner]
      <4>1. row[s] \in Row /\ row[s] # NoRow
        BY <3>2, <3>4 DEF Active, TypeOK, NoRow
      <4>2. row[s].owner # u /\ row[s].owner \in Users
        BY <3>2, <3>4, <4>1 DEF Of, Row
      <4> QED
        BY <3>2, <3>3, <3>4, <4>2 DEF Superseded, SupersededIsUsed
    <3>5. SupersededIsUsed'
      BY <3>2, <3>3, <3>4 DEF Superseded, SupersededIsUsed
    <3>6. Seen'
      BY <2>2, <3>2 DEF Superseded, Seen
    <3>7. \A v \in Users : bound'[v] <= issued'
      BY <3>3 DEF Superseded, TypeOK
    <3> QED
      BY <3>5, <3>6, <3>7 DEF Superseded
  <2> QED
    BY <1>5, <2>1, <2>3, <2>4 DEF Bind
<1>6. ASSUME NEW r \in Requests, NEW t \in Tokens, FindReset(r, t) PROVE Superseded'
  <2>1. UNCHANGED <<row, issued, older, bound>>
    BY <1>6 DEF FindReset, codes, ghosts
  <2>2. \A q \in Requests : request'[q].at = "insert" => request'[q] = request[q]
    BY <1>6 DEF FindReset, Goes, TypeOK
  <2> QED
    BY <2>1, <2>2, SupersededQuiet
<1>7. ASSUME \/ UNCHANGED vars
             \/ \E t \in Tokens : Expire(t) \/ DropCounter(t)
      PROVE  Superseded'
  BY <1>7, SupersededQuiet DEF Expire, DropCounter, vars, codes, ghosts
<1> QED
  BY <1>1, <1>2, <1>3, <1>4, <1>5, <1>6, <1>7 DEF Next

\* Rows in force together were issued together, and none that is older than
\* its user's address stays in force.
THEOREM SupersededRowsAreUsed == Spec => []SupersededIsUsed
<1>1. Init => Superseded
  BY SupersededInit
<1>2. Superseded => SupersededIsUsed
  BY DEF Superseded
<1>3. TypeOK /\ Once /\ Superseded /\ [Next]_vars => Superseded'
  BY SupersededStep
<1> QED
  BY <1>1, <1>2, <1>3, OnceAlways, PTL DEF Spec

-----------------------------------------------------------------------------
(* Wrong answers                                                           *)

\* Requests that have compared a wrong answer with t, and not counted it yet.
Wrong(t) == {q \in Requests : request[q].at = "wrong" /\ request[q].token = t}

\* While a code is in force its counter holds what was told of it, and stays;
\* once it is used, each answer on its way may still be told once.
Attempts ==
    \A t \in Tokens :
        /\ row[t].state # "used" =>
             /\ told[t] <= count[t] /\ told[t] <= MaxAttempts - 1
             /\ \A q \in Requests : ~(request[q].at = "forget" /\ request[q].token = t)
        /\ row[t].state = "used" =>
             told[t] + Cardinality(Wrong(t)) <= (MaxAttempts - 1) + (Cardinality(Requests) - 1)

\* The code a request has compared, or read, is a row.
Known ==
    \A q \in Requests :
        request[q].at \in {"wrong", "spend", "forget", "right", "bind", "use", "password"}
          => row[request[q].token] # NoRow

LEMMA KnownInit == Init => Known
BY DEF Init, Known, Idle

LEMMA KnownStep == TypeOK /\ Known /\ [Next]_vars => Known'
<1> SUFFICES ASSUME TypeOK, Known, [Next]_vars PROVE Known'
  OBVIOUS
<1> DEFINE Places == {"wrong", "spend", "forget", "right", "bind", "use", "password"}
           Kept == \A t \in Tokens : row[t] # NoRow => row'[t] # NoRow
<1>a. \A q \in Requests : request[q].at \in Places => request[q].token \in Tokens
  BY TokenOf
<1>b. ASSUME Kept, NEW r \in Requests,
             \A q \in Requests : q # r => \/ request'[q] = request[q]
                                          \/ request'[q].at \notin Places,
             request'[r].at \in Places =>
               \/ request[r].at \in Places /\ request'[r].token = request[r].token
               \/ request'[r].token \in Tokens /\ row[request'[r].token] # NoRow
      PROVE  Known'
  BY <1>a, <1>b DEF Known
<1>c. ASSUME NEW S, row' = row \/ row' = MarkUsed(S) PROVE Kept
  BY <1>c, Marking
<1> HIDE DEF Places, Kept
<1>1. ASSUME NEW r \in Requests, NEW u \in Users,
             \/ \E e \in Emails : RequestVerification(r, u, e)
             \/ RequestReset(r, u)
      PROVE  Known'
  <2>1. row' = row /\ request'[r].at \notin Places
        /\ \A q \in Requests : q # r => request'[q] = request[q]
    BY <1>1 DEF RequestVerification, RequestReset, Goes, TypeOK, codes, ghosts, Places
  <2> QED
    BY <1>b, <1>c, <2>1
<1>2. ASSUME NEW r \in Requests, NEW u \in Users, NEW right \in BOOLEAN, Answer(r, u, right)
      PROVE  Known'
  <2>1. row' = row /\ request'[r].token \in Tokens /\ row[request'[r].token] # NoRow
        /\ \A q \in Requests : q # r => request'[q] = request[q]
    BY <1>2 DEF Answer, Readable, Of, Goes, TypeOK, codes
  <2> QED
    BY <1>b, <1>c, <2>1
<1>3. ASSUME NEW r \in Requests, NEW t \in Tokens, FindReset(r, t) PROVE Known'
  <2>1. row' = row /\ request'[r].token = t /\ row[t] # NoRow
        /\ \A q \in Requests : q # r => request'[q] = request[q]
    BY <1>3 DEF FindReset, Goes, TypeOK, codes
  <2> QED
    BY <1>b, <1>c, <2>1
<1>4. ASSUME NEW r \in Requests,
             \/ Invalidate(r) \/ CountWrong(r) \/ Spend(r) \/ Forget(r) \/ ForgetRight(r)
             \/ Bind(r) \/ Use(r) \/ SetPassword(r) \/ Fail(r)
      PROVE  Known'
  <2>1. \E S : row' = row \/ row' = MarkUsed(S)
    BY <1>4 DEF Invalidate, CountWrong, Spend, Forget, ForgetRight, Bind, Use, SetPassword,
               Fail, codes
  <2>2. CASE Goes(r, Idle)
    <3>1. request'[r].at \notin Places /\ \A q \in Requests : q # r => request'[q] = request[q]
      BY <2>2 DEF Goes, Idle, TypeOK, Places
    <3> QED
      BY <1>b, <1>c, <2>1, <3>1
  <2>3. CASE \E place \in {"spend", "forget", "bind", "password"} : Moves(r, place)
    <3>1. (request[r].at \in Places /\ request[r] \in Answering) \/ Invalidate(r)
      BY <1>4, <2>3, RequestKinds
        DEF CountWrong, Spend, Forget, ForgetRight, Bind, Use, SetPassword, Fail, Goes, Moves,
            At, Places, TypeOK, Idle
    <3> QED
      BY <1>b, <1>c, <2>1, <2>3, <3>1, Moved DEF Invalidate, At, Places
  <2>4. CASE Invalidate(r)
    <3>1. request'[r].at = "insert" /\ \A q \in Requests : q # r => request'[q] = request[q]
      BY <2>4, Moved DEF Invalidate, At
    <3> QED
      BY <1>b, <1>c, <2>1, <3>1 DEF Places
  <2> QED
    BY <1>4, <2>2, <2>3, <2>4
      DEF CountWrong, Spend, Forget, ForgetRight, Bind, Use, SetPassword, Fail
<1>5. ASSUME NEW r \in Requests, Insert(r) PROVE Known'
  <2>1. Kept
    BY <1>5 DEF Insert, TypeOK, NoRow, Kept
  <2>2. ASSUME NEW q \in Requests
        PROVE  request'[q] = request[q] \/ request'[q].at \notin Places
    <3>1. CASE q = r
      BY <1>5, <3>1 DEF Insert, Idle, Places
    <3>2. CASE q # r /\ At(q, "insert")
      <4>1. request[q] \in Issuing /\ request[q].at = "insert"
        BY <3>2, RequestKinds DEF At
      <4>2. request'[q] = [request[q] EXCEPT !.since = @ \cup {issued + 1}]
        BY <1>5, <3>2 DEF Insert
      <4> QED
        BY <4>1, <4>2 DEF Issuing, Places
    <3>3. CASE q # r /\ ~At(q, "insert")
      BY <1>5, <3>3 DEF Insert
    <3> QED
      BY <3>1, <3>2, <3>3
  <2> QED
    BY <1>a, <2>1, <2>2 DEF Known, Kept, Places
<1>6. ASSUME \/ UNCHANGED vars
             \/ \E t \in Tokens : Expire(t) \/ DropCounter(t)
      PROVE  Known'
  BY <1>6 DEF Known, Expire, DropCounter, vars, codes
<1> QED
  BY <1>1, <1>2, <1>3, <1>4, <1>5, <1>6 DEF Next

LEMMA SomeRequests == Cardinality(Requests) \in Nat /\ Cardinality(Requests) >= 1
BY CodesAssumption, FS_CardinalityType, FS_EmptySet

LEMMA WithoutOne ==
    ASSUME NEW W \in SUBSET Requests
    PROVE  /\ Cardinality(W) \in Nat
           /\ \A V \in SUBSET W : Cardinality(V) \in Nat /\ Cardinality(V) <= Cardinality(W)
           /\ \A r \in W : Cardinality(W \ {r}) = Cardinality(W) - 1
           /\ \A r \in Requests : r \notin W => Cardinality(W) <= Cardinality(Requests) - 1
<1>1. IsFiniteSet(W) /\ Cardinality(W) \in Nat
  BY CodesAssumption, FS_Subset, FS_CardinalityType
<1>2. \A V \in SUBSET W : Cardinality(V) \in Nat /\ Cardinality(V) <= Cardinality(W)
  BY <1>1, FS_Subset, FS_CardinalityType
<1>3. \A r \in W : Cardinality(W \ {r}) = Cardinality(W) - 1
  BY <1>1, FS_RemoveElement
<1>4. ASSUME NEW r \in Requests, r \notin W
      PROVE  Cardinality(W) <= Cardinality(Requests) - 1
  <2>1. W \subseteq Requests \ {r} /\ IsFiniteSet(Requests \ {r})
    BY <1>4, CodesAssumption, FS_RemoveElement
  <2>2. Cardinality(Requests \ {r}) = Cardinality(Requests) - 1
    BY CodesAssumption, FS_RemoveElement
  <2> QED
    BY <2>1, <2>2, FS_Subset
<1> QED
  BY <1>1, <1>2, <1>3, <1>4

LEMMA AttemptsInit == Init => Attempts
BY CodesAssumption DEF Init, Attempts, NoRow, Idle

\* A step of r that counts no answer: no row but one it marks changes, r has
\* no wrong answer before or after, and what was told grows nowhere.
LEMMA AttemptsQuiet ==
    ASSUME TypeOK, TypeOK', Attempts, NEW S, row' = row \/ row' = MarkUsed(S),
           NEW r \in Requests, request[r].at # "wrong", request'[r].at # "wrong",
           \A q \in Requests : q # r => request'[q] = request[q],
           \A t \in Tokens : told'[t] <= told[t],
           \A t \in Tokens : row'[t].state # "used" => told'[t] <= count'[t],
           \A t \in Tokens : request'[r].at = "forget" /\ request'[r].token = t
                                => row'[t].state = "used"
    PROVE  Attempts'
<1> SUFFICES ASSUME NEW t \in Tokens
             PROVE  /\ row'[t].state # "used" =>
                         /\ told'[t] <= count'[t] /\ told'[t] <= MaxAttempts - 1
                         /\ \A q \in Requests : ~(request'[q].at = "forget" /\ request'[q].token = t)
                    /\ row'[t].state = "used" =>
                         told'[t] + Cardinality(Wrong(t)') <= (MaxAttempts - 1) + (Cardinality(Requests) - 1)
  BY DEF Attempts
<1>1. row[t].state = "used" => row'[t].state = "used"
  BY Marking
<1>2. Wrong(t)' = Wrong(t) /\ Wrong(t) \in SUBSET Requests /\ r \notin Wrong(t)
  BY DEF Wrong
<1>3. Cardinality(Wrong(t)) \in Nat /\ Cardinality(Wrong(t)) <= Cardinality(Requests) - 1
  BY <1>2, WithoutOne
<1>4. told[t] \in Nat /\ told'[t] \in Nat /\ MaxAttempts \in Nat
  BY CodesAssumption DEF TypeOK
<1>5. CASE row[t].state # "used"
  <2>1. told'[t] <= MaxAttempts - 1
    BY <1>4, <1>5 DEF Attempts
  <2> QED
    BY <1>2, <1>3, <1>4, <1>5, <2>1, SomeRequests DEF Attempts
<1>6. CASE row[t].state = "used"
  BY <1>1, <1>2, <1>3, <1>4, <1>6, SomeRequests DEF Attempts
<1> QED
  BY <1>5, <1>6

\* A step that leaves the rows' states, tells nothing, and sends no request to
\* count an answer or to empty the counter of a code in force.
LEMMA AttemptsLess ==
    ASSUME TypeOK, TypeOK', Attempts,
           \A s \in Tokens : row'[s].state = "used" <=> row[s].state = "used",
           \A s \in Tokens : told'[s] <= told[s],
           \A s \in Tokens : row[s].state # "used" => told'[s] <= count'[s],
           \A q \in Requests : \/ request'[q] = request[q]
                               \/ request'[q].at \notin {"wrong", "forget"}
    PROVE  Attempts'
<1> SUFFICES ASSUME NEW t \in Tokens
             PROVE  /\ row'[t].state # "used" =>
                         /\ told'[t] <= count'[t] /\ told'[t] <= MaxAttempts - 1
                         /\ \A q \in Requests : ~(request'[q].at = "forget" /\ request'[q].token = t)
                    /\ row'[t].state = "used" =>
                         told'[t] + Cardinality(Wrong(t)') <= (MaxAttempts - 1) + (Cardinality(Requests) - 1)
  BY DEF Attempts
<1>1. Wrong(t) \in SUBSET Requests /\ Wrong(t)' \in SUBSET Wrong(t)
  BY DEF Wrong
<1>2. /\ Cardinality(Wrong(t)) \in Nat /\ Cardinality(Wrong(t)') \in Nat
      /\ Cardinality(Wrong(t)') <= Cardinality(Wrong(t))
  BY <1>1, WithoutOne
<1>3. told[t] \in Nat /\ told'[t] \in Nat /\ told'[t] <= told[t] /\ MaxAttempts \in Nat
  BY CodesAssumption DEF TypeOK
<1> QED
  BY <1>2, <1>3, SomeRequests DEF Attempts

LEMMA AttemptsStep == TypeOK /\ TypeOK' /\ Once /\ Known /\ Attempts /\ [Next]_vars => Attempts'
<1> SUFFICES ASSUME TypeOK, TypeOK', Once, Known, Attempts, [Next]_vars PROVE Attempts'
  OBVIOUS
<1> USE CodesAssumption
<1>0. \A t \in Tokens : row[t].state # "used" => told[t] <= count[t]
  BY DEF Attempts
<1>1. ASSUME NEW r \in Requests, NEW u \in Users,
             \/ \E e \in Emails : RequestVerification(r, u, e)
             \/ RequestReset(r, u)
      PROVE  Attempts'
  <2>1. /\ UNCHANGED <<row, told, count>> /\ request[r].at # "wrong"
        /\ request'[r].at = "invalidate"
        /\ \A q \in Requests : q # r => request'[q] = request[q]
    BY <1>1 DEF RequestVerification, RequestReset, Goes, At, TypeOK, codes, ghosts
  <2>2. \A t \in Tokens : told'[t] <= told[t]
    BY <2>1 DEF TypeOK
  <2> QED
    BY <1>0, <2>1, <2>2, AttemptsQuiet
<1>2. ASSUME NEW r \in Requests, NEW u \in Users, NEW right \in BOOLEAN, Answer(r, u, right)
      PROVE  Attempts'
  <2>1. PICK t \in Tokens : /\ Active(t)
                            /\ request'[r] = [at |-> IF right THEN "right" ELSE "wrong", token |-> t]
    BY <1>2 DEF Answer, Readable, Of, Goes, TypeOK
  <2>2. \A q \in Requests : q # r => request'[q] = request[q]
    BY <1>2 DEF Answer, Goes, TypeOK
  <2>3. UNCHANGED <<row, told, count>> /\ request[r].at = "idle"
    BY <1>2 DEF Answer, At, codes, ghosts
  <2>4. \A s \in Tokens : s # t => Wrong(s)' = Wrong(s)
    BY <2>1, <2>2, <2>3 DEF Wrong
  <2>5. row[t].state # "used"
    BY <2>1 DEF Active
  <2>6. \A q \in Requests, s \in Tokens :
          request'[q].at = "forget" /\ request'[q].token = s
            => request[q].at = "forget" /\ request[q].token = s
    BY <2>1, <2>2
  <2> QED
    BY <2>3, <2>4, <2>5, <2>6 DEF Attempts
<1>3. ASSUME NEW r \in Requests, Invalidate(r) \/ Spend(r) \/ Use(r) \/ SetPassword(r) \/ Bind(r)
      PROVE  Attempts'
  <2>1. /\ UNCHANGED <<told, count>> /\ request[r].at \notin {"wrong", "idle"}
        /\ \E S : row' = row \/ row' = MarkUsed(S)
    BY <1>3 DEF Invalidate, Spend, Use, SetPassword, Bind, At, codes, ghosts
  <2>2. CASE Goes(r, Idle)
    <3>1. request'[r].at = "idle" /\ \A q \in Requests : q # r => request'[q] = request[q]
      BY <2>2 DEF Goes, TypeOK, Idle
    <3>2. \A t \in Tokens : row'[t].state # "used" => row[t].state # "used"
      BY <2>1, Marking
    <3>3. \A t \in Tokens : told'[t] <= told[t]
      BY <2>1 DEF TypeOK
    <3> QED
      BY <1>0, <2>1, <3>1, <3>2, <3>3, AttemptsQuiet
  <2>3. CASE \E place \in {"insert", "password"} : Moves(r, place)
    <3>1. request'[r].at \in {"insert", "password"}
          /\ \A q \in Requests : q # r => request'[q] = request[q]
      BY <2>1, <2>3, Moved
    <3>2. \A t \in Tokens : row'[t].state # "used" => row[t].state # "used"
      BY <2>1, Marking
    <3>3. \A t \in Tokens : told'[t] <= told[t]
      BY <2>1 DEF TypeOK
    <3> QED
      BY <1>0, <2>1, <3>1, <3>2, <3>3, AttemptsQuiet
  <2>4. CASE Spend(r)
    <3>1. PICK t \in Tokens : t = request[r].token
      BY <2>4, TokenOf DEF Spend, At
    <3>2. /\ request'[r].at = "forget" /\ request'[r].token = t
          /\ \A q \in Requests : q # r => request'[q] = request[q]
      BY <2>1, <2>4, <3>1, Moved, RequestKinds DEF Spend, At
    <3>3. \A s \in Tokens : row'[s].state # "used" => row[s].state # "used"
      BY <2>1, Marking
    <3>4. row' = MarkUsed({t})
      BY <2>4, <3>1 DEF Spend
    <3>5. row[t] # NoRow
      BY <2>4, <3>1 DEF Spend, Known, At
    <3>6. row'[t].state = "used"
      BY <3>4, <3>5, Marking DEF Row
    <3>7. \A s \in Tokens : told'[s] <= told[s]
      BY <2>1 DEF TypeOK
    <3> QED
      BY <1>0, <2>1, <3>2, <3>3, <3>4, <3>6, <3>7, AttemptsQuiet
  <2> QED
    BY <1>3, <2>2, <2>3, <2>4 DEF Invalidate, Use, SetPassword, Bind
<1>4. ASSUME NEW r \in Requests, Forget(r) PROVE Attempts'
  <2>1. PICK t \in Tokens : t = request[r].token
    BY <1>4, TokenOf DEF Forget, At
  <2>2. row[t].state = "used"
    BY <1>4, <2>1 DEF Forget, At, Attempts
  <2>3. /\ row' = row /\ told' = told
        /\ \A s \in Tokens : s # t => count'[s] = count[s]
        /\ \A q \in Requests : request'[q] = request[q] \/ request'[q].at = "idle"
    BY <1>4, <2>1 DEF Forget, Goes, Idle, ghosts, TypeOK
  <2>4. \A s \in Tokens : told[s] <= told[s]
    BY DEF TypeOK
  <2> QED
    BY <1>0, <2>2, <2>3, <2>4, AttemptsLess
<1>5. ASSUME NEW r \in Requests, ForgetRight(r) PROVE Attempts'
  <2>1. PICK t \in Tokens : t = request[r].token
    BY <1>5, TokenOf DEF ForgetRight, At
  <2>2. /\ row' = row /\ request[r].at = "right" /\ Moves(r, "bind")
        /\ told' = [told EXCEPT ![t] = 0] /\ count' = [count EXCEPT ![t] = 0]
    BY <1>5, <2>1 DEF ForgetRight, At
  <2>3. \A s \in Tokens : told'[s] <= told[s] /\ (row[s].state # "used" => told'[s] <= count'[s])
    BY <1>0, <2>2 DEF TypeOK
  <2>4. \A q \in Requests : request'[q] = request[q] \/ request'[q].at = "bind"
    BY <2>2, Moved
  <2> QED
    BY <2>2, <2>3, <2>4, AttemptsLess
<1>6. ASSUME NEW r \in Requests, Fail(r) \/ \E t \in Tokens : FindReset(r, t)
      PROVE  Attempts'
  <2>1. /\ UNCHANGED <<row, told, count>>
        /\ \A q \in Requests : request'[q] = request[q] \/ request'[q].at \in {"idle", "use"}
    BY <1>6 DEF Fail, FindReset, Goes, Idle, codes, ghosts, TypeOK
  <2>2. \A s \in Tokens : told'[s] <= told[s]
    BY <2>1 DEF TypeOK
  <2> QED
    BY <1>0, <2>1, <2>2, AttemptsLess
<1>7. ASSUME NEW r \in Requests, Insert(r) PROVE Attempts'
  <2>1. /\ UNCHANGED <<told, count>>
        /\ \A s \in Tokens : row'[s].state = "used" <=> row[s].state = "used"
    <3>1. row[issued + 1] = NoRow
      BY <1>7 DEF Insert, Once, TypeOK, Tokens
    <3> QED
      BY <1>7, <3>1 DEF Insert, TypeOK, NoRow
  <2>2. ASSUME NEW q \in Requests
        PROVE  request'[q] = request[q] \/ request'[q].at \in {"idle", "insert"}
    <3>1. CASE q = r
      BY <1>7, <3>1 DEF Insert, Idle
    <3>2. CASE q # r /\ At(q, "insert")
      <4>1. request[q] \in Issuing /\ request[q].at = "insert"
        BY <3>2, RequestKinds DEF At
      <4>2. request'[q] = [request[q] EXCEPT !.since = @ \cup {issued + 1}]
        BY <1>7, <3>2 DEF Insert
      <4> QED
        BY <4>1, <4>2 DEF Issuing
    <3>3. CASE q # r /\ ~At(q, "insert")
      BY <1>7, <3>3 DEF Insert
    <3> QED
      BY <3>1, <3>2, <3>3
  <2>3. \A s \in Tokens : told'[s] <= told[s]
    BY <2>1 DEF TypeOK
  <2> QED
    BY <1>0, <2>1, <2>2, <2>3, AttemptsLess
<1>8. ASSUME NEW r \in Requests, CountWrong(r) PROVE Attempts'
  <2>1. PICK t \in Tokens : t = request[r].token
    BY <1>8, TokenOf DEF CountWrong, At
  <2>2. PICK n \in Nat :
          /\ n = IF count[t] < MaxAttempts THEN count[t] + 1 ELSE count[t]
          /\ row' = row /\ count' = [count EXCEPT ![t] = n]
          /\ IF n < MaxAttempts
             THEN told' = [told EXCEPT ![t] = @ + 1] /\ Goes(r, Idle)
             ELSE Moves(r, "spend") /\ told' = told
    <3>1. (IF count[t] < MaxAttempts THEN count[t] + 1 ELSE count[t]) \in Nat
      BY DEF TypeOK
    <3> QED
      BY <1>8, <2>1, <3>1 DEF CountWrong
  <2>3. request[r].at = "wrong" /\ request'[r].at \in {"idle", "spend"}
        /\ \A q \in Requests : q # r => request'[q] = request[q]
    <3>1. CASE Goes(r, Idle)
      BY <1>8, <3>1 DEF CountWrong, At, Goes, Idle, TypeOK
    <3>2. CASE Moves(r, "spend")
      BY <1>8, <3>2, Moved DEF CountWrong, At
    <3> QED
      BY <2>2, <3>1, <3>2
  <2>4. /\ Wrong(t) \in SUBSET Requests /\ r \in Wrong(t) /\ Wrong(t)' = Wrong(t) \ {r}
        /\ \A s \in Tokens : s # t => Wrong(s)' = Wrong(s)
    BY <2>1, <2>3 DEF Wrong
  <2>5. Cardinality(Wrong(t)) \in Nat /\ Cardinality(Wrong(t)') = Cardinality(Wrong(t)) - 1
    BY <2>4, WithoutOne
  <2>6. /\ told[t] \in Nat /\ count[t] \in Nat
        /\ told'[t] \in {told[t], told[t] + 1} /\ (told'[t] = told[t] + 1 => n < MaxAttempts)
        /\ n >= count[t] /\ (n < MaxAttempts => n = count[t] + 1) /\ count'[t] = n
    BY <2>2 DEF TypeOK
  <2>7. \A s \in Tokens : s # t => told'[s] = told[s] /\ count'[s] = count[s]
    BY <2>2 DEF TypeOK
  <2>8. \A q \in Requests, s \in Tokens :
          request'[q].at = "forget" /\ request'[q].token = s
            => request[q].at = "forget" /\ request[q].token = s
    BY <2>3
  <2>9. row[t].state # "used" => told'[t] <= count'[t] /\ told'[t] <= MaxAttempts - 1
    BY <1>0, <2>6 DEF Attempts
  <2>10. row[t].state = "used" =>
           told'[t] + Cardinality(Wrong(t)') <= (MaxAttempts - 1) + (Cardinality(Requests) - 1)
    BY <2>5, <2>6, SomeRequests DEF Attempts
  <2>11. ASSUME NEW s \in Tokens
         PROVE  /\ row'[s].state # "used" =>
                     /\ told'[s] <= count'[s] /\ told'[s] <= MaxAttempts - 1
                     /\ \A q \in Requests : ~(request'[q].at = "forget" /\ request'[q].token = s)
                /\ row'[s].state = "used" =>
                     told'[s] + Cardinality(Wrong(s)') <= (MaxAttempts - 1) + (Cardinality(Requests) - 1)
    <3>1. CASE s = t
      BY <2>2, <2>8, <2>9, <2>10, <3>1 DEF Attempts
    <3>2. CASE s # t
      BY <2>2, <2>4, <2>7, <2>8, <3>2 DEF Attempts
    <3> QED
      BY <3>1, <3>2
  <2> QED
    BY <2>11 DEF Attempts
<1>9. ASSUME \/ UNCHANGED vars
             \/ \E t \in Tokens : Expire(t) \/ DropCounter(t)
      PROVE  Attempts'
  <2>1. row' = row /\ request' = request
    BY <1>9 DEF Expire, DropCounter, vars, codes
  <2>2. \A s \in Tokens : told'[s] <= told[s] /\ (row[s].state # "used" => told'[s] <= count'[s])
    BY <1>0, <1>9 DEF Expire, DropCounter, vars, codes, ghosts, TypeOK
  <2> QED
    BY <2>1, <2>2, AttemptsLess
<1> QED
  BY <1>1, <1>2, <1>3, <1>4, <1>5, <1>6, <1>7, <1>8, <1>9 DEF Next

\* A code is told wrong fewer than MaxAttempts times, but for the requests
\* that had compared their answers when it was spent: confirmEmailVerification
\* counts in the rate-limit store after it has read the row.
THEOREM AnswersAreBounded == Spec => []AttemptsBounded
<1>1. TypeOK /\ Attempts => AttemptsBounded
  <2> SUFFICES ASSUME TypeOK, Attempts, NEW t \in Tokens
               PROVE  told[t] <= (MaxAttempts - 1) + (Cardinality(Requests) - 1)
    BY DEF AttemptsBounded
  <2>1. Wrong(t) \in SUBSET Requests
    BY DEF Wrong
  <2>2. Cardinality(Wrong(t)) \in Nat
    BY <2>1, WithoutOne
  <2> QED
    BY <2>2, SomeRequests, CodesAssumption DEF Attempts, TypeOK
<1>2. Spec => [](TypeOK /\ Once)
  BY TypeCorrect, OnceAlways, PTL
<1>3. TypeOK /\ TypeOK' /\ Once /\ Known /\ Attempts /\ [Next]_vars => Known' /\ Attempts'
  BY KnownStep, AttemptsStep
<1> QED
  BY <1>1, <1>2, <1>3, KnownInit, AttemptsInit, PTL DEF Spec

-----------------------------------------------------------------------------
(* Smallest elements                                                       *)

\* Every set of natural numbers but the empty one has a smallest element.
LEMMA Smallest ==
    ASSUME NEW S \in SUBSET Nat, S # {}
    PROVE  \E x \in S : \A y \in S : x <= y
<1> DEFINE R == OpToRel(<, Nat)
<1>1. IsWellFoundedOn(R, Nat)
  BY NatLessThanWellFounded
<1>2. \A x, y \in Nat : x < y => <<x, y>> \in R
  BY DEF OpToRel
<1> HIDE DEF R
<1>3. PICK x \in S : \A y \in S : ~(<<y, x>> \in R)
  BY <1>1, WFMin, Zenon
<1>4. SUFFICES ASSUME NEW y \in S PROVE x <= y
  BY Zenon
<1>5. ~(y < x) /\ x \in Nat /\ y \in Nat
  BY <1>2, <1>3, Zenon
<1> QED
  BY <1>5, SMT

-----------------------------------------------------------------------------
(* Users and identities: what requests refer to                            *)

\* Where a request is and what it carries.
LinkToken == [target : Identity!UserIds, profile : Profiles]
Signer ==
    {Identity!Idle}
    \cup [at : {"register"}, name : Names]
    \cup [at : {"profile"}, profile : Profiles, linking : {0} \cup Identity!UserIds]
    \cup [at : {"signup"}, profile : Profiles]
    \cup [at : {"byProvider", "byUser", "link"}, user : Identity!UserIds,
          profile : Profiles, session : BOOLEAN, none : BOOLEAN]
    \cup [at : {"password"}, user : Identity!UserIds, none : BOOLEAN,
          issues : SUBSET LinkToken]
Acting == {"byProvider", "byUser", "link", "password"}

\* A request acts for a user there is, and signs up with an address.
Grounded(q) ==
    /\ q.at \in Acting => Identity!Exists(q.user)
    /\ q.at = "profile" => IF q.linking = 0 THEN q.profile.email # "none"
                                            ELSE Identity!Exists(q.linking)
    /\ q.at = "signup" => q.profile.email # "none"
    /\ q.at = "password" => \A t \in q.issues : Identity!Exists(t.target)

RowsSound ==
    /\ user \in [Identity!UserIds -> [account : Names \cup {"none"}, email : Names \cup {"none"},
                                      password : {"none", "initial", "own"}]]
    /\ identities \subseteq {Identity!Linked(u, p) : u \in Identity!UserIds, p \in Profiles}
    /\ made \in [Identity!UserIds -> SUBSET {Identity!Key(p) : p \in Profiles}]
    /\ \A u \in Identity!UserIds : /\ Identity!Exists(u) => user[u].account \in Names
                                   /\ made[u] # {} => Identity!Exists(u)
    /\ Identity!AccountsWhole

TokensSound ==
    /\ tokens \subseteq LinkToken
    /\ \A t \in tokens : Identity!Exists(t.target)

\* A request that believes a user has no password is noted as overtaken once
\* the user has one of their own.
Note(q, r) ==
    (/\ q.at \in Acting /\ q.none
     /\ user[q.user].password = "own") => r \in overtaken

SignersSound ==
    /\ signer \in [Requests -> Signer]
    /\ overtaken \subseteq Requests
    /\ \A r \in Requests : Grounded(signer[r]) /\ Note(signer[r], r)

IdentityInv == RowsSound /\ TokensSound /\ SignersSound

\* The fields of a request by where it is.
LEMMA SignerFields ==
    ASSUME NEW q \in Signer
    PROVE  /\ q.at = "register" => q.name \in Names
           /\ q.at = "profile" => q.profile \in Profiles /\ q.linking \in {0} \cup Identity!UserIds
           /\ q.at = "signup" => q.profile \in Profiles
           /\ q.at \in Acting => q.user \in Identity!UserIds /\ q.none \in BOOLEAN
           /\ q.at \in {"byProvider", "byUser", "link"} =>
                 /\ q.profile \in Profiles /\ q.session \in BOOLEAN
                 /\ \A at \in {"byProvider", "byUser", "link"} :
                       /\ [q EXCEPT !.at = at] \in Signer
                       /\ [q EXCEPT !.at = at].at = at
                       /\ [q EXCEPT !.at = at].user = q.user
                       /\ [q EXCEPT !.at = at].none = q.none
           /\ q.at = "password" => q.issues \in SUBSET LinkToken
           /\ q.at \in {"idle", "register", "profile", "signup"} \cup Acting
BY DEF Signer, Acting, Identity!Idle

\* A new user takes the place of the first that is none.
LEMMA NewUser ==
    ASSUME Identity!Room
    PROVE  Identity!New \in Identity!UserIds /\ ~Identity!Exists(Identity!New)
<1> DEFINE S == {u \in Identity!UserIds : ~Identity!Exists(u)}
<1>1. S \in SUBSET Nat /\ S # {}
  BY PartsAssumption DEF Identity!Room, Identity!UserIds
<1>2. PICK u \in S : \A v \in S : u <= v
  BY <1>1, Smallest
<1>3. u \in Identity!UserIds /\ ~Identity!Exists(u) /\ \A v \in Identity!UserIds : ~Identity!Exists(v) => u <= v
  BY <1>2
<1> QED
  BY <1>3 DEF Identity!New

LEMMA IdentityTypes == IdentityInv => Identity!TypeOK
<1> SUFFICES ASSUME IdentityInv PROVE Identity!TypeOK
  OBVIOUS
<1>1. \A r \in Requests :
         signer[r].at \in {"idle", "register", "profile", "signup", "byProvider",
                          "byUser", "link", "password"}
  BY SignerFields DEF IdentityInv, SignersSound, Acting
<1>2. user \in [Identity!UserIds ->
                  [account : Names \cup {Identity!NoName}, email : Names \cup {Identity!NoName},
                   password : {"none", "initial", "own"}]]
  BY DEF IdentityInv, RowsSound, Identity!NoName
<1>3. identities \subseteq {Identity!Linked(u, p) : u \in Identity!UserIds, p \in Profiles}
  BY DEF IdentityInv, RowsSound
<1>4. tokens \subseteq [target : Identity!UserIds, profile : Profiles] /\ overtaken \subseteq Requests
  BY DEF IdentityInv, TokensSound, SignersSound, LinkToken
<1> QED
  BY <1>1, <1>2, <1>3, <1>4 DEF Identity!TypeOK

LEMMA IdentityInitial == PartsInit => IdentityInv
<1> SUFFICES ASSUME PartsInit PROVE IdentityInv
  OBVIOUS
<1>4. Identity!Init
  BY DEF PartsInit
<1>1. RowsSound
  <2> DEFINE Account == [account : Names \cup {"none"}, email : Names \cup {"none"},
                         password : {"none", "initial", "own"}]
  <2>1. /\ Identity!NoUser \in Account
        /\ \A n \in Names, e \in Names \cup {"none"} :
              /\ [Identity!NoUser EXCEPT !.account = n, !.email = e] \in Account
              /\ [Identity!NoUser EXCEPT !.account = n, !.email = e].account = n
    BY DEF Identity!NoUser, Identity!NoName
  <2> HIDE DEF Account
  <2>2. /\ user \in [Identity!UserIds -> Account]
        /\ \A u \in Identity!UserIds : Identity!Exists(u) => u = 1 /\ user[u].account \in Names
    <3>1. CASE user = [u \in Identity!UserIds |-> Identity!NoUser]
      BY <2>1, <3>1, Zenon DEF Identity!Exists
    <3>2. ASSUME NEW n \in Names, NEW e \in Names \cup {"none"},
                 user = [u \in Identity!UserIds |->
                           IF u = 1 THEN [Identity!NoUser EXCEPT !.account = n, !.email = e]
                           ELSE Identity!NoUser]
          PROVE  /\ user \in [Identity!UserIds -> Account]
                 /\ \A u \in Identity!UserIds :
                       Identity!Exists(u) => u = 1 /\ user[u].account \in Names
      <4> DEFINE one == [Identity!NoUser EXCEPT !.account = n, !.email = e]
      <4>1. one \in Account /\ one.account \in Names
        BY <2>1
      <4> HIDE DEF one
      <4>2. user = [u \in Identity!UserIds |-> IF u = 1 THEN one ELSE Identity!NoUser]
        BY <3>2 DEF one
      <4> QED
        BY <2>1, <4>1, <4>2 DEF Identity!Exists
    <3> QED
      BY <1>4, <3>1, <3>2, Zenon DEF Identity!Init, Identity!NoName
  <2>3. identities = {} /\ made = [u \in Identity!UserIds |-> {}]
    BY <1>4 DEF Identity!Init
  <2>4. Identity!AccountsWhole
    BY <2>2, <2>3 DEF Identity!AccountsWhole
  <2> QED
    BY <2>2, <2>3, <2>4 DEF RowsSound, Account
<1>2. TokensSound
  BY <1>4 DEF TokensSound, Identity!Init
<1>3. SignersSound
  BY <1>4 DEF SignersSound, Signer, Grounded, Note, Acting, Identity!Idle, Identity!Init
<1> QED
  BY <1>1, <1>2, <1>3 DEF IdentityInv

\* A request goes on while users stay and none gets a password of their own.
Stay ==
    \A u \in Identity!UserIds : Identity!Exists(u) =>
        /\ Identity!Exists(u)'
        /\ user'[u].password = "own" => user[u].password = "own"

LEMMA SignerGoes ==
    ASSUME IdentityInv, Stay, NEW r \in Requests, NEW to \in Signer, Identity!Goes(r, to),
           Grounded(to)', Note(to, r)'
    PROVE  SignersSound'
<1>1. signer' \in [Requests -> Signer] /\ signer'[r] = to
      /\ \A s \in Requests \ {r} : signer'[s] = signer[s]
  BY DEF IdentityInv, SignersSound, Identity!Goes
<1>2. /\ overtaken' \subseteq Requests
      /\ \A s \in Requests \ {r} : s \in overtaken => s \in overtaken'
  BY DEF IdentityInv, SignersSound, Identity!Goes
<1>3. ASSUME NEW s \in Requests \ {r}
      PROVE  Grounded(signer[s])' /\ Note(signer[s], s)'
  <2>1. PICK q \in Signer : signer[s] = q
    BY DEF IdentityInv, SignersSound
  <2>2. signer'[s] = q /\ Grounded(q) /\ Note(q, s)
    BY <1>1, <2>1 DEF IdentityInv, SignersSound
  <2>3. /\ q.at = "profile" => q.linking \in {0} \cup Identity!UserIds
        /\ q.at \in Acting => q.user \in Identity!UserIds
        /\ q.at = "password" => \A t \in q.issues : t.target \in Identity!UserIds
    BY SignerFields DEF LinkToken
  <2>4. q.at \in Acting => (Identity!Exists(q.user) /\ Identity!Exists(q.user)' /\
              (user'[q.user].password = "own" => user[q.user].password = "own"))
    BY <2>2, <2>3 DEF Stay, Grounded
  <2>5. Grounded(q)'
    BY <2>2, <2>3, <2>4 DEF Stay, Grounded
  <2>6. Note(q, s)'
    BY <2>2, <2>4, <1>2 DEF Note
  <2> QED
    BY <2>2, <2>5, <2>6 DEF Grounded, Note
<1> QED
  BY <1>1, <1>2, <1>3 DEF SignersSound

\* The chosen password of a user gives way to the initial one only by a
\* request that is noted as overtaken.
Chosen ==
    \A u \in Identity!UserIds :
        (user[u].password = "own" /\ user'[u].password = "initial")
        => \E r \in overtaken : signer[r].user = u

\* A request that changes no row.
LEMMA QuietGoes ==
    ASSUME IdentityInv, NEW r \in Requests, NEW to \in Signer, Identity!Goes(r, to),
           UNCHANGED <<user, identities, tokens, made>>, Grounded(to),
           to.at \in Acting /\ to.none => user[to.user].password # "own" \/ r \in overtaken
    PROVE  IdentityInv' /\ Chosen
<1>1. Stay
  BY DEF Stay, Identity!Exists
<1>2. Grounded(to)'
  BY DEF Grounded, Identity!Exists
<1>3. Note(to, r)'
  BY DEF Note, Identity!Goes, Identity!Idle, Acting
<1>4. SignersSound'
  BY <1>1, <1>2, <1>3, SignerGoes
<1>5. RowsSound'
  BY DEF IdentityInv, RowsSound, Identity!AccountsWhole, Identity!Exists
<1>6. TokensSound'
  BY DEF IdentityInv, TokensSound, Identity!Exists
<1>7. Chosen
  BY DEF Chosen
<1> QED
  BY <1>4, <1>5, <1>6, <1>7 DEF IdentityInv

LEMMA QuietEnds ==
    ASSUME IdentityInv, NEW r \in Requests, Identity!Ends(r),
           UNCHANGED <<user, identities, tokens, made>>
    PROVE  IdentityInv' /\ Chosen
BY QuietGoes DEF Identity!Ends, Identity!Idle, Signer, Grounded, Acting

\* A user there is comes to have the default password, if the copy read of
\* the row has none.
LEMMA QuietPassword ==
    ASSUME IdentityInv, NEW r \in Requests, NEW u \in Identity!UserIds, Identity!Exists(u),
           NEW issues \in SUBSET LinkToken, \A t \in issues : Identity!Exists(t.target),
           Identity!ThenPassword(r, u, issues),
           UNCHANGED <<user, identities, tokens, made>>
    PROVE  IdentityInv' /\ Chosen
<1> DEFINE to == [at |-> "password", user |-> u, none |-> user[u].password = "none",
                  issues |-> issues]
<1>1. to \in Signer
  BY DEF Signer
<1>2. /\ to.at = "password" /\ to.user = u /\ to.issues = issues
      /\ to.none => user[to.user].password # "own"
  OBVIOUS
<1>3. Identity!Goes(r, to)
  BY DEF Identity!ThenPassword
<1> HIDE DEF to
<1>4. Grounded(to)
  BY <1>2 DEF Grounded
<1> QED
  BY <1>1, <1>2, <1>3, <1>4, QuietGoes

LEMMA RegisterStep ==
    ASSUME IdentityInv, NEW r \in Requests, NEW n \in Names, Identity!Register(r, n)
    PROVE  IdentityInv' /\ Chosen
<1> DEFINE to == [at |-> "register", name |-> n]
<1>1. to \in Signer /\ Grounded(to) /\ to.at \notin Acting
  BY DEF Signer, Grounded, Acting
<1>2. Identity!Goes(r, to) /\ UNCHANGED <<user, identities, tokens, made>>
  BY DEF Identity!Register, Identity!rows
<1> QED
  BY <1>1, <1>2, QuietGoes

LEMMA SignInKnownStep ==
    ASSUME IdentityInv, NEW r \in Requests, NEW p \in Profiles,
           NEW linking \in {0} \cup Identity!UserIds, Identity!SignInKnown(r, p, linking)
    PROVE  IdentityInv' /\ Chosen
<1>1. PICK i \in identities : Identity!ThenPassword(r, i.owner, {})
                              /\ UNCHANGED <<user, identities, tokens, made>>
  BY DEF Identity!SignInKnown, Identity!rows
<1>2. i.owner \in Identity!UserIds /\ Identity!Exists(i.owner)
  BY DEF IdentityInv, RowsSound, Identity!AccountsWhole, Identity!Linked
<1> QED
  BY <1>1, <1>2, QuietPassword

LEMMA SignInUnknownStep ==
    ASSUME IdentityInv, NEW r \in Requests, NEW p \in Profiles,
           NEW linking \in {0} \cup Identity!UserIds, Identity!SignInUnknown(r, p, linking)
    PROVE  IdentityInv' /\ Chosen
<1> DEFINE to == [at |-> "profile", profile |-> p, linking |-> linking]
<1>1. to \in Signer /\ to.at = "profile" /\ to.profile = p /\ to.linking = linking
  BY DEF Signer
<1>2. Identity!Goes(r, to) /\ UNCHANGED <<user, identities, tokens, made>>
  BY DEF Identity!SignInUnknown, Identity!rows
<1>3. IF linking = 0 THEN p.email # "none" ELSE Identity!Exists(linking)
  BY DEF Identity!SignInUnknown, Identity!MayLink, Identity!NoOne, Identity!NoName
<1> HIDE DEF to
<1>4. Grounded(to) /\ to.at \notin Acting
  BY <1>1, <1>3 DEF Grounded, Acting
<1> QED
  BY <1>1, <1>2, <1>4, QuietGoes

LEMMA ProfileStep ==
    ASSUME IdentityInv, NEW r \in Requests, Identity!Profile(r)
    PROVE  IdentityInv' /\ Chosen
<1>1. PICK q \in Signer : signer[r] = q
  BY DEF IdentityInv, SignersSound
<1>2. q.at = "profile" /\ UNCHANGED <<user, identities, tokens, made>>
  BY <1>1 DEF Identity!Profile, Identity!At, Identity!rows
<1>3. /\ q.profile \in Profiles /\ q.linking \in {0} \cup Identity!UserIds
      /\ IF q.linking = 0 THEN q.profile.email # "none" ELSE Identity!Exists(q.linking)
  BY <1>1, <1>2, SignerFields DEF IdentityInv, SignersSound, Grounded
<1>4. CASE q.linking # 0 /\ Identity!Goes(r, [at |-> "byProvider", user |-> q.linking,
                          profile |-> q.profile, session |-> TRUE,
                          none |-> user[q.linking].password = "none"])
  <2> DEFINE to == [at |-> "byProvider", user |-> q.linking,
                    profile |-> q.profile, session |-> TRUE,
                    none |-> user[q.linking].password = "none"]
  <2>1. /\ to \in Signer /\ to.at = "byProvider" /\ to.user = q.linking
        /\ to.none => user[to.user].password # "own"
    BY <1>3, <1>4 DEF Signer
  <2>2. Identity!Goes(r, to)
    BY <1>4
  <2> HIDE DEF to
  <2>3. Grounded(to)
    BY <1>3, <1>4, <2>1 DEF Grounded
  <2> QED
    BY <1>2, <2>1, <2>2, <2>3, QuietGoes
<1>5. CASE Identity!Ends(r)
  BY <1>2, <1>5, QuietEnds
<1>6. CASE q.linking = 0 /\ Identity!Goes(r, [at |-> "signup", profile |-> q.profile])
  <2> DEFINE to == [at |-> "signup", profile |-> q.profile]
  <2>1. to \in Signer /\ Grounded(to) /\ to.at \notin Acting
    BY <1>3, <1>6 DEF Signer, Grounded, Acting
  <2> QED
    BY <1>2, <1>6, <2>1, QuietGoes
<1>7. ASSUME q.linking = 0, NEW u \in Identity!ByEmail(q.profile.email),
             Identity!ThenPassword(r, u, {[target |-> u, profile |-> q.profile]})
      PROVE  IdentityInv' /\ Chosen
  <2>1. u \in Identity!UserIds /\ Identity!Exists(u)
    BY <1>3, <1>7 DEF Identity!ByEmail, Identity!Exists, Identity!NoUser, Identity!NoName
  <2>2. {[target |-> u, profile |-> q.profile]} \in SUBSET LinkToken
    BY <1>3, <2>1 DEF LinkToken
  <2> QED
    BY <1>2, <1>7, <2>1, <2>2, QuietPassword
<1> QED
  BY <1>1, <1>4, <1>5, <1>6, <1>7 DEF Identity!Profile, Identity!NoOne

LEMMA LinkStep ==
    ASSUME IdentityInv, NEW r \in Requests,
           Identity!LinkByProvider(r) \/ Identity!LinkByUser(r)
    PROVE  IdentityInv' /\ Chosen
<1>1. PICK q \in Signer : signer[r] = q
  BY DEF IdentityInv, SignersSound
<1>2. q.at \in {"byProvider", "byUser"} /\ UNCHANGED <<user, identities, tokens, made>>
  BY <1>1 DEF Identity!LinkByProvider, Identity!LinkByUser, Identity!At, Identity!rows
<1>3. /\ q.user \in Identity!UserIds /\ q.profile \in Profiles
      /\ q.none \in BOOLEAN /\ q.session \in BOOLEAN
      /\ Identity!Exists(q.user)
      /\ q.none => user[q.user].password # "own" \/ r \in overtaken
  BY <1>1, <1>2, SignerFields DEF IdentityInv, SignersSound, Grounded, Note, Acting
<1>4. CASE Identity!Ends(r)
  BY <1>2, <1>4, QuietEnds
<1>5. ASSUME NEW at \in {"byUser", "link"}, Identity!Goes(r, [q EXCEPT !.at = at])
      PROVE  IdentityInv' /\ Chosen
  <2>1. PICK to \in Signer : /\ to = [q EXCEPT !.at = at] /\ to.at = at
                             /\ to.user = q.user /\ to.none = q.none
    BY <1>2, SignerFields
  <2>2. Grounded(to)
    BY <1>3, <2>1 DEF Grounded
  <2> QED
    BY <1>2, <1>3, <1>5, <2>1, <2>2, QuietGoes
<1>6. CASE Identity!LinkDone(r)
  <2>1. CASE q.session
    <3> DEFINE to == [at |-> "password", user |-> q.user, none |-> q.none, issues |-> {}]
    <3>1. to \in Signer /\ to.at = "password" /\ to.user = q.user /\ to.none = q.none
          /\ to.issues = {}
      BY <1>3 DEF Signer
    <3>2. Identity!Goes(r, to)
      BY <1>1, <1>6, <2>1 DEF Identity!LinkDone
    <3> HIDE DEF to
    <3>3. Grounded(to)
      BY <1>3, <3>1 DEF Grounded
    <3> QED
      BY <1>2, <1>3, <3>1, <3>2, <3>3, QuietGoes
  <2>2. CASE ~q.session
    BY <1>1, <1>4, <1>6, <2>2 DEF Identity!LinkDone
  <2> QED
    BY <2>1, <2>2
<1> QED
  BY <1>1, <1>4, <1>5, <1>6 DEF Identity!LinkByProvider, Identity!LinkByUser

LEMMA UseLinkTokenStep ==
    ASSUME IdentityInv, NEW r \in Requests, NEW t \in tokens, Identity!UseLinkToken(r, t)
    PROVE  IdentityInv' /\ Chosen
<1> DEFINE to == [at |-> "byProvider", user |-> t.target, profile |-> t.profile,
                  session |-> FALSE, none |-> FALSE]
<1>1. t.target \in Identity!UserIds /\ t.profile \in Profiles /\ Identity!Exists(t.target)
  BY DEF IdentityInv, TokensSound, LinkToken
<1>2. to \in Signer /\ to.at = "byProvider" /\ to.user = t.target /\ ~to.none
  BY <1>1 DEF Signer
<1>3. Identity!Goes(r, to) /\ UNCHANGED <<user, identities, tokens, made>>
  BY DEF Identity!UseLinkToken, Identity!rows
<1> HIDE DEF to
<1>4. Grounded(to)
  BY <1>1, <1>2 DEF Grounded
<1> QED
  BY <1>2, <1>3, <1>4, QuietGoes

\* What the rows of users promise among themselves.
Account == [account : Names \cup {"none"}, email : Names \cup {"none"},
            password : {"none", "initial", "own"}]
Unlike ==
    \A u, v \in Identity!UserIds : (Identity!Exists(u) /\ Identity!Exists(v) /\ u # v) =>
        /\ user[u].account # user[v].account
        /\ user[u].email = "none" \/ user[u].email # user[v].email

LEMMA RowsAreUnlike == RowsSound => user \in [Identity!UserIds -> Account] /\ Unlike
BY DEF RowsSound, Unlike, Account, Identity!AccountsWhole, Identity!NoName

\* A row that is inserted with an account and an address nobody has.
LEMMA Insertion ==
    ASSUME IdentityInv, NEW x \in Identity!UserIds, ~Identity!Exists(x),
           NEW new \in Account, new.account \in Names,
           Identity!FreeAccount(new.account), Identity!FreeEmail(new.email, 0),
           user' = [user EXCEPT ![x] = new]
    PROVE  /\ Stay /\ Unlike' /\ user' \in [Identity!UserIds -> Account]
           /\ \A u \in Identity!UserIds :
                /\ Identity!Exists(u)' <=> (Identity!Exists(u) \/ u = x)
                /\ Identity!Exists(u)' => user'[u].account \in Names
           /\ TokensSound /\ UNCHANGED tokens => TokensSound'
           /\ Chosen
<1>1. user \in [Identity!UserIds -> Account] /\ Unlike
  BY RowsAreUnlike DEF IdentityInv
<1>2. /\ user' \in [Identity!UserIds -> Account]
      /\ user'[x] = new /\ \A u \in Identity!UserIds \ {x} : user'[u] = user[u]
  BY <1>1
<1>3. user[x] = Identity!NoUser /\ new # Identity!NoUser /\ user[x].password = "none"
  BY PartsAssumption DEF Identity!Exists, Identity!NoUser, Identity!NoName
<1>4. \A u \in Identity!UserIds :
         /\ Identity!Exists(u)' <=> (Identity!Exists(u) \/ u = x)
         /\ Identity!Exists(u)' => user'[u].account \in Names
  BY <1>2, <1>3 DEF Identity!Exists, IdentityInv, RowsSound
<1>5. Stay
  BY <1>2, <1>3, <1>4 DEF Stay, Identity!Exists
<1>6. /\ \A v \in Identity!UserIds : user[v].account # new.account
      /\ new.email = "none" \/ \A v \in Identity!UserIds : user[v].email # new.email
  BY DEF Identity!FreeAccount, Identity!FreeEmail, Identity!NoName, Identity!UserIds
<1>7. Unlike'
  BY <1>1, <1>2, <1>4, <1>6 DEF Unlike
<1>8. TokensSound /\ UNCHANGED tokens => TokensSound'
  BY <1>4 DEF TokensSound, LinkToken
<1>9. Chosen
  BY <1>2, <1>3 DEF Chosen
<1> QED
  BY <1>2, <1>4, <1>5, <1>7, <1>8, <1>9

\* A request that ends with a change of the rows.
LEMMA RowsEnd ==
    ASSUME IdentityInv, Stay, NEW r \in Requests, Identity!Ends(r)
    PROVE  SignersSound'
BY SignerGoes DEF Identity!Ends, Identity!Idle, Signer, Grounded, Note, Acting

LEMMA CreateLocalUserStep ==
    ASSUME IdentityInv, NEW r \in Requests, Identity!CreateLocalUser(r)
    PROVE  IdentityInv' /\ Chosen
<1>1. CASE UNCHANGED user
  BY <1>1, QuietEnds DEF Identity!CreateLocalUser
<1>2. CASE /\ Identity!Room /\ Identity!FreeAccount(signer[r].name)
           /\ user' = [user EXCEPT ![Identity!New] = [account |-> signer[r].name,
                                     email |-> Identity!NoName, password |-> "own"]]
  <2> DEFINE new == [account |-> signer[r].name, email |-> Identity!NoName, password |-> "own"]
             x == Identity!New
  <2>1. signer[r].name \in Names
    BY SignerFields DEF IdentityInv, SignersSound, Identity!CreateLocalUser, Identity!At
  <2>2. /\ new \in Account /\ new.account \in Names
        /\ Identity!FreeAccount(new.account) /\ Identity!FreeEmail(new.email, 0)
    BY <1>2, <2>1 DEF Account, Identity!NoName, Identity!FreeEmail
  <2>3. x \in Identity!UserIds /\ ~Identity!Exists(x)
    BY <1>2, NewUser
  <2>4. user' = [user EXCEPT ![x] = new] /\ UNCHANGED <<identities, tokens, made>>
        /\ Identity!Ends(r)
    BY <1>2 DEF Identity!CreateLocalUser
  <2> HIDE DEF new, x
  <2>5. /\ Stay /\ Unlike' /\ user' \in [Identity!UserIds -> Account]
        /\ \A u \in Identity!UserIds :
             /\ Identity!Exists(u)' <=> (Identity!Exists(u) \/ u = x)
             /\ Identity!Exists(u)' => user'[u].account \in Names
        /\ TokensSound'
        /\ Chosen
    BY <2>2, <2>3, <2>4, Insertion DEF IdentityInv
  <2>6. RowsSound'
    <3>1. \A i \in identities : i.owner \in Identity!UserIds
      BY DEF IdentityInv, RowsSound, Identity!Linked
    <3>2. Identity!AccountsWhole'
      BY <2>4, <2>5, <3>1 DEF IdentityInv, RowsSound, Unlike, Identity!AccountsWhole, Identity!NoName
    <3> QED
      BY <2>4, <2>5, <3>2 DEF IdentityInv, RowsSound, Account
  <2> QED
    BY <2>4, <2>5, <2>6, RowsEnd DEF IdentityInv
<1> QED
  BY <1>1, <1>2 DEF Identity!CreateLocalUser

LEMMA CreateOAuthUserStep ==
    ASSUME IdentityInv, NEW r \in Requests, Identity!CreateOAuthUser(r)
    PROVE  IdentityInv' /\ Chosen
<1> DEFINE free == Identity!SignUpFree(signer[r].profile) /\ Identity!FreeIdentity(signer[r].profile)
<1>1. CASE ~free
  BY <1>1, QuietEnds DEF Identity!CreateOAuthUser, Identity!rows
<1>2. CASE free
  <2>1. PICK p \in Profiles : signer[r].profile = p /\ p.email # "none"
    BY SignerFields DEF IdentityInv, SignersSound, Grounded, Identity!CreateOAuthUser, Identity!At
  <2> DEFINE new == Identity!NewOAuthUser(p)
             x == Identity!New
  <2>2. /\ new \in Account /\ new.account \in Names
        /\ Identity!FreeAccount(new.account) /\ Identity!FreeEmail(new.email, 0)
    BY <1>2, <2>1, PartsAssumption DEF Account, Identity!NewOAuthUser, Identity!SignUpFree,
       Identity!NoOne
  <2>3. x \in Identity!UserIds /\ ~Identity!Exists(x)
    BY <1>2, <2>1, NewUser DEF Identity!CreateOAuthUser
  <2>4. /\ user' = [user EXCEPT ![x] = new]
        /\ identities' = identities \cup {Identity!Linked(x, p)}
        /\ made' = [made EXCEPT ![x] = {Identity!Key(p)}]
        /\ UNCHANGED tokens /\ Identity!Ends(r)
    BY <1>2, <2>1 DEF Identity!CreateOAuthUser
  <2>5. Identity!FreeIdentity(p)
    BY <1>2, <2>1
  <2> HIDE DEF new, x
  <2>6. /\ Stay /\ Unlike' /\ user' \in [Identity!UserIds -> Account]
        /\ \A u \in Identity!UserIds :
             /\ Identity!Exists(u)' <=> (Identity!Exists(u) \/ u = x)
             /\ Identity!Exists(u)' => user'[u].account \in Names
        /\ TokensSound'
        /\ Chosen
    BY <2>2, <2>3, <2>4, Insertion DEF IdentityInv
  <2>7. PICK l : l = Identity!Linked(x, p)
    OBVIOUS
  <2>8. l.owner = x /\ l.provider = p.provider /\ Identity!Key(l) = Identity!Key(p)
    BY <2>7 DEF Identity!Linked, Identity!Key
  <2>9. \A i \in identities : /\ i.owner \in Identity!UserIds /\ Identity!Exists(i.owner)
                              /\ i.owner # x /\ Identity!Key(i) # Identity!Key(l)
    BY <2>3, <2>5, <2>8 DEF IdentityInv, RowsSound, Identity!AccountsWhole, Identity!Linked,
       Identity!FreeIdentity
  <2>10. \A i, j \in identities' :
            (Identity!Key(i) = Identity!Key(j) \/ (i.owner = j.owner /\ i.provider = j.provider))
            => i = j
    BY <2>4, <2>7, <2>8, <2>9 DEF IdentityInv, RowsSound, Identity!AccountsWhole
  <2>11. \A i \in identities' : Identity!Exists(i.owner)'
    BY <2>3, <2>4, <2>6, <2>7, <2>8, <2>9
  <2>12. \A u \in Identity!UserIds : \A k \in made'[u] :
            \E i \in identities' : i.owner = u /\ Identity!Key(i) = k
    BY <2>3, <2>4, <2>7, <2>8 DEF IdentityInv, RowsSound, Identity!AccountsWhole
  <2>13. Identity!AccountsWhole'
    BY <2>6, <2>10, <2>11, <2>12 DEF Identity!AccountsWhole, Unlike, Identity!NoName, Identity!Key
  <2>14. /\ identities' \subseteq {Identity!Linked(u, q) : u \in Identity!UserIds, q \in Profiles}
         /\ made' \in [Identity!UserIds -> SUBSET {Identity!Key(q) : q \in Profiles}]
         /\ \A u \in Identity!UserIds : made'[u] # {} => Identity!Exists(u)'
    BY <2>3, <2>4, <2>6 DEF IdentityInv, RowsSound
  <2> QED
    BY <2>4, <2>6, <2>13, <2>14, RowsEnd DEF IdentityInv, RowsSound, Account
<1> QED
  BY <1>1, <1>2

\* A row whose password or address changes while its account stays.
LEMMA Alteration ==
    ASSUME IdentityInv, NEW x \in Identity!UserIds, Identity!Exists(x),
           NEW new \in Account, new.account = user[x].account,
           new.email = user[x].email \/ Identity!FreeEmail(new.email, x),
           user' = [user EXCEPT ![x] = new],
           UNCHANGED <<identities, made>>
    PROVE  /\ RowsSound'
           /\ \A u \in Identity!UserIds : Identity!Exists(u) => Identity!Exists(u)'
           /\ \A u \in Identity!UserIds \ {x} : user'[u] = user[u]
           /\ user'[x] = new
<1>1. user \in [Identity!UserIds -> Account] /\ Unlike
  BY RowsAreUnlike DEF IdentityInv
<1>2. /\ user' \in [Identity!UserIds -> Account]
      /\ user'[x] = new /\ \A u \in Identity!UserIds \ {x} : user'[u] = user[u]
  BY <1>1
<1>3. user[x].account \in Names /\ new # Identity!NoUser
  BY PartsAssumption DEF IdentityInv, RowsSound, Identity!NoUser, Identity!NoName
<1>4. \A u \in Identity!UserIds :
         /\ Identity!Exists(u)' <=> Identity!Exists(u)
         /\ Identity!Exists(u)' => user'[u].account \in Names
  BY <1>2, <1>3 DEF Identity!Exists, IdentityInv, RowsSound
<1>5. \/ new.email = user[x].email \/ new.email = "none"
      \/ \A v \in Identity!UserIds \ {x} : user[v].email # new.email
  BY DEF Identity!FreeEmail, Identity!NoName
<1>6. Unlike'
  BY <1>1, <1>2, <1>4, <1>5 DEF Unlike
<1>7. \A i \in identities : i.owner \in Identity!UserIds
  BY DEF IdentityInv, RowsSound, Identity!Linked
<1>8. Identity!AccountsWhole'
  BY <1>4, <1>6, <1>7 DEF IdentityInv, RowsSound, Identity!AccountsWhole, Unlike, Identity!NoName
<1> QED
  BY <1>2, <1>4, <1>8 DEF IdentityInv, RowsSound, Account

\* The row with another password, and with another address.
LEMMA RowEdited ==
    ASSUME IdentityInv, NEW x \in Identity!UserIds, NEW w \in {"none", "initial", "own"}
    PROVE  /\ \E new \in Account : /\ new = [user[x] EXCEPT !.password = w]
                                   /\ new.account = user[x].account
                                   /\ new.email = user[x].email
                                   /\ new.password = w
           /\ \A n \in Names :
                \E new \in Account : /\ new = [user[x] EXCEPT !.email = n]
                                     /\ new.account = user[x].account
                                     /\ new.email = n
                                     /\ new.password = user[x].password
<1>1. PICK a \in Account : user[x] = a
  BY RowsAreUnlike DEF IdentityInv
<1>2. /\ [a EXCEPT !.password = w] \in Account
      /\ [a EXCEPT !.password = w].account = a.account
      /\ [a EXCEPT !.password = w].email = a.email
      /\ [a EXCEPT !.password = w].password = w
  BY DEF Account
<1>3. ASSUME NEW n \in Names
      PROVE  /\ [a EXCEPT !.email = n] \in Account
             /\ [a EXCEPT !.email = n].account = a.account
             /\ [a EXCEPT !.email = n].email = n
             /\ [a EXCEPT !.email = n].password = a.password
  BY DEF Account
<1>4. \E new \in Account : /\ new = [user[x] EXCEPT !.password = w]
                            /\ new.account = user[x].account
                            /\ new.email = user[x].email
                            /\ new.password = w
  BY <1>1, <1>2, Zenon
<1>5. ASSUME NEW n \in Names
      PROVE  \E new \in Account : /\ new = [user[x] EXCEPT !.email = n]
                                  /\ new.account = user[x].account
                                  /\ new.email = n
                                  /\ new.password = user[x].password
  <2>1. PICK new : new = [a EXCEPT !.email = n]
    OBVIOUS
  <2>2. /\ new \in Account /\ new.account = a.account
        /\ new.email = n /\ new.password = a.password
    BY <1>3, <2>1, Zenon
  <2> QED
    BY <1>1, <2>1, <2>2, Zenon
<1> QED
  BY <1>4, <1>5, Zenon

LEMMA EnsurePasswordStep ==
    ASSUME IdentityInv, NEW r \in Requests, Identity!EnsurePassword(r)
    PROVE  IdentityInv' /\ Chosen
<1>1. PICK q \in Signer : signer[r] = q
  BY DEF IdentityInv, SignersSound
<1>2. q.at = "password" /\ q.user \in Identity!UserIds /\ q.none \in BOOLEAN
      /\ q.issues \in SUBSET LinkToken
  BY <1>1, SignerFields DEF Identity!EnsurePassword, Identity!At, Acting
<1>3. /\ Identity!Exists(q.user) /\ \A t \in q.issues : Identity!Exists(t.target)
      /\ q.none => user[q.user].password # "own" \/ r \in overtaken
  BY <1>1, <1>2 DEF IdentityInv, SignersSound, Grounded, Note, Acting
<1>4. /\ tokens' = tokens \cup q.issues /\ Identity!Ends(r) /\ UNCHANGED <<identities, made>>
      /\ IF q.none THEN user' = [user EXCEPT ![q.user].password = "initial"] ELSE UNCHANGED user
  BY <1>1, <1>2 DEF Identity!EnsurePassword
<1>5. /\ RowsSound' /\ Stay /\ Chosen
      /\ \A u \in Identity!UserIds : Identity!Exists(u) => Identity!Exists(u)'
  <2>1. CASE ~q.none
    BY <1>4, <2>1 DEF Stay, Chosen, IdentityInv, RowsSound, Identity!AccountsWhole, Identity!Exists
  <2>2. CASE q.none
    <3>1. PICK new \in Account : /\ new = [user[q.user] EXCEPT !.password = "initial"]
                                 /\ new.account = user[q.user].account
                                 /\ new.email = user[q.user].email
                                 /\ new.password = "initial"
      BY <1>2, RowEdited
    <3>2. user' = [user EXCEPT ![q.user] = new]
      BY <1>4, <2>2, <3>1
    <3>3. /\ RowsSound'
          /\ \A u \in Identity!UserIds : Identity!Exists(u) => Identity!Exists(u)'
          /\ \A u \in Identity!UserIds \ {q.user} : user'[u] = user[u]
          /\ user'[q.user] = new
      BY <1>2, <1>3, <1>4, <3>1, <3>2, Alteration
    <3>4. Stay
      BY <3>1, <3>3 DEF Stay
    <3>5. Chosen
      BY <1>1, <1>3, <2>2, <3>3 DEF Chosen
    <3> QED
      BY <3>3, <3>4, <3>5
  <2> QED
    BY <1>2, <2>1, <2>2
<1>6. TokensSound'
  BY <1>2, <1>3, <1>4, <1>5 DEF IdentityInv, TokensSound, LinkToken
<1> QED
  BY <1>4, <1>5, <1>6, RowsEnd DEF IdentityInv

LEMMA InsertIdentityStep ==
    ASSUME IdentityInv, NEW r \in Requests, Identity!InsertIdentity(r)
    PROVE  IdentityInv' /\ Chosen
<1>1. PICK q \in Signer : signer[r] = q
  BY DEF IdentityInv, SignersSound
<1>2. /\ q.at = "link" /\ q.user \in Identity!UserIds /\ q.profile \in Profiles
      /\ q.none \in BOOLEAN /\ q.session \in BOOLEAN
  BY <1>1, SignerFields DEF Identity!InsertIdentity, Identity!At, Acting
<1>3. /\ Identity!Exists(q.user)
      /\ q.none => user[q.user].password # "own" \/ r \in overtaken
  BY <1>1, <1>2 DEF IdentityInv, SignersSound, Grounded, Note, Acting
<1>4. UNCHANGED <<user, tokens, made>>
  BY DEF Identity!InsertIdentity
<1>5. CASE Identity!Ends(r) /\ UNCHANGED identities
  BY <1>4, <1>5, QuietEnds
<1>6. CASE /\ Identity!FreeProvider(q.user, q.profile) /\ Identity!FreeIdentity(q.profile)
           /\ identities' = identities \cup {Identity!Linked(q.user, q.profile)}
           /\ Identity!LinkDone(r)
  <2>1. PICK l : l = Identity!Linked(q.user, q.profile)
    OBVIOUS
  <2>2. l.owner = q.user /\ l.provider = q.profile.provider
        /\ Identity!Key(l) = Identity!Key(q.profile)
    BY <2>1 DEF Identity!Linked, Identity!Key
  <2>3. \A i \in identities : /\ i.owner # l.owner \/ i.provider # l.provider
                              /\ Identity!Key(i) # Identity!Key(l)
    BY <1>6, <2>2 DEF Identity!FreeIdentity, Identity!FreeProvider
  <2>4. identities' = identities \cup {l}
    BY <1>6, <2>1
  <2>5. Identity!AccountsWhole'
    BY <1>3, <1>4, <2>2, <2>3, <2>4 DEF IdentityInv, RowsSound, Identity!AccountsWhole,
       Identity!Exists, Identity!Key
  <2>6. RowsSound'
    BY <1>2, <1>4, <2>1, <2>4, <2>5 DEF IdentityInv, RowsSound, Identity!Exists
  <2>7. Stay /\ Chosen /\ TokensSound'
    BY <1>4 DEF Stay, Chosen, IdentityInv, TokensSound, Identity!Exists
  <2>8. SignersSound'
    <3>1. CASE q.session
      <4> DEFINE to == [at |-> "password", user |-> q.user, none |-> q.none, issues |-> {}]
      <4>1. to \in Signer /\ to.at = "password" /\ to.user = q.user /\ to.none = q.none
            /\ to.issues = {} /\ to # Identity!Idle
        BY <1>2 DEF Signer, Identity!Idle
      <4>2. Identity!Goes(r, to)
        BY <1>1, <1>6, <3>1 DEF Identity!LinkDone
      <4>3. overtaken' = overtaken
        BY <4>1, <4>2 DEF Identity!Goes
      <4>4. Grounded(to)' /\ Note(to, r)'
        BY <1>3, <1>4, <4>3 DEF Grounded, Note, Identity!Exists
      <4> HIDE DEF to
      <4> QED
        BY <2>7, <4>1, <4>2, <4>4, SignerGoes
    <3>2. CASE ~q.session
      BY <1>1, <1>6, <2>7, <3>2, RowsEnd DEF Identity!LinkDone
    <3> QED
      BY <3>1, <3>2
  <2> QED
    BY <2>6, <2>7, <2>8 DEF IdentityInv
<1> QED
  BY <1>1, <1>5, <1>6 DEF Identity!InsertIdentity

LEMMA SetPasswordStep ==
    ASSUME IdentityInv, NEW u \in Identity!UserIds, Identity!SetPassword(u)
    PROVE  IdentityInv' /\ Chosen
<1>1. PICK new \in Account : /\ new = [user[u] EXCEPT !.password = "own"]
                             /\ new.account = user[u].account
                             /\ new.email = user[u].email /\ new.password = "own"
  BY RowEdited
<1>2. /\ user' = [user EXCEPT ![u] = new] /\ Identity!Exists(u)
      /\ overtaken' = overtaken \cup
            {r \in Requests : /\ signer[r].at \in Acting
                              /\ signer[r].user = u /\ signer[r].none}
      /\ UNCHANGED <<identities, tokens, signer, made>>
  BY <1>1 DEF Identity!SetPassword, Acting
<1>3. /\ RowsSound'
      /\ \A v \in Identity!UserIds : Identity!Exists(v) => Identity!Exists(v)'
      /\ \A v \in Identity!UserIds \ {u} : user'[v] = user[v]
      /\ user'[u] = new
  BY <1>1, <1>2, Alteration
<1>4. ASSUME NEW r \in Requests PROVE Grounded(signer[r])' /\ Note(signer[r], r)'
  <2>1. PICK q \in Signer : signer[r] = q
    BY DEF IdentityInv, SignersSound
  <2>2. signer'[r] = q /\ Grounded(q) /\ Note(q, r)
    BY <1>2, <2>1 DEF IdentityInv, SignersSound
  <2>3. /\ q.at = "profile" => q.linking \in {0} \cup Identity!UserIds
        /\ q.at \in Acting => q.user \in Identity!UserIds /\ q.none \in BOOLEAN
        /\ q.at = "password" => \A t \in q.issues : t.target \in Identity!UserIds
    BY SignerFields DEF LinkToken
  <2>4. Grounded(q)'
    BY <1>3, <2>2, <2>3 DEF Grounded
  <2>5. Note(q, r)'
    BY <1>1, <1>2, <1>3, <2>1, <2>2, <2>3 DEF Note
  <2> QED
    BY <2>2, <2>4, <2>5 DEF Grounded, Note
<1>5. SignersSound'
  BY <1>2, <1>4 DEF IdentityInv, SignersSound
<1>6. TokensSound' /\ Chosen
  BY <1>1, <1>2, <1>3 DEF IdentityInv, TokensSound, LinkToken, Chosen
<1> QED
  BY <1>3, <1>5, <1>6 DEF IdentityInv

LEMMA BindEmailStep ==
    ASSUME IdentityInv, NEW u \in Identity!UserIds, NEW n \in Names, Identity!BindEmail(u, n)
    PROVE  IdentityInv' /\ Chosen
<1>1. PICK new \in Account : /\ new = [user[u] EXCEPT !.email = n]
                             /\ new.account = user[u].account
                             /\ new.email = n /\ new.password = user[u].password
  BY RowEdited
<1>2. /\ user' = [user EXCEPT ![u] = new] /\ Identity!Exists(u) /\ Identity!FreeEmail(new.email, u)
      /\ UNCHANGED <<identities, tokens, signer, made, overtaken>>
  BY <1>1 DEF Identity!BindEmail
<1>3. /\ RowsSound'
      /\ \A v \in Identity!UserIds : Identity!Exists(v) => Identity!Exists(v)'
      /\ \A v \in Identity!UserIds \ {u} : user'[v] = user[v]
      /\ user'[u] = new
  BY <1>1, <1>2, Alteration
<1>4. ASSUME NEW r \in Requests PROVE Grounded(signer[r])' /\ Note(signer[r], r)'
  <2>1. PICK q \in Signer : signer[r] = q
    BY DEF IdentityInv, SignersSound
  <2>2. signer'[r] = q /\ Grounded(q) /\ Note(q, r)
    BY <1>2, <2>1 DEF IdentityInv, SignersSound
  <2>3. /\ q.at = "profile" => q.linking \in {0} \cup Identity!UserIds
        /\ q.at \in Acting => q.user \in Identity!UserIds /\ q.none \in BOOLEAN
        /\ q.at = "password" => \A t \in q.issues : t.target \in Identity!UserIds
    BY SignerFields DEF LinkToken
  <2>4. Grounded(q)'
    BY <1>3, <2>2, <2>3 DEF Grounded
  <2>5. Note(q, r)'
    BY <1>1, <1>2, <1>3, <2>2, <2>3 DEF Note
  <2> QED
    BY <2>2, <2>4, <2>5 DEF Grounded, Note
<1>5. SignersSound'
  BY <1>2, <1>4 DEF IdentityInv, SignersSound
<1>6. TokensSound' /\ Chosen
  BY <1>1, <1>2, <1>3 DEF IdentityInv, TokensSound, LinkToken, Chosen
<1> QED
  BY <1>3, <1>5, <1>6 DEF IdentityInv

LEMMA IdentityStep == IdentityInv /\ Identity!Next => IdentityInv' /\ Chosen
<1> SUFFICES ASSUME IdentityInv, Identity!Next PROVE IdentityInv' /\ Chosen
  OBVIOUS
<1>1. ASSUME NEW r \in Requests, NEW n \in Names, Identity!Register(r, n)
      PROVE  IdentityInv' /\ Chosen
  BY <1>1, RegisterStep
<1>2. ASSUME NEW r \in Requests, Identity!CreateLocalUser(r) PROVE IdentityInv' /\ Chosen
  BY <1>2, CreateLocalUserStep
<1>3. ASSUME NEW r \in Requests, NEW p \in Profiles, NEW linking \in {0} \cup Identity!UserIds,
             Identity!SignInKnown(r, p, linking) \/ Identity!SignInUnknown(r, p, linking)
      PROVE  IdentityInv' /\ Chosen
  BY <1>3, SignInKnownStep, SignInUnknownStep
<1>4. ASSUME NEW r \in Requests, Identity!Profile(r) PROVE IdentityInv' /\ Chosen
  BY <1>4, ProfileStep
<1>5. ASSUME NEW r \in Requests, Identity!CreateOAuthUser(r) PROVE IdentityInv' /\ Chosen
  BY <1>5, CreateOAuthUserStep
<1>6. ASSUME NEW r \in Requests, Identity!EnsurePassword(r) PROVE IdentityInv' /\ Chosen
  BY <1>6, EnsurePasswordStep
<1>7. ASSUME NEW r \in Requests, NEW u \in Identity!UserIds, Identity!Bootstrap(r, u)
      PROVE  IdentityInv' /\ Chosen
  BY <1>7, QuietPassword DEF Identity!Bootstrap, Identity!rows
<1>8. ASSUME NEW r \in Requests, NEW t \in tokens, Identity!UseLinkToken(r, t)
      PROVE  IdentityInv' /\ Chosen
  BY <1>8, UseLinkTokenStep
<1>9. ASSUME NEW r \in Requests, Identity!LinkByProvider(r) \/ Identity!LinkByUser(r)
      PROVE  IdentityInv' /\ Chosen
  BY <1>9, LinkStep
<1>10. ASSUME NEW r \in Requests, Identity!InsertIdentity(r) PROVE IdentityInv' /\ Chosen
  BY <1>10, InsertIdentityStep
<1>11. ASSUME NEW r \in Requests, Identity!Fail(r) PROVE IdentityInv' /\ Chosen
  BY <1>11, QuietEnds DEF Identity!Fail, Identity!rows
<1>12. ASSUME NEW u \in Identity!UserIds, Identity!SetPassword(u) PROVE IdentityInv' /\ Chosen
  BY <1>12, SetPasswordStep
<1>13. ASSUME NEW u \in Identity!UserIds, NEW n \in Names, Identity!BindEmail(u, n)
       PROVE  IdentityInv' /\ Chosen
  BY <1>13, BindEmailStep
<1> QED
  BY <1>1, <1>2, <1>3, <1>4, <1>5, <1>6, <1>7, <1>8, <1>9, <1>10, <1>11, <1>12, <1>13
     DEF Identity!Next, Identity!NoOne

\* A step of another part, or none.
LEMMA IdentityRests ==
    IdentityInv /\ UNCHANGED <<user, identities, tokens, signer, made, overtaken>>
    => IdentityInv' /\ Chosen
BY DEF IdentityInv, RowsSound, TokensSound, SignersSound, Grounded, Note, Chosen,
   Identity!AccountsWhole, Identity!Exists

LEMMA IdentityHolds == IdentityInv /\ [PartsNext]_allVars => IdentityInv' /\ Chosen
<1> SUFFICES ASSUME IdentityInv, [PartsNext]_allVars PROVE IdentityInv' /\ Chosen
  OBVIOUS
<1>1. Identity!Next \/ UNCHANGED <<user, identities, tokens, signer, made, overtaken>>
  BY DEF PartsNext, allVars, identityVars
<1> QED
  BY <1>1, IdentityStep, IdentityRests

LEMMA IdentityAlways == PartsSpec => []IdentityInv
<1>1. IdentityInv /\ [PartsNext]_allVars => IdentityInv'
  BY IdentityHolds
<1> QED
  BY <1>1, IdentityInitial, PTL DEF PartsSpec

\* However registrations, sign-ins through a provider and links overlap, no
\* two users have the same account or address, no two users the same identity
\* of a provider, and a user a sign-in created keeps its identity.
THEOREM AccountsStayWhole == PartsSpec => []AccountsWhole
<1>1. IdentityInv => AccountsWhole
  BY IdentityTypes DEF IdentityInv, RowsSound, AccountsWhole
<1> QED
  BY <1>1, IdentityAlways, PTL

\* The initial password replaces one of the user's choice only by a request
\* that was under way, with a copy of a row without one, when it was chosen.
THEOREM ChoiceIsKept == PartsSpec => ChoiceStays
<1>1. IdentityInv /\ [PartsNext]_allVars
      => [\A u \in Identity!UserIds :
            (user[u].password = "own" /\ user'[u].password = "initial")
            => \E r \in overtaken : signer[r].user = u]_Identity!vars
  BY IdentityHolds DEF Chosen
<1> QED
  BY <1>1, IdentityAlways, PTL DEF PartsSpec, ChoiceStays, Identity!ChoiceStays

-----------------------------------------------------------------------------
(* The status the guard believes: how old a copy may be                    *)

Asking == {Guard!Idle} \cup [at : {"redis", "db"}, server : Servers]
Carrying == [at : {"copy", "store", "write"}, server : Servers,
             value : Guard!Values, held : 0..Latency]

\* A status read from the row before the change is as old as the change. It
\* is written to Redis within Latency ticks, there for Ttl, on its way to a
\* memory again for Latency, and in that memory for Ttl.
Aged(q) ==
    (q \in Carrying /\ q.value = "old") =>
        IF q.at = "copy" THEN since <= q.held + Latency + Ttl - 1 ELSE since <= q.held

GuardInv ==
    /\ Guard!TypeOK
    /\ status = "old" => since = 0
    /\ \A r \in Requests : Aged(guarded[r])
    /\ redis.value = "old" => since + redis.left <= Latency + Ttl
    /\ \A s \in Servers : memory[s].value = "old" =>
          since + memory[s].left <= 2 * Latency + 2 * Ttl - 1

\* The fields of a request by where it is.
LEMMA GuardFields ==
    ASSUME NEW q \in Asking \cup Carrying
    PROVE  /\ q.at \in {"redis", "db"} => q.server \in Servers /\ q \notin Carrying
           /\ q.at \in {"copy", "store", "write"} =>
                 q \in Carrying /\ q.server \in Servers /\ q.value \in Guard!Values /\ q.held \in 0..Latency
           /\ q.at \in {"idle", "redis", "db", "copy", "store", "write"}
           /\ q.at = "idle" => q \notin Carrying
BY DEF Asking, Carrying, Guard!Idle

LEMMA GuardTyped ==
    ASSUME GuardInv
    PROVE  /\ guarded \in [Requests -> Asking \cup Carrying]
           /\ since \in Nat /\ Ttl \in Nat \ {0} /\ Latency \in Nat \ {0}
           /\ \A s \in Servers : memory[s] \in Guard!Entry
           /\ redis \in Guard!Entry
BY PartsAssumption DEF GuardInv, Guard!TypeOK, Asking, Carrying, Guard!Grace

LEMMA EntryFields ==
    ASSUME NEW e \in Guard!Entry
    PROVE  /\ e.value \in {"none", "old", "new"} /\ e.left \in Nat /\ e.left <= Ttl
           /\ e.value = "old" => e.left >= 1
           /\ e.left > 0 => e.value \in Guard!Values
           /\ e = Guard!None \/ e.left >= 1
BY PartsAssumption DEF Guard!Entry, Guard!None, Guard!Values

LEMMA GuardInitial == PartsInit => GuardInv
<1> SUFFICES ASSUME PartsInit PROVE GuardInv
  OBVIOUS
<1>1. Guard!Init
  BY DEF PartsInit
<1>2. \A r \in Requests : guarded[r] = Guard!Idle
  BY <1>1 DEF Guard!Init
<1>3. \A r \in Requests : Aged(guarded[r])
  BY <1>2 DEF Aged, Carrying, Guard!Idle
<1> QED
  BY <1>1, <1>3, PartsAssumption DEF GuardInv, Guard!Init, Guard!TypeOK, Guard!Grace, Guard!Entry,
     Guard!None, Guard!Values

\* One request goes on; the clock and the row stay.
LEMMA GuardGoes ==
    ASSUME GuardInv, NEW r \in Requests, NEW to \in Asking \cup Carrying,
           Guard!Goes(r, to), UNCHANGED <<status, since>>, Aged(to)
    PROVE  /\ guarded' \in [Requests -> Asking \cup Carrying]
           /\ \A s \in Requests : Aged(guarded[s])'
<1>1. guarded' \in [Requests -> Asking \cup Carrying] /\ guarded'[r] = to
      /\ \A s \in Requests \ {r} : guarded'[s] = guarded[s]
  BY GuardTyped DEF Guard!Goes
<1> QED
  BY <1>1 DEF GuardInv, Aged

\* What GuardInv needs when the clock and the row stay.
LEMMA GuardKept ==
    ASSUME GuardInv, UNCHANGED <<status, since>>,
           guarded' \in [Requests -> Asking \cup Carrying],
           \A s \in Requests : Aged(guarded[s])',
           redis' \in Guard!Entry, redis'.value = "old" => since + redis'.left <= Latency + Ttl,
           memory' \in [Servers -> Guard!Entry],
           \A s \in Servers : memory'[s].value = "old" =>
              since + memory'[s].left <= 2 * Latency + 2 * Ttl - 1
    PROVE  GuardInv'
BY DEF GuardInv, Guard!TypeOK, Asking, Carrying

LEMMA GuardQuiet ==
    ASSUME GuardInv, NEW r \in Requests, NEW to \in Asking \cup Carrying, Guard!Goes(r, to),
           UNCHANGED <<status, since, memory, redis>>, Aged(to)
    PROVE  GuardInv'
BY GuardGoes, GuardKept DEF GuardInv, Guard!TypeOK

LEMMA FreshEntry ==
    ASSUME NEW v \in Guard!Values
    PROVE  Guard!Fresh(v) \in Guard!Entry /\ Guard!Fresh(v).value = v /\ Guard!Fresh(v).left = Ttl
BY PartsAssumption DEF Guard!Fresh, Guard!Entry

LEMMA GuardStep == GuardInv /\ Guard!Next => GuardInv'
<1> SUFFICES ASSUME GuardInv, Guard!Next PROVE GuardInv'
  OBVIOUS
<1>1. ASSUME NEW r \in Requests, NEW s \in Servers, Guard!Ask(r, s) PROVE GuardInv'
  <2> DEFINE to == [at |-> "redis", server |-> s]
  <2>1. to \in Asking /\ Aged(to)
    BY DEF Asking, Aged, Carrying
  <2> QED
    BY <1>1, <2>1, GuardQuiet DEF Guard!Ask
<1>2. ASSUME NEW r \in Requests, Guard!RedisHit(r) PROVE GuardInv'
  <2>1. guarded[r].server \in Servers /\ redis.value \in Guard!Values
    BY <1>2, GuardTyped, GuardFields, EntryFields DEF Guard!RedisHit, Guard!At, Guard!Live
  <2> DEFINE to == [at |-> "copy", server |-> guarded[r].server, value |-> redis.value, held |-> 0]
  <2>2. to \in Carrying
    BY <2>1, GuardTyped DEF Carrying
  <2>3. redis.value = "old" => since <= 0 + Latency + Ttl - 1
    BY GuardTyped, EntryFields DEF GuardInv
  <2>4. Aged(to)
    BY <2>3 DEF Aged
  <2> QED
    BY <1>2, <2>2, <2>4, GuardQuiet DEF Guard!RedisHit, Guard!Holds
<1>3. ASSUME NEW r \in Requests, Guard!RedisMiss(r) PROVE GuardInv'
  <2>1. PICK q \in Asking \cup Carrying : guarded[r] = q
    BY GuardTyped
  <2>2. [q EXCEPT !.at = "db"] \in Asking /\ Aged([q EXCEPT !.at = "db"])
    BY <1>3, <2>1 DEF Guard!RedisMiss, Guard!At, Asking, Carrying, Guard!Idle, Aged
  <2> QED
    BY <1>3, <2>1, <2>2, GuardQuiet DEF Guard!RedisMiss
<1>4. ASSUME NEW r \in Requests, Guard!ReadRow(r) PROVE GuardInv'
  <2>1. guarded[r].server \in Servers /\ status \in Guard!Values
    BY <1>4, GuardTyped, GuardFields DEF Guard!ReadRow, Guard!At, GuardInv, Guard!TypeOK
  <2> DEFINE to == [at |-> "store", server |-> guarded[r].server, value |-> status, held |-> 0]
  <2>2. to \in Carrying
    BY <2>1, GuardTyped DEF Carrying
  <2>3. Aged(to)
    BY DEF Aged, GuardInv
  <2> QED
    BY <1>4, <2>2, <2>3, GuardQuiet DEF Guard!ReadRow, Guard!Holds
<1>5. ASSUME NEW r \in Requests, Guard!SetMemory(r) PROVE GuardInv'
  <2>1. PICK q \in Asking \cup Carrying : guarded[r] = q
    BY GuardTyped
  <2>2. /\ q.at \in {"copy", "store"} /\ q \in Carrying
        /\ q.server \in Servers /\ q.value \in Guard!Values /\ q.held \in 0..Latency /\ Aged(q)
    BY <1>5, <2>1, GuardFields DEF Guard!SetMemory, Guard!At, GuardInv
  <2>3. /\ memory' = [memory EXCEPT ![q.server] = Guard!Fresh(q.value)]
        /\ UNCHANGED <<status, since, redis>>
        /\ Guard!Goes(r, IF q.at = "store" THEN [q EXCEPT !.at = "write"] ELSE Guard!Idle)
    BY <1>5, <2>1 DEF Guard!SetMemory, Guard!At
  <2>4. q.value = "old" => since + Ttl <= 2 * Latency + 2 * Ttl - 1
    BY <2>2, GuardTyped DEF Aged
  <2>5. /\ memory' \in [Servers -> Guard!Entry]
        /\ \A s \in Servers : memory'[s].value = "old" =>
              since + memory'[s].left <= 2 * Latency + 2 * Ttl - 1
    BY <2>2, <2>3, <2>4, FreshEntry DEF GuardInv, Guard!TypeOK
  <2>6. PICK to : to = IF q.at = "store" THEN [q EXCEPT !.at = "write"] ELSE Guard!Idle
    OBVIOUS
  <2>7. to \in Asking \cup Carrying /\ Aged(to)
    <3>1. CASE q.at = "store"
      <4>1. /\ to \in Carrying /\ to.at = "write" /\ to.value = q.value /\ to.held = q.held
        BY <2>2, <2>6, <3>1 DEF Carrying
      <4> QED
        BY <2>2, <3>1, <4>1 DEF Aged
    <3>2. CASE q.at = "copy"
      BY <2>6, <3>2 DEF Asking, Carrying, Aged, Guard!Idle
    <3> QED
      BY <2>2, <3>1, <3>2
  <2>8. Guard!Goes(r, to)
    BY <2>3, <2>6
  <2> QED
    BY <2>3, <2>5, <2>7, <2>8, GuardGoes, GuardKept DEF GuardInv, Guard!TypeOK
<1>6. ASSUME NEW r \in Requests, NEW works \in BOOLEAN, Guard!Write(r, works) PROVE GuardInv'
  <2>1. PICK q \in Asking \cup Carrying : guarded[r] = q
    BY GuardTyped
  <2>2. /\ q.at = "write" /\ q \in Carrying
        /\ q.value \in Guard!Values /\ q.held \in 0..Latency /\ Aged(q)
    BY <1>6, <2>1, GuardFields DEF Guard!Write, Guard!At, GuardInv
  <2>3. q.value = "old" => since + Ttl <= Latency + Ttl
    BY <2>2, GuardTyped DEF Aged
  <2>4. redis' \in Guard!Entry /\ (redis'.value = "old" => since + redis'.left <= Latency + Ttl)
    BY <1>6, <2>1, <2>2, <2>3, FreshEntry DEF Guard!Write, GuardInv, Guard!TypeOK
  <2>5. Guard!Idle \in Asking /\ Aged(Guard!Idle)
    BY DEF Asking, Aged, Carrying, Guard!Idle
  <2>6. Guard!Goes(r, Guard!Idle) /\ UNCHANGED <<status, since, memory>>
    BY <1>6 DEF Guard!Write
  <2> QED
    BY <2>4, <2>5, <2>6, GuardGoes, GuardKept DEF GuardInv, Guard!TypeOK
<1>7. ASSUME NEW r \in Requests, Guard!Fail(r) PROVE GuardInv'
  BY <1>7, GuardQuiet DEF Guard!Fail, Asking, Aged, Carrying, Guard!Idle
<1>8. ASSUME NEW s \in Servers, Guard!Restart(s) PROVE GuardInv'
  <2>1. /\ guarded' \in [Requests -> Asking \cup Carrying]
        /\ \A r \in Requests : guarded'[r] = guarded[r] \/ guarded'[r] = Guard!Idle
        /\ UNCHANGED <<status, since, redis>>
    BY <1>8, GuardTyped DEF Guard!Restart, Asking
  <2>2. \A r \in Requests : Aged(guarded[r])'
    BY <2>1 DEF Aged, GuardInv, Carrying, Guard!Idle
  <2>3. /\ memory' \in [Servers -> Guard!Entry]
        /\ \A t \in Servers : memory'[t] = memory[t] \/ memory'[t].value = "none"
    BY <1>8 DEF Guard!Restart, GuardInv, Guard!TypeOK, Guard!None, Guard!Entry
  <2> QED
    BY <2>1, <2>2, <2>3, GuardKept DEF GuardInv, Guard!TypeOK
<1>9. ASSUME Guard!Change PROVE GuardInv'
  BY <1>9 DEF Guard!Change, GuardInv, Guard!TypeOK, Aged, Guard!Values
<1>10. ASSUME Guard!Tick PROVE GuardInv'
  <2>1. since' \in 0..(Guard!Grace + 1) /\ since' <= since + 1 /\ (status = "old" => since' = since)
    BY <1>10, PartsAssumption DEF Guard!Tick, GuardInv, Guard!TypeOK, Guard!Grace
  <2>2. ASSUME NEW e \in Guard!Entry
        PROVE  /\ Guard!Older(e) \in Guard!Entry
               /\ Guard!Older(e).value = "old" => e.value = "old" /\ Guard!Older(e).left = e.left - 1
    <3>1. CASE e.left <= 1
      BY <3>1 DEF Guard!Older, Guard!None, Guard!Entry
    <3>2. CASE e.left > 1
      <4>1. e \in [value : Guard!Values, left : 1..Ttl]
        BY <3>2 DEF Guard!Entry, Guard!None
      <4>2. Guard!Older(e) = [e EXCEPT !.left = @ - 1]
        BY <3>2, <4>1, PartsAssumption DEF Guard!Older
      <4> QED
        BY <3>2, <4>1, <4>2, PartsAssumption DEF Guard!Entry
    <3> QED
      BY <3>1, <3>2, EntryFields
  <2>3. redis' \in Guard!Entry
        /\ (redis'.value = "old" => since' + redis'.left <= Latency + Ttl)
    BY <1>10, <2>1, <2>2, GuardTyped, EntryFields DEF Guard!Tick, GuardInv
  <2>4. memory' \in [Servers -> Guard!Entry]
    BY <1>10, <2>2, GuardTyped DEF Guard!Tick
  <2>5. ASSUME NEW s \in Servers, memory'[s].value = "old"
        PROVE  since' + memory'[s].left <= 2 * Latency + 2 * Ttl - 1
    <3>1. PICK e \in Guard!Entry : memory[s] = e
      BY GuardTyped
    <3>2. memory'[s] = Guard!Older(e)
      BY <1>10, <3>1 DEF Guard!Tick
    <3> QED
      BY <2>1, <2>2, <2>5, <3>1, <3>2, GuardTyped, EntryFields DEF GuardInv
  <2>6. ASSUME NEW r \in Requests
        PROVE  guarded'[r] \in Asking \cup Carrying /\ Aged(guarded[r])'
    <3>1. PICK q \in Asking \cup Carrying : guarded[r] = q
      BY GuardTyped
    <3>2. CASE q.at \in {"copy", "store", "write"}
      <4>1. q \in Carrying /\ q.held \in 0..Latency /\ q.held < Latency /\ Aged(q)
        BY <1>10, <3>1, <3>2, GuardFields DEF Guard!Tick, Guard!Carries, GuardInv
      <4>2. PICK to : to = [q EXCEPT !.held = @ + 1]
        OBVIOUS
      <4>3. to \in Carrying /\ to.at = q.at /\ to.value = q.value /\ to.held = q.held + 1
        BY <4>1, <4>2, GuardTyped DEF Carrying
      <4>4. guarded'[r] = to
        BY <1>10, <3>1, <3>2, <4>2 DEF Guard!Tick, Guard!Carries
      <4>5. Aged(to)'
        BY <2>1, <4>1, <4>3, GuardTyped DEF Aged
      <4> QED
        BY <4>3, <4>4, <4>5 DEF Aged
    <3>3. CASE q.at \notin {"copy", "store", "write"}
      <4>1. q \in Asking /\ q \notin Carrying /\ guarded'[r] = q
        BY <1>10, <3>1, <3>3 DEF Guard!Tick, Guard!Carries, Carrying
      <4> QED
        BY <4>1 DEF Aged
    <3> QED
      BY <3>2, <3>3
  <2>7. guarded' \in [Requests -> Asking \cup Carrying]
    BY <1>10, <2>6 DEF Guard!Tick
  <2> QED
    BY <1>10, <2>1, <2>3, <2>4, <2>5, <2>6, <2>7
       DEF Guard!Tick, GuardInv, Guard!TypeOK, Asking, Carrying
<1> QED
  BY <1>1, <1>2, <1>3, <1>4, <1>5, <1>6, <1>7, <1>8, <1>9, <1>10 DEF Guard!Next

LEMMA GuardAlways == PartsSpec => []GuardInv
<1>1. GuardInv /\ UNCHANGED <<status, since, memory, redis, guarded>> => GuardInv'
  BY DEF GuardInv, Guard!TypeOK, Aged
<1>2. GuardInv /\ [PartsNext]_allVars => GuardInv'
  BY <1>1, GuardStep DEF PartsNext, allVars, statusVars
<1> QED
  BY <1>2, GuardInitial, PTL DEF PartsSpec

\* Once the row has changed, no memory, no entry of Redis and no request
\* holds the old status for longer than two lifetimes and two trips.
THEOREM StaleStatusEnds == PartsSpec => []StaleEnds
<1>1. GuardInv => StaleEnds
  <2> SUFFICES ASSUME GuardInv, since > Guard!Grace PROVE Guard!TypeOK /\ Guard!StaleEnds
    BY DEF StaleEnds, Guard!StaleEnds, GuardInv
  <2>1. since >= 2 * Ttl + 2 * Latency - 1
    BY GuardTyped, PartsAssumption DEF Guard!Grace
  <2>2. \A s \in Servers : memory[s].value # "old"
    BY <2>1, GuardTyped, EntryFields DEF GuardInv
  <2>3. redis.value # "old"
    BY <2>1, GuardTyped, EntryFields DEF GuardInv
  <2>4. ASSUME NEW r \in Requests, Guard!Carries(r) PROVE guarded[r].value # "old"
    <3>1. PICK q \in Asking \cup Carrying : guarded[r] = q
      BY GuardTyped
    <3>2. q \in Carrying /\ q.held \in 0..Latency /\ Aged(q)
      BY <2>4, <3>1, GuardFields DEF Guard!Carries, GuardInv
    <3> QED
      BY <2>1, <3>1, <3>2, GuardTyped DEF Aged
  <2> QED
    BY <2>2, <2>3, <2>4 DEF Guard!StaleEnds, GuardInv
<1> QED
  BY <1>1, GuardAlways, PTL

-----------------------------------------------------------------------------
(* Challenges: issued once, deleted before they let anybody in             *)

Verifying == {"wrong", "reset", "delete", "right", "close", "login"}
Issuance == {"store", "mail", "retract"}

\* A challenge belongs to the request that issues it until its token is sent;
\* when an administrator is let in, its own deletion has been done.
Issued ==
    /\ stored \cup sent \subseteq known
    /\ accepted \cap stored = {} /\ accepted \subseteq sent
    /\ \A r \in Requests :
         /\ challenger[r].at \in Issuance =>
              /\ challenger[r].challenge \in known \ sent
              /\ \A s \in Requests \ {r} :
                    challenger[s].at # "idle" => challenger[s].challenge # challenger[r].challenge
         /\ challenger[r].at \in Verifying => challenger[r].challenge \in sent
         /\ challenger[r].at = "login" => challenger[r].challenge \notin stored

Challenged == [at : Issuance \cup Verifying, challenge : Challenges]

LEMMA ChallengeFields ==
    ASSUME Challenge!TypeOK, NEW r \in Requests
    PROVE  /\ challenger[r].at # "idle" =>
                 challenger[r] \in Challenged /\ challenger[r].challenge \in Challenges
                 /\ challenger[r].at \in Issuance \cup Verifying
           /\ challenger[r].at = "idle" => challenger[r] = Challenge!Idle
BY DEF Challenge!TypeOK, Challenge!Idle, Challenged, Issuance, Verifying

LEMMA ChallengeTypes == Challenge!TypeOK /\ Challenge!Next => Challenge!TypeOK'
<1> SUFFICES ASSUME Challenge!TypeOK, Challenge!Next PROVE Challenge!TypeOK'
  OBVIOUS
<1> USE PartsAssumption
<1>1. ASSUME NEW r \in Requests, NEW c \in Challenges, Challenge!Login(r, c) PROVE Challenge!TypeOK'
  BY <1>1 DEF Challenge!TypeOK, Challenge!Login, Challenge!Goes, Challenge!redis
<1>2. ASSUME NEW r \in Requests, NEW c \in Challenges, NEW right \in BOOLEAN,
             Challenge!Read(r, c, right)
      PROVE  Challenge!TypeOK'
  BY <1>2 DEF Challenge!TypeOK, Challenge!Read, Challenge!Goes, Challenge!redis
<1>3. ASSUME NEW r \in Requests, challenger[r].at # "idle",
             NEW at \in Issuance \cup Verifying,
             \/ challenger' = [challenger EXCEPT ![r].at = at]
             \/ challenger' = [challenger EXCEPT ![r] = Challenge!Idle]
      PROVE  challenger' \in [Requests -> {Challenge!Idle} \cup Challenged]
  <2>1. challenger \in [Requests -> {Challenge!Idle} \cup Challenged]
    BY DEF Challenge!TypeOK, Challenged, Issuance, Verifying
  <2>2. PICK q \in Challenged : q = challenger[r]
    BY <1>3, ChallengeFields
  <2>3. [q EXCEPT !.at = at] \in Challenged
    BY <1>3 DEF Challenged
  <2> QED
    BY <1>3, <2>1, <2>2, <2>3
<1>4. ASSUME NEW r \in Requests,
             \/ Challenge!Store(r) \/ Challenge!Retract(r)
             \/ \E delivered \in BOOLEAN : Challenge!Mail(r, delivered)
             \/ Challenge!CountWrong(r) \/ Challenge!Reset(r) \/ Challenge!Delete(r)
             \/ \E unchanged \in BOOLEAN : Challenge!Accept(r, unchanged)
             \/ Challenge!Fail(r)
      PROVE  Challenge!TypeOK'
  <2>1. challenger[r].at # "idle"
    BY <1>4 DEF Challenge!Store, Challenge!Retract, Challenge!Mail, Challenge!CountWrong,
       Challenge!Reset, Challenge!Delete, Challenge!Accept, Challenge!Fail, Challenge!At
  <2>2. challenger[r].challenge \in Challenges
    BY <2>1, ChallengeFields
  <2>3. challenger' \in [Requests -> {Challenge!Idle} \cup Challenged]
    BY <1>3, <1>4, <2>1 DEF Challenge!Store, Challenge!Retract, Challenge!Mail, Challenge!CountWrong,
       Challenge!Reset, Challenge!Delete, Challenge!Accept, Challenge!Fail, Challenge!Moves,
       Challenge!Goes, Issuance, Verifying
  <2>4. /\ stored' \subseteq Challenges /\ known' \subseteq Challenges /\ sent' \subseteq Challenges
        /\ accepted' \subseteq Challenges /\ broken' \subseteq Challenges
    BY <1>4, <2>2 DEF Challenge!TypeOK, Challenge!Store, Challenge!Retract, Challenge!Mail,
       Challenge!CountWrong, Challenge!Reset, Challenge!Delete, Challenge!Accept, Challenge!Fail,
       Challenge!redis
  <2>5. wrong' \in [Challenges -> 0..ChallengeMaxAttempts] /\ answered' \in [Challenges -> Nat]
    BY <1>4, <2>2 DEF Challenge!TypeOK, Challenge!Store, Challenge!Retract, Challenge!Mail,
       Challenge!CountWrong, Challenge!Reset, Challenge!Delete, Challenge!Accept, Challenge!Fail,
       Challenge!redis, Challenge!IfWhole
  <2> QED
    BY <2>3, <2>4, <2>5 DEF Challenge!TypeOK, Challenged, Issuance, Verifying
<1>5. ASSUME NEW c \in Challenges, Challenge!Expire(c) PROVE Challenge!TypeOK'
  BY <1>5 DEF Challenge!TypeOK, Challenge!Expire
<1> QED
  BY <1>1, <1>2, <1>4, <1>5 DEF Challenge!Next

\* A request goes on with its challenge; nobody else does.
LEMMA ChallengeMoves ==
    ASSUME Challenge!TypeOK, NEW r \in Requests, challenger[r].at # "idle",
           NEW at, Challenge!Moves(r, at)
    PROVE  /\ challenger'[r].at = at /\ challenger'[r].challenge = challenger[r].challenge
           /\ \A s \in Requests \ {r} : challenger'[s] = challenger[s]
<1>1. challenger[r] \in Challenged
  BY ChallengeFields
<1> QED
  BY <1>1 DEF Challenge!TypeOK, Challenge!Moves, Challenged

LEMMA ChallengeGoes ==
    ASSUME Challenge!TypeOK, NEW r \in Requests, NEW to, Challenge!Goes(r, to)
    PROVE  challenger'[r] = to /\ \A s \in Requests \ {r} : challenger'[s] = challenger[s]
BY DEF Challenge!TypeOK, Challenge!Goes

LEMMA IssuedStep == Challenge!TypeOK /\ Issued /\ Challenge!Next => Issued'
<1> SUFFICES ASSUME Challenge!TypeOK, Issued, Challenge!Next PROVE Issued'
  OBVIOUS
<1> USE ChallengeFields DEF Issuance, Verifying
<1>1. ASSUME NEW r \in Requests, NEW c \in Challenges, Challenge!Login(r, c) PROVE Issued'
  <2>1. /\ challenger'[r].at = "store" /\ challenger'[r].challenge = c
        /\ \A s \in Requests \ {r} : challenger'[s] = challenger[s]
        /\ known' = known \cup {c} /\ c \notin known
        /\ UNCHANGED <<stored, sent, accepted>>
    BY <1>1, ChallengeGoes DEF Challenge!Login, Challenge!redis
  <2> QED
    BY <2>1 DEF Issued
<1>2. ASSUME NEW r \in Requests, Challenge!Store(r) PROVE Issued'
  <2>1. /\ challenger[r].at = "store" /\ challenger'[r].at = "mail"
        /\ challenger'[r].challenge = challenger[r].challenge
        /\ \A s \in Requests \ {r} : challenger'[s] = challenger[s]
        /\ stored' = stored \cup {challenger[r].challenge}
        /\ UNCHANGED <<known, sent, accepted>>
    BY <1>2, ChallengeMoves DEF Challenge!Store, Challenge!At
  <2> QED
    BY <2>1 DEF Issued
<1>3. ASSUME NEW r \in Requests, NEW delivered \in BOOLEAN, Challenge!Mail(r, delivered)
      PROVE  Issued'
  <2>1. CASE delivered
    <3>1. /\ challenger[r].at = "mail" /\ challenger'[r].at = "idle"
          /\ \A s \in Requests \ {r} : challenger'[s] = challenger[s]
          /\ sent' = sent \cup {challenger[r].challenge}
          /\ UNCHANGED <<known, stored, accepted>>
      BY <1>3, <2>1, ChallengeGoes DEF Challenge!Mail, Challenge!At, Challenge!Idle, Challenge!redis
    <3> QED
      BY <3>1 DEF Issued
  <2>2. CASE ~delivered
    <3>1. /\ challenger[r].at = "mail" /\ challenger'[r].at = "retract"
          /\ challenger'[r].challenge = challenger[r].challenge
          /\ \A s \in Requests \ {r} : challenger'[s] = challenger[s]
          /\ UNCHANGED <<known, sent, stored, accepted>>
      BY <1>3, <2>2, ChallengeMoves DEF Challenge!Mail, Challenge!At, Challenge!redis
    <3> QED
      BY <3>1 DEF Issued
  <2> QED
    BY <2>1, <2>2
<1>4. ASSUME NEW r \in Requests, NEW c \in Challenges, NEW right \in BOOLEAN,
             Challenge!Read(r, c, right)
      PROVE  Issued'
  <2>1. /\ challenger'[r].at \in {"right", "wrong"} /\ challenger'[r].challenge = c /\ c \in sent
        /\ \A s \in Requests \ {r} : challenger'[s] = challenger[s]
        /\ UNCHANGED <<known, stored, sent, accepted>>
    BY <1>4, ChallengeGoes DEF Challenge!Read, Challenge!redis
  <2> QED
    BY <2>1 DEF Issued
<1>5. ASSUME NEW r \in Requests, Challenge!CountWrong(r) \/ Challenge!Reset(r) PROVE Issued'
  <2>1. /\ challenger[r].at \in {"wrong", "right", "reset"}
        /\ \/ challenger'[r].at = "idle"
           \/ /\ challenger'[r].at \in {"reset", "close", "delete"}
              /\ challenger'[r].challenge = challenger[r].challenge
        /\ \A s \in Requests \ {r} : challenger'[s] = challenger[s]
        /\ UNCHANGED <<known, stored, sent, accepted>>
    BY <1>5, ChallengeMoves, ChallengeGoes
       DEF Challenge!CountWrong, Challenge!Reset, Challenge!At, Challenge!Idle
  <2> QED
    BY <2>1 DEF Issued
<1>6. ASSUME NEW r \in Requests, Challenge!Delete(r) \/ Challenge!Retract(r) PROVE Issued'
  <2>1. /\ challenger[r].at \in {"retract", "delete", "close"}
        /\ \/ challenger'[r].at = "idle"
           \/ /\ challenger[r].at = "close" /\ challenger'[r].at = "login"
              /\ challenger'[r].challenge = challenger[r].challenge
        /\ \A s \in Requests \ {r} : challenger'[s] = challenger[s]
        /\ stored' = stored \ {challenger[r].challenge}
        /\ UNCHANGED <<known, sent, accepted>>
    BY <1>6, ChallengeMoves, ChallengeGoes
       DEF Challenge!Delete, Challenge!Retract, Challenge!At, Challenge!Idle
  <2> QED
    BY <2>1 DEF Issued
<1>7. ASSUME NEW r \in Requests, NEW unchanged \in BOOLEAN, Challenge!Accept(r, unchanged)
      PROVE  Issued'
  <2>1. /\ challenger[r].at = "login" /\ challenger'[r].at = "idle"
        /\ \A s \in Requests \ {r} : challenger'[s] = challenger[s]
        /\ accepted' = accepted \/ accepted' = accepted \cup {challenger[r].challenge}
        /\ UNCHANGED <<known, sent, stored>>
    BY <1>7, ChallengeGoes DEF Challenge!Accept, Challenge!At, Challenge!Idle, Challenge!redis
  <2> QED
    BY <2>1 DEF Issued
<1>8. ASSUME NEW r \in Requests, Challenge!Fail(r) PROVE Issued'
  <2>1. /\ challenger'[r].at = "idle"
        /\ \A s \in Requests \ {r} : challenger'[s] = challenger[s]
        /\ UNCHANGED <<known, sent, stored, accepted>>
    BY <1>8, ChallengeGoes DEF Challenge!Fail, Challenge!Idle, Challenge!redis
  <2> QED
    BY <2>1 DEF Issued
<1>9. ASSUME NEW c \in Challenges, Challenge!Expire(c) PROVE Issued'
  BY <1>9 DEF Issued, Challenge!Expire
<1> QED
  BY <1>1, <1>2, <1>3, <1>4, <1>5, <1>6, <1>7, <1>8, <1>9 DEF Challenge!Next

-----------------------------------------------------------------------------
(* Challenges: rounds of wrong answers                                     *)

\* Requests that have yet to count an answer to c or to empty its counter,
\* and those that have emptied it and are to delete c.
Counting(c) == {r \in Requests : /\ challenger[r].at \in {"wrong", "reset", "right"}
                                 /\ challenger[r].challenge = c}
Deleting(c) == {r \in Requests : /\ challenger[r].at \in {"delete", "close"}
                                 /\ challenger[r].challenge = c}

\* Answers a round may tell of, and those the present one has told of.
Answers == ChallengeMaxAttempts - 1
Round(c) == IF wrong[c] < ChallengeMaxAttempts THEN wrong[c] ELSE Answers

\* While c is stored each round but the present one was ended by a request
\* that is about to delete c; once it is gone, a request that has not ended
\* a round is under way or never will.
RoundsOf(c) ==
    /\ c \notin sent => wrong[c] = 0 /\ answered[c] = 0
    /\ c \in stored =>
         /\ answered[c] <= Answers * Cardinality(Deleting(c)) + Round(c)
         /\ wrong[c] > 0 => Deleting(c) # Requests
    /\ c \notin stored =>
         IF Counting(c) = {}
         THEN answered[c] <= Answers * Cardinality(Requests)
         ELSE answered[c] <= Answers * (Cardinality(Requests) - Cardinality(Counting(c))) + Round(c)

Rounds == \A c \in Challenges \ broken : RoundsOf(c)

LEMMA Products ==
    ASSUME NEW m \in Nat, NEW a \in Nat, NEW b \in Nat, a <= b
    PROVE  /\ m * a \in Nat /\ m * b \in Nat /\ m * a <= m * b
           /\ m * (a + 1) = m * a + m
           /\ a < b => m * a + m <= m * b
<1>1. PICK d \in Nat : b = a + d
  BY SMT
<1>2. m * b = m * a + m * d /\ m * d \in Nat /\ m * a \in Nat
  BY <1>1, SMT
<1>3. m * (a + 1) = m * a + m
  BY SMT
<1>4. ASSUME a < b PROVE m * a + m <= m * b
  <2>1. PICK e \in Nat : b = a + 1 + e
    BY <1>4, SMT
  <2>2. m * b = m * a + m + m * e /\ m * e \in Nat
    BY <2>1, SMT
  <2> QED
    BY <1>2, <2>2, SMT
<1> QED
  BY <1>2, <1>3, <1>4, SMT

LEMMA RoundFacts ==
    ASSUME Challenge!TypeOK, NEW c \in Challenges
    PROVE  /\ Answers \in Nat /\ Round(c) \in Nat /\ Round(c) <= Answers
           /\ wrong[c] \in Nat /\ answered[c] \in Nat /\ (wrong[c] = 0 => Round(c) = 0)
           /\ Cardinality(Requests) \in Nat
           /\ Cardinality(Deleting(c)) \in Nat /\ Cardinality(Counting(c)) \in Nat
           /\ Cardinality(Deleting(c)) + Cardinality(Counting(c)) <= Cardinality(Requests)
           /\ Deleting(c) # Requests => Cardinality(Deleting(c)) + 1 <= Cardinality(Requests)
           /\ Counting(c) # {} => Cardinality(Counting(c)) >= 1
<1>1. /\ Answers \in Nat /\ Round(c) \in Nat /\ Round(c) <= Answers
      /\ wrong[c] \in Nat /\ answered[c] \in Nat /\ (wrong[c] = 0 => Round(c) = 0)
  BY PartsAssumption DEF Challenge!TypeOK, Answers, Round
<1> DEFINE D == Deleting(c)
           C == Counting(c)
<1>2. D \in SUBSET Requests /\ C \in SUBSET Requests /\ D \cap C = {}
  BY DEF Deleting, Counting
<1> HIDE DEF D, C
<1>3. IsFiniteSet(D) /\ IsFiniteSet(C) /\ IsFiniteSet(D \cup C) /\ IsFiniteSet(Requests)
  BY <1>2, CodesAssumption, FS_Subset, FS_Union
<1>4. Cardinality(D \cup C) = Cardinality(D) + Cardinality(C)
  <2>1. Cardinality(D \cap C) = 0 /\ Cardinality(D) \in Nat /\ Cardinality(C) \in Nat
    BY <1>2, <1>3, FS_EmptySet, FS_CardinalityType
  <2>2. Cardinality(D \cup C) = Cardinality(D) + Cardinality(C) - Cardinality(D \cap C)
    BY <1>3, FS_Union
  <2> QED
    BY <2>1, <2>2
<1>5. Cardinality(D \cup C) <= Cardinality(Requests)
  BY <1>2, <1>3, FS_Subset
<1>6. /\ Cardinality(Requests) \in Nat /\ Cardinality(D) \in Nat /\ Cardinality(C) \in Nat
      /\ C # {} => Cardinality(C) >= 1
  BY <1>3, FS_CardinalityType, FS_EmptySet
<1>7. D # Requests => Cardinality(D) + 1 <= Cardinality(Requests)
  BY <1>2, <1>6, WithoutOne
<1> QED
  BY <1>1, <1>4, <1>5, <1>6, <1>7 DEF D, C

\* A challenge is bounded whatever round it is in.
LEMMA RoundsBound ==
    ASSUME Challenge!TypeOK, NEW c \in Challenges, RoundsOf(c)
    PROVE  answered[c] <= Answers * Cardinality(Requests)
<1> DEFINE N == Cardinality(Requests)
           a == Cardinality(Deleting(c))
           b == Cardinality(Counting(c))
<1>1. /\ Answers \in Nat /\ Round(c) \in Nat /\ Round(c) <= Answers
      /\ answered[c] \in Nat /\ (wrong[c] = 0 => Round(c) = 0) /\ wrong[c] \in Nat
      /\ N \in Nat /\ a \in Nat /\ b \in Nat /\ a + b <= N
      /\ (Deleting(c) # Requests => a + 1 <= N)
      /\ (Counting(c) # {} => b >= 1)
  BY RoundFacts
<1>2. CASE c \in stored
  <2>1. answered[c] <= Answers * a + Round(c) /\ (wrong[c] > 0 => Deleting(c) # Requests)
    BY <1>2 DEF RoundsOf
  <2>2. CASE wrong[c] = 0
    <3>1. Answers * a <= Answers * N /\ Answers * a \in Nat /\ Answers * N \in Nat
      BY <1>1, Products
    <3> QED
      BY <1>1, <2>1, <2>2, <3>1
  <2>3. CASE wrong[c] > 0
    <3>1. Answers * a + Answers <= Answers * N /\ Answers * a \in Nat /\ Answers * N \in Nat
      BY <1>1, <2>1, <2>3, Products
    <3> QED
      BY <1>1, <2>1, <3>1
  <2> QED
    BY <1>1, <2>2, <2>3
<1>3. CASE c \notin stored /\ Counting(c) # {}
  <2>1. answered[c] <= Answers * (N - b) + Round(c)
    BY <1>3 DEF RoundsOf
  <2>2. N - b \in Nat /\ N - b < N
    BY <1>1, <1>3
  <2>3. Answers * (N - b) + Answers <= Answers * N /\ Answers * (N - b) \in Nat /\ Answers * N \in Nat
    BY <1>1, <2>2, Products
  <2> QED
    BY <1>1, <2>1, <2>3
<1>4. CASE c \notin stored /\ Counting(c) = {}
  BY <1>4 DEF RoundsOf
<1> QED
  BY <1>2, <1>3, <1>4

\* Nothing that concerns c changes, but that it may come to be sent.
LEMMA RoundsKept ==
    ASSUME Challenge!TypeOK, NEW c \in Challenges, RoundsOf(c),
           Deleting(c)' = Deleting(c), Counting(c)' = Counting(c),
           wrong'[c] = wrong[c], answered'[c] = answered[c],
           c \in stored' <=> c \in stored, c \in sent => c \in sent'
    PROVE  RoundsOf(c)'
BY DEF RoundsOf, Round

\* The challenge goes, by a deletion or because its time is over. The one
\* who deletes it may move on.
LEMMA RoundsGone ==
    ASSUME Challenge!TypeOK, NEW c \in Challenges, RoundsOf(c),
           Counting(c)' = Counting(c), wrong'[c] = wrong[c], answered'[c] = answered[c],
           c \notin stored', c \in sent => c \in sent'
    PROVE  RoundsOf(c)'
<1> DEFINE N == Cardinality(Requests)
           a == Cardinality(Deleting(c))
           b == Cardinality(Counting(c))
<1>1. /\ Answers \in Nat /\ Round(c) \in Nat /\ Round(c) <= Answers
      /\ answered[c] \in Nat /\ N \in Nat /\ a \in Nat /\ b \in Nat /\ a + b <= N
  BY RoundFacts
<1>2. Round(c)' = Round(c)
  BY DEF Round
<1>3. CASE c \in stored /\ Counting(c) # {}
  <2>1. answered[c] <= Answers * a + Round(c)
    BY <1>3 DEF RoundsOf
  <2>2. N - b \in Nat /\ a <= N - b
    BY <1>1
  <2>3. Answers * a <= Answers * (N - b) /\ Answers * a \in Nat /\ Answers * (N - b) \in Nat
    BY <1>1, <2>2, Products
  <2>4. answered[c] <= Answers * (N - b) + Round(c)
    BY <1>1, <2>1, <2>3
  <2> QED
    BY <1>2, <1>3, <2>4 DEF RoundsOf
<1>4. CASE c \in stored /\ Counting(c) = {}
  BY <1>4, RoundsBound DEF RoundsOf
<1>5. CASE c \notin stored
  BY <1>2, <1>5 DEF RoundsOf
<1> QED
  BY <1>3, <1>4, <1>5

\* A request that has yet to count or to empty stops doing so: it is told of
\* its answer, it empties the counter, or it fails.
LEMMA RoundsLeft ==
    ASSUME Challenge!TypeOK, Challenge!TypeOK', NEW c \in Challenges, RoundsOf(c), c \notin stored,
           NEW r \in Counting(c), Counting(c)' = Counting(c) \ {r},
           \/ answered'[c] = answered[c] /\ (wrong'[c] = wrong[c] \/ wrong'[c] = 0)
           \/ /\ answered'[c] = answered[c] + 1 /\ wrong'[c] = wrong[c] + 1
              /\ wrong'[c] < ChallengeMaxAttempts,
           c \notin stored', c \in sent => c \in sent', c \in sent
    PROVE  RoundsOf(c)'
<1> DEFINE N == Cardinality(Requests)
           b == Cardinality(Counting(c))
<1>1. /\ Answers \in Nat /\ Round(c) \in Nat /\ Round(c) <= Answers
      /\ answered[c] \in Nat /\ wrong[c] \in Nat /\ N \in Nat /\ b \in Nat /\ b <= N /\ b >= 1
      /\ ChallengeMaxAttempts \in Nat \ {0}
  <2>1. Counting(c) # {}
    OBVIOUS
  <2> QED
    BY <2>1, RoundFacts, PartsAssumption
<1>2. Round(c)' \in Nat /\ answered'[c] \in Nat
  BY PartsAssumption DEF Challenge!TypeOK, Round, Answers
<1>3. Counting(c) \in SUBSET Requests /\ Cardinality(Counting(c) \ {r}) = b - 1
  BY WithoutOne DEF Counting
<1>4. answered[c] <= Answers * (N - b) + Round(c)
  BY DEF RoundsOf
<1>5. N - b \in Nat /\ N - (b - 1) = (N - b) + 1
  BY <1>1
<1>6. Answers * (N - (b - 1)) = Answers * (N - b) + Answers /\ Answers * (N - b) \in Nat
  BY <1>1, <1>5, Products
<1>7. answered'[c] <= Answers * (N - (b - 1))
  <2>1. CASE answered'[c] = answered[c]
    BY <1>1, <1>4, <1>6, <2>1
  <2>2. CASE answered'[c] = answered[c] + 1 /\ wrong[c] + 1 < ChallengeMaxAttempts
    <3>1. Round(c) + 1 <= Answers
      BY <1>1, <2>2 DEF Round, Answers
    <3> QED
      BY <1>1, <1>4, <1>6, <2>2, <3>1
  <2> QED
    BY <2>1, <2>2
<1>8. CASE b = 1
  <2>1. Counting(c)' = {}
    <3>1. IsFiniteSet(Counting(c) \ {r})
      BY <1>3, CodesAssumption, FS_Subset
    <3> QED
      BY <1>3, <1>8, <3>1, FS_EmptySet
  <2>2. N - (b - 1) = N
    BY <1>1, <1>8
  <2> QED
    BY <1>7, <2>1, <2>2 DEF RoundsOf
<1>9. CASE b > 1
  <2>1. Counting(c)' # {}
    <3>1. Cardinality({}) = 0
      BY FS_EmptySet
    <3>2. Counting(c) \ {r} = {} => Cardinality(Counting(c) \ {r}) = 0
      BY <3>1, Zenon
    <3> QED
      BY <1>1, <1>3, <1>9, <3>2
  <2>2. answered'[c] <= Answers * (N - (b - 1)) + Round(c)'
    BY <1>1, <1>2, <1>5, <1>6, <1>7
  <2>3. Cardinality(Counting(c))' = b - 1
    BY <1>3
  <2> QED
    BY <2>1, <2>2, <2>3 DEF RoundsOf
<1> QED
  BY <1>1, <1>8, <1>9

\* The requests that concern c when one request goes on.
LEMMA SetsMove ==
    ASSUME NEW r \in Requests, NEW c \in Challenges,
           \A s \in Requests \ {r} : challenger'[s] = challenger[s]
    PROVE  /\ Counting(c)' = (Counting(c) \ {r}) \cup
                 (IF challenger'[r].at \in {"wrong", "reset", "right"} /\ challenger'[r].challenge = c
                  THEN {r} ELSE {})
           /\ Deleting(c)' = (Deleting(c) \ {r}) \cup
                 (IF challenger'[r].at \in {"delete", "close"} /\ challenger'[r].challenge = c
                  THEN {r} ELSE {})
BY DEF Counting, Deleting

\* A request that neither counts, empties nor deletes, before or after.
LEMMA SetsStay ==
    ASSUME NEW r \in Requests, NEW c \in Challenges,
           \A s \in Requests \ {r} : challenger'[s] = challenger[s],
           \/ challenger[r].at \notin {"wrong", "reset", "right", "delete", "close"}
           \/ challenger[r].challenge # c,
           \/ challenger'[r].at \notin {"wrong", "reset", "right", "delete", "close"}
           \/ challenger'[r].challenge # c
    PROVE  Counting(c)' = Counting(c) /\ Deleting(c)' = Deleting(c)
BY DEF Counting, Deleting

LEMMA ReadRounds ==
    ASSUME Challenge!TypeOK, Challenge!TypeOK', Issued, NEW r \in Requests,
           NEW d \in Challenges, NEW right \in BOOLEAN, Challenge!Read(r, d, right),
           NEW c \in Challenges, RoundsOf(c)
    PROVE  RoundsOf(c)'
<1>1. /\ challenger[r].at = "idle" /\ d \in sent /\ d \in stored
      /\ challenger'[r].at \in {"right", "wrong"} /\ challenger'[r].challenge = d
      /\ \A s \in Requests \ {r} : challenger'[s] = challenger[s]
      /\ UNCHANGED <<stored, sent, wrong, answered>>
  BY ChallengeGoes DEF Challenge!Read, Challenge!At, Challenge!redis
<1>2. CASE c # d
  BY <1>1, <1>2, SetsStay, RoundsKept
<1>3. CASE c = d
  <2>1. Deleting(c)' = Deleting(c)
    BY <1>1, <1>3 DEF Deleting
  <2> QED
    BY <1>1, <1>3, <2>1 DEF RoundsOf, Round
<1> QED
  BY <1>2, <1>3

LEMMA CountRounds ==
    ASSUME Challenge!TypeOK, Challenge!TypeOK', Issued, NEW r \in Requests, Challenge!CountWrong(r),
           NEW c \in Challenges \ broken, RoundsOf(c)
    PROVE  RoundsOf(c)'
<1>1. /\ challenger[r].at = "wrong" /\ challenger[r].challenge \in Challenges
      /\ challenger[r].challenge \in sent
  BY ChallengeFields DEF Challenge!CountWrong, Challenge!At, Issued, Verifying
<1> DEFINE d == challenger[r].challenge
<1>2. /\ wrong' = [wrong EXCEPT ![d] = IF wrong[d] + 1 > ChallengeMaxAttempts
                                       THEN ChallengeMaxAttempts ELSE wrong[d] + 1]
      /\ UNCHANGED <<stored, sent>>
  BY DEF Challenge!CountWrong
<1>3. \/ /\ wrong[d] + 1 < ChallengeMaxAttempts
         /\ d \notin broken => answered' = [answered EXCEPT ![d] = answered[d] + 1]
         /\ d \in broken => answered' = answered
         /\ challenger'[r].at = "idle"
      \/ /\ wrong[d] + 1 >= ChallengeMaxAttempts
         /\ answered' = answered
         /\ challenger'[r].at = "reset" /\ challenger'[r].challenge = d
  BY <1>1, PartsAssumption, ChallengeMoves, ChallengeGoes
     DEF Challenge!CountWrong, Challenge!IfWhole, Challenge!Idle, Challenge!TypeOK
<1>4. \A s \in Requests \ {r} : challenger'[s] = challenger[s]
  BY <1>1, ChallengeMoves, ChallengeGoes DEF Challenge!CountWrong
<1>5. wrong[d] \in Nat /\ answered[d] \in Nat /\ ChallengeMaxAttempts \in Nat \ {0}
      /\ wrong[d] <= ChallengeMaxAttempts
      /\ wrong \in [Challenges -> Int] /\ answered \in [Challenges -> Nat]
  BY <1>1, PartsAssumption DEF Challenge!TypeOK
<1>6. CASE c # d
  <2>1. wrong'[c] = wrong[c] /\ answered'[c] = answered[c]
    BY <1>1, <1>2, <1>3, <1>5, <1>6
  <2>2. Counting(c)' = Counting(c) /\ Deleting(c)' = Deleting(c)
    BY <1>1, <1>3, <1>4, <1>6, SetsStay
  <2> QED
    BY <1>2, <2>1, <2>2, RoundsKept
<1>7. CASE c = d
  <2>1. \/ /\ wrong[c] + 1 < ChallengeMaxAttempts /\ wrong'[c] = wrong[c] + 1
           /\ answered'[c] = answered[c] + 1 /\ challenger'[r].at = "idle"
        \/ /\ wrong[c] + 1 >= ChallengeMaxAttempts /\ wrong'[c] = ChallengeMaxAttempts
           /\ answered'[c] = answered[c]
           /\ challenger'[r].at = "reset" /\ challenger'[r].challenge = c
    BY <1>1, <1>2, <1>3, <1>5, <1>7
  <2>2. r \in Counting(c) /\ r \notin Deleting(c) /\ c \in sent /\ c \in sent'
    BY <1>1, <1>2, <1>7 DEF Counting, Deleting
  <2>3. CASE c \in stored
    <3>1. Deleting(c)' = Deleting(c)
      BY <1>1, <1>4, <2>1 DEF Deleting
    <3>2. /\ Round(c) \in Nat /\ Round(c) <= Answers /\ Cardinality(Deleting(c)) \in Nat
          /\ Answers \in Nat
      BY RoundFacts
    <3>3. Round(c)' + answered[c] >= answered'[c] + Round(c)
      BY <1>5, <1>7, <2>1 DEF Round, Answers
    <3>4. Answers * Cardinality(Deleting(c)) \in Nat /\ Round(c)' \in Nat
      BY <3>2, <2>1, <1>5, <1>7, Products DEF Round
    <3>5. answered[c] <= Answers * Cardinality(Deleting(c)) + Round(c)
      BY <2>3 DEF RoundsOf
    <3>6. answered'[c] <= Answers * Cardinality(Deleting(c)) + Round(c)'
      BY <1>5, <1>7, <2>1, <3>2, <3>3, <3>4, <3>5
    <3>7. Deleting(c)' # Requests
      BY <2>2, <3>1
    <3> QED
      BY <1>2, <2>2, <2>3, <3>1, <3>6, <3>7 DEF RoundsOf
  <2>4. CASE c \notin stored /\ challenger'[r].at = "idle"
    <3>1. Counting(c)' = Counting(c) \ {r}
      BY <1>4, <2>4, SetsMove
    <3> QED
      BY <1>2, <2>1, <2>2, <2>4, <3>1, RoundsLeft
  <2>5. CASE c \notin stored /\ challenger'[r].at # "idle"
    <3>1. Counting(c)' = Counting(c)
      BY <1>1, <1>4, <1>7, <2>1, <2>5 DEF Counting
    <3>2. Round(c)' >= Round(c) /\ Round(c)' \in Nat /\ Round(c) \in Nat
      BY <1>5, <1>7, <2>1, <2>5, RoundFacts DEF Round, Answers
    <3>3. /\ Answers \in Nat /\ Cardinality(Counting(c)) \in Nat /\ Cardinality(Requests) \in Nat
          /\ Cardinality(Counting(c)) <= Cardinality(Requests) /\ Counting(c) # {}
      BY <2>2, RoundFacts
    <3>4. Answers * (Cardinality(Requests) - Cardinality(Counting(c))) \in Nat
      BY <3>3, Products
    <3>5. answered[c] <= Answers * (Cardinality(Requests) - Cardinality(Counting(c))) + Round(c)
      BY <2>5, <3>3 DEF RoundsOf
    <3>6. answered'[c] <= Answers * (Cardinality(Requests) - Cardinality(Counting(c))) + Round(c)'
      BY <1>5, <1>7, <2>1, <2>5, <3>2, <3>4, <3>5
    <3> QED
      BY <1>2, <2>2, <2>5, <3>1, <3>3, <3>6 DEF RoundsOf
  <2> QED
    BY <2>3, <2>4, <2>5
<1> QED
  BY <1>6, <1>7

LEMMA ResetRounds ==
    ASSUME Challenge!TypeOK, Challenge!TypeOK', Issued, NEW r \in Requests, Challenge!Reset(r),
           NEW c \in Challenges, RoundsOf(c)
    PROVE  RoundsOf(c)'
<1> DEFINE d == challenger[r].challenge
<1>1. /\ challenger[r].at \in {"reset", "right"} /\ d \in Challenges /\ d \in sent
  BY ChallengeFields DEF Challenge!Reset, Challenge!At, Issued, Verifying
<1>2. /\ challenger'[r].at \in {"close", "delete"} /\ challenger'[r].challenge = d
      /\ \A s \in Requests \ {r} : challenger'[s] = challenger[s]
      /\ wrong' = [wrong EXCEPT ![d] = 0]
      /\ UNCHANGED <<stored, sent, answered>>
  BY <1>1, ChallengeMoves DEF Challenge!Reset, Challenge!At
<1>3. CASE c # d
  <2>1. wrong'[c] = wrong[c]
    BY <1>2, <1>3 DEF Challenge!TypeOK
  <2> QED
    BY <1>2, <1>3, <2>1, SetsStay, RoundsKept
<1>4. CASE c = d
  <2>1. wrong'[c] = 0 /\ Round(c)' = 0
    BY <1>2, <1>4, PartsAssumption DEF Challenge!TypeOK, Round
  <2>2. /\ r \in Counting(c) /\ Counting(c)' = Counting(c) \ {r}
        /\ r \notin Deleting(c) /\ Deleting(c)' = Deleting(c) \cup {r}
    BY <1>1, <1>2, <1>4 DEF Counting, Deleting
  <2>3. CASE c \in stored
    <3>1. Cardinality(Deleting(c))' = Cardinality(Deleting(c)) + 1
      BY <2>2, CodesAssumption, FS_Subset, FS_AddElement DEF Deleting
    <3>2. /\ Answers \in Nat /\ Round(c) \in Nat /\ Round(c) <= Answers
          /\ answered[c] \in Nat /\ Cardinality(Deleting(c)) \in Nat
      BY RoundFacts
    <3>3. Answers * (Cardinality(Deleting(c)) + 1) = Answers * Cardinality(Deleting(c)) + Answers
          /\ Answers * Cardinality(Deleting(c)) \in Nat
      BY <3>2, Products
    <3>4. answered[c] <= Answers * Cardinality(Deleting(c)) + Round(c)
      BY <2>3 DEF RoundsOf
    <3>5. answered[c] <= Answers * (Cardinality(Deleting(c)) + 1)
      BY <3>2, <3>3, <3>4
    <3> QED
      BY <1>1, <1>2, <1>4, <2>1, <2>3, <3>1, <3>2, <3>3, <3>5 DEF RoundsOf, Answers
  <2>4. CASE c \notin stored
    BY <1>1, <1>2, <1>4, <2>1, <2>2, <2>4, RoundsLeft
  <2> QED
    BY <2>3, <2>4
<1> QED
  BY <1>3, <1>4

LEMMA DeleteRounds ==
    ASSUME Challenge!TypeOK, Challenge!TypeOK', Issued, NEW r \in Requests, Challenge!Delete(r),
           NEW c \in Challenges, RoundsOf(c)
    PROVE  RoundsOf(c)'
<1> DEFINE d == challenger[r].challenge
<1>1. challenger[r].at \in {"delete", "close"} /\ d \in Challenges
  BY ChallengeFields DEF Challenge!Delete, Challenge!At
<1>2. /\ challenger'[r].at \in {"login", "idle"}
      /\ \A s \in Requests \ {r} : challenger'[s] = challenger[s]
      /\ stored' = stored \ {d}
      /\ UNCHANGED <<wrong, sent, answered>>
  BY <1>1, ChallengeMoves, ChallengeGoes DEF Challenge!Delete, Challenge!At, Challenge!Idle
<1>3. CASE c # d
  BY <1>2, <1>3, SetsStay, RoundsKept
<1>4. CASE c = d
  <2>1. Counting(c)' = Counting(c)
    BY <1>1, <1>2 DEF Counting
  <2> QED
    BY <1>2, <1>4, <2>1, RoundsGone
<1> QED
  BY <1>3, <1>4

LEMMA FailRounds ==
    ASSUME Challenge!TypeOK, Challenge!TypeOK', Issued, NEW r \in Requests, Challenge!Fail(r),
           NEW c \in Challenges \ broken', RoundsOf(c)
    PROVE  RoundsOf(c)'
<1> DEFINE d == challenger[r].challenge
<1>1. /\ challenger[r].at # "idle" /\ challenger'[r].at = "idle"
      /\ \A s \in Requests \ {r} : challenger'[s] = challenger[s]
      /\ UNCHANGED <<stored, wrong, sent, answered>>
      /\ challenger[r].at \in {"delete", "close"} => d \in broken'
  BY ChallengeGoes DEF Challenge!Fail, Challenge!At, Challenge!Idle, Challenge!redis
<1>2. CASE r \notin Counting(c)
  <2>1. Counting(c)' = Counting(c) /\ Deleting(c)' = Deleting(c)
    BY <1>1, <1>2 DEF Counting, Deleting
  <2> QED
    BY <1>1, <2>1, RoundsKept
<1>3. CASE r \in Counting(c)
  <2>1. Counting(c)' = Counting(c) \ {r} /\ Deleting(c)' = Deleting(c) /\ c \in sent
    BY <1>1, <1>3 DEF Counting, Deleting, Issued, Verifying
  <2>2. CASE c \in stored
    BY <1>1, <2>1, <2>2 DEF RoundsOf, Round
  <2>3. CASE c \notin stored
    BY <1>1, <1>3, <2>1, <2>3, RoundsLeft
  <2> QED
    BY <2>2, <2>3
<1> QED
  BY <1>2, <1>3

\* Issuing a challenge, and letting an administrator in.
LEMMA OtherRounds ==
    ASSUME Challenge!TypeOK, Challenge!TypeOK', Issued, NEW r \in Requests,
           \/ \E d \in Challenges : Challenge!Login(r, d)
           \/ Challenge!Store(r) \/ Challenge!Retract(r)
           \/ \E delivered \in BOOLEAN : Challenge!Mail(r, delivered)
           \/ \E unchanged \in BOOLEAN : Challenge!Accept(r, unchanged),
           NEW c \in Challenges, RoundsOf(c)
    PROVE  RoundsOf(c)'
<1>1. /\ challenger[r].at \in {"idle", "store", "mail", "retract", "login"}
      /\ challenger'[r].at \in {"idle", "store", "mail", "retract"}
      /\ \A s \in Requests \ {r} : challenger'[s] = challenger[s]
  <2>1. CASE \E d \in Challenges : Challenge!Login(r, d)
    BY <2>1, ChallengeGoes DEF Challenge!Login, Challenge!At
  <2>2. CASE Challenge!Store(r)
    BY <2>2, ChallengeMoves DEF Challenge!Store, Challenge!At
  <2>3. CASE Challenge!Retract(r)
    BY <2>3, ChallengeGoes DEF Challenge!Retract, Challenge!At, Challenge!Idle
  <2>4. CASE \E delivered \in BOOLEAN : Challenge!Mail(r, delivered)
    BY <2>4, ChallengeGoes, ChallengeMoves DEF Challenge!Mail, Challenge!At, Challenge!Idle
  <2>5. CASE \E unchanged \in BOOLEAN : Challenge!Accept(r, unchanged)
    BY <2>5, ChallengeGoes DEF Challenge!Accept, Challenge!At, Challenge!Idle
  <2> QED
    BY <2>1, <2>2, <2>3, <2>4, <2>5
<1>2. Counting(c)' = Counting(c) /\ Deleting(c)' = Deleting(c)
  BY <1>1, SetsStay
<1>3. /\ UNCHANGED <<wrong, answered>> /\ sent \subseteq sent'
  BY DEF Challenge!Login, Challenge!Store, Challenge!Retract, Challenge!Mail,
     Challenge!Accept, Challenge!redis
<1>4. CASE c \in stored' <=> c \in stored
  BY <1>2, <1>3, <1>4, RoundsKept
<1>5. CASE c \notin stored'
  BY <1>2, <1>3, <1>5, RoundsGone
<1>6. CASE c \in stored' /\ c \notin stored
  <2>1. challenger[r].at = "store" /\ c = challenger[r].challenge /\ UNCHANGED sent
    BY <1>6 DEF Challenge!Login, Challenge!Store, Challenge!Retract, Challenge!Mail,
       Challenge!Accept, Challenge!redis, Challenge!At
  <2>2. c \notin sent
    BY <2>1 DEF Issued, Issuance
  <2>3. wrong'[c] = 0 /\ answered'[c] = 0 /\ Round(c)' = 0
    BY <1>3, <2>2, PartsAssumption DEF RoundsOf, Round
  <2>4. Answers * Cardinality(Deleting(c)) \in Nat
    BY RoundFacts, Products
  <2> QED
    BY <1>2, <1>6, <2>3, <2>4 DEF RoundsOf, Answers
<1> QED
  BY <1>4, <1>5, <1>6

ChallengeInv == Challenge!TypeOK /\ Issued /\ Rounds

LEMMA ChallengeStep == ChallengeInv /\ Challenge!Next => ChallengeInv'
<1> SUFFICES ASSUME ChallengeInv, Challenge!Next PROVE ChallengeInv'
  OBVIOUS
<1>1. Challenge!TypeOK' /\ Issued'
  BY ChallengeTypes, IssuedStep DEF ChallengeInv
<1>2. SUFFICES ASSUME NEW c \in Challenges \ broken' PROVE RoundsOf(c)'
  BY <1>1 DEF ChallengeInv, Rounds
<1>3. broken \subseteq broken'
  BY DEF Challenge!Next, Challenge!Login, Challenge!Read, Challenge!Store, Challenge!Mail,
     Challenge!Retract, Challenge!CountWrong, Challenge!Reset, Challenge!Delete, Challenge!Accept,
     Challenge!Fail, Challenge!Expire
<1>4. c \in Challenges \ broken /\ RoundsOf(c)
  BY <1>3 DEF ChallengeInv, Rounds
<1>5. ASSUME NEW d \in Challenges, Challenge!Expire(d) PROVE RoundsOf(c)'
  <2>1. /\ Counting(c)' = Counting(c) /\ Deleting(c)' = Deleting(c)
        /\ UNCHANGED <<wrong, answered, sent>> /\ stored' = stored \ {d}
    BY <1>5 DEF Challenge!Expire, Counting, Deleting
  <2>2. CASE c = d
    BY <1>4, <2>1, <2>2, RoundsGone DEF ChallengeInv
  <2>3. CASE c # d
    BY <1>4, <2>1, <2>3, RoundsKept DEF ChallengeInv
  <2> QED
    BY <2>2, <2>3
<1> QED
  BY <1>1, <1>4, <1>5, ReadRounds, CountRounds, ResetRounds, DeleteRounds, FailRounds, OtherRounds
     DEF ChallengeInv, Challenge!Next

LEMMA ChallengeInitial == PartsInit => ChallengeInv
<1> SUFFICES ASSUME PartsInit PROVE ChallengeInv
  OBVIOUS
<1>1. Challenge!Init
  BY DEF PartsInit
<1>2. Challenge!TypeOK /\ Issued
  BY <1>1, PartsAssumption DEF Challenge!Init, Challenge!TypeOK, Issued, Issuance, Verifying, Challenge!Idle
<1>3. ASSUME NEW c \in Challenges PROVE RoundsOf(c)
  <2>1. /\ c \notin sent /\ c \notin stored /\ wrong[c] = 0 /\ answered[c] = 0 /\ Counting(c) = {}
    BY <1>1 DEF Challenge!Init, Counting, Challenge!Idle
  <2>2. Answers * Cardinality(Requests) \in Nat
    BY <1>2, RoundFacts, Products
  <2> QED
    BY <2>1, <2>2 DEF RoundsOf
<1> QED
  BY <1>2, <1>3 DEF ChallengeInv, Rounds

LEMMA ChallengeRests == ChallengeInv /\ UNCHANGED challengeVars => ChallengeInv'
<1> SUFFICES ASSUME ChallengeInv, UNCHANGED challengeVars PROVE ChallengeInv'
  OBVIOUS
<1> USE DEF challengeVars, ChallengeInv
<1>1. Challenge!TypeOK' /\ Issued'
  BY DEF Challenge!TypeOK, Issued
<1>2. \A c \in Challenges : Counting(c)' = Counting(c) /\ Deleting(c)' = Deleting(c)
  BY DEF Counting, Deleting
<1>3. Rounds'
  BY <1>2, RoundsKept DEF Rounds
<1> QED
  BY <1>1, <1>3

\* However the calls of requests for a challenge fall between each other, it
\* lets an administrator in only when it is gone, and has a bounded number of
\* wrong answers: a round for each request, unless a deletion fails.
THEOREM ChallengesStaySpent == PartsSpec => []ChallengesAreSpent
<1>1. ChallengeInv /\ [PartsNext]_allVars => ChallengeInv'
  BY ChallengeStep, ChallengeRests DEF PartsNext, allVars
<1>2. ASSUME ChallengeInv PROVE ChallengesAreSpent
  <2>1. ASSUME NEW c \in Challenges \ broken
        PROVE  answered[c] <= Cardinality(Requests) * (ChallengeMaxAttempts - 1)
    <3>1. answered[c] <= Answers * Cardinality(Requests)
      BY <1>2, RoundsBound DEF ChallengeInv, Rounds
    <3>2. Cardinality(Requests) * Answers = Answers * Cardinality(Requests)
      BY <1>2, RoundFacts DEF ChallengeInv
    <3> QED
      BY <3>1, <3>2 DEF Answers
  <2>2. Challenge!Cardinality(Requests) = Cardinality(Requests)
    BY DEF Challenge!Cardinality, Cardinality
  <2>3. Challenge!ChallengeAttempts
    BY <2>1, <2>2, Zenon DEF Challenge!ChallengeAttempts
  <2>4. Challenge!TypeOK /\ Challenge!AcceptedIsGone
    BY <1>2 DEF ChallengeInv, Issued, Challenge!AcceptedIsGone
  <2> QED
    BY <2>3, <2>4 DEF ChallengesAreSpent
<1> QED
  BY <1>1, <1>2, ChallengeInitial, PTL DEF PartsSpec

-----------------------------------------------------------------------------
(* The store of login attempts: what a Map keeps of its counters           *)

\* g lists what is kept of the first counters of m at the places I, up to
\* the k-th.
KeptOf(m, I, k, g) ==
    g = [n \in 0..k |-> IF n = 0 THEN <<>>
                        ELSE IF n \in I THEN Append(g[n - 1], m[n]) ELSE g[n - 1]]

LEMMA KeptGrows ==
    ASSUME NEW m, NEW I, NEW k \in Nat, NEW g, KeptOf(m, I, k, g)
    PROVE  \E h : KeptOf(m, I, k + 1, h)
<1> DEFINE next == IF k + 1 \in I THEN Append(g[k], m[k + 1]) ELSE g[k]
           h == [j \in 0..(k + 1) |-> IF j = k + 1 THEN next ELSE g[j]]
           To(f, j) == IF j = 0 THEN <<>>
                       ELSE IF j \in I THEN Append(f[j - 1], m[j]) ELSE f[j - 1]
<1>1. DOMAIN g = 0..k
  BY DEF KeptOf
<1>2. \A j \in 0..k : g[j] = To(g, j)
  BY DEF KeptOf
<1>3. ASSUME NEW j \in 0..(k + 1)
      PROVE  h[j] = To(h, j)
  <2> HIDE DEF next
  <2>1. \A i \in 0..k : h[i] = g[i]
    OBVIOUS
  <2>2. h[k + 1] = next
    OBVIOUS
  <2> HIDE DEF h
  <2>3. CASE j = k + 1
    <3>1. j # 0 /\ j - 1 = k /\ k \in 0..k
      BY <2>3
    <3> QED
      BY <2>1, <2>2, <2>3, <3>1 DEF next
  <2>4. CASE j # k + 1
    <3>1. j \in 0..k
      BY <2>4
    <3>2. j # 0 => j - 1 \in 0..k
      BY <3>1
    <3> QED
      BY <1>2, <2>1, <3>1, <3>2
  <2> QED
    BY <2>3, <2>4
<1>4. DOMAIN h = 0..(k + 1) /\ h = [j \in 0..(k + 1) |-> h[j]]
  OBVIOUS
<1> HIDE DEF h
<1> QED
  BY <1>3, <1>4 DEF KeptOf

LEMMA KeptAre == ASSUME NEW m, NEW I, NEW k \in Nat PROVE \E g : KeptOf(m, I, k, g)
<1> DEFINE S == {j \in Nat : ~\E g : KeptOf(m, I, j, g)}
<1> SUFFICES ASSUME S # {} PROVE FALSE
  OBVIOUS
<1>1. PICK j \in S : \A i \in S : j <= i
  BY Smallest
<1>2. CASE j = 0
  <2> DEFINE g == [i \in 0..0 |-> <<>>]
  <2>1. KeptOf(m, I, 0, g)
    BY DEF KeptOf
  <2> QED
    BY <1>2, <2>1
<1>3. CASE j # 0
  <2>1. j - 1 \in Nat /\ ~(j <= j - 1)
    BY <1>3
  <2>2. PICK g : KeptOf(m, I, j - 1, g)
    BY <1>1, <2>1
  <2>3. PICK i \in Nat : i = j - 1
    BY <2>1
  <2>4. \E h : KeptOf(m, I, i + 1, h)
    BY <2>2, <2>3, KeptGrows
  <2> QED
    BY <2>3, <2>4
<1> QED
  BY <1>2, <1>3

\* s is the Map m without the counters outside the places I of its first k.
Keeps(m, I, k, s) ==
    /\ s \in Seq(Limit!Counter) /\ Len(s) <= k
    /\ \A n \in DOMAIN s : \E j \in (1..k) \cap I : s[n] = m[j]
    /\ \A j \in (1..k) \cap I : \E n \in DOMAIN s : s[n] = m[j]
    /\ \A i, n \in DOMAIN s : i # n => s[i].key # s[n].key
    /\ (\E j \in 1..k : j \notin I) => Len(s) < k

\* A Map has one counter of a key.
Single(m) == \A i, n \in DOMAIN m : i # n => m[i].key # m[n].key

LEMMA KeepsNext ==
    ASSUME NEW m \in Seq(Limit!Counter), Single(m), NEW I, NEW k \in Nat, k + 1 <= Len(m), NEW s,
           Keeps(m, I, k, s)
    PROVE  Keeps(m, I, k + 1, IF k + 1 \in I THEN Append(s, m[k + 1]) ELSE s)
<1>1. /\ s \in Seq(Limit!Counter) /\ Len(s) \in Nat /\ Len(s) <= k /\ DOMAIN s = 1..Len(s)
      /\ DOMAIN m = 1..Len(m) /\ m[k + 1] \in Limit!Counter
  BY DEF Keeps
<1>2. \A j \in 1..(k + 1) : j \in 1..k \/ j = k + 1
  OBVIOUS
<1>3. (1..k) \subseteq 1..(k + 1) /\ k + 1 \in 1..(k + 1)
  OBVIOUS
<1>4. CASE k + 1 \notin I
  <2>1. (1..(k + 1)) \cap I = (1..k) \cap I
    BY <1>2, <1>3, <1>4
  <2> QED
    BY <1>1, <1>4, <2>1 DEF Keeps
<1>5. CASE k + 1 \in I
  <2>1. PICK new : new = Append(s, m[k + 1])
    OBVIOUS
  <2>2. /\ new \in Seq(Limit!Counter) /\ Len(new) = Len(s) + 1 /\ DOMAIN new = 1..(Len(s) + 1)
        /\ new[Len(s) + 1] = m[k + 1] /\ \A n \in DOMAIN s : new[n] = s[n]
    BY <1>1, <2>1
  <2>3. \A n \in DOMAIN new : n \in DOMAIN s \/ n = Len(s) + 1
    BY <1>1, <2>2
  <2>4. Len(s) + 1 \in DOMAIN new /\ \A n \in DOMAIN s : n \in DOMAIN new
    BY <1>1, <2>2
  <2>5. \A n \in DOMAIN new : \E j \in (1..(k + 1)) \cap I : new[n] = m[j]
    <3>1. TAKE n \in DOMAIN new
    <3>2. CASE n = Len(s) + 1
      BY <1>3, <1>5, <2>2, <3>2
    <3>3. CASE n \in DOMAIN s
      <4>1. PICK j \in (1..k) \cap I : s[n] = m[j]
        BY <3>3 DEF Keeps
      <4> QED
        BY <1>3, <2>2, <3>3, <4>1
    <3> QED
      BY <2>3, <3>2, <3>3
  <2>6. \A j \in (1..(k + 1)) \cap I : \E n \in DOMAIN new : new[n] = m[j]
    <3>1. TAKE j \in (1..(k + 1)) \cap I
    <3>2. CASE j = k + 1
      BY <2>2, <2>4, <3>2
    <3>3. CASE j \in 1..k
      <4>1. PICK n \in DOMAIN s : s[n] = m[j]
        BY <3>3 DEF Keeps
      <4> QED
        BY <2>2, <2>4, <4>1
    <3> QED
      BY <1>2, <3>2, <3>3
  <2>7. ASSUME NEW n \in DOMAIN s PROVE s[n].key # m[k + 1].key
    <3>1. PICK j \in (1..k) \cap I : s[n] = m[j]
      BY <2>7 DEF Keeps
    <3>2. j \in DOMAIN m /\ k + 1 \in DOMAIN m /\ j # k + 1
      BY <1>1
    <3> QED
      BY <3>1, <3>2 DEF Single
  <2>8. ASSUME NEW i \in DOMAIN new, NEW n \in DOMAIN new, i # n
        PROVE  new[i].key # new[n].key
    <3>1. CASE i \in DOMAIN s /\ n \in DOMAIN s
      BY <2>2, <2>8, <3>1 DEF Keeps
    <3>2. CASE i \in DOMAIN s /\ n = Len(s) + 1
      BY <2>2, <2>7, <3>2
    <3>3. CASE n \in DOMAIN s /\ i = Len(s) + 1
      BY <2>2, <2>7, <3>3
    <3> QED
      BY <2>3, <2>8, <3>1, <3>2, <3>3
  <2>9. (\E j \in 1..(k + 1) : j \notin I) => Len(new) < k + 1
    <3>1. ASSUME NEW j \in 1..(k + 1), j \notin I PROVE Len(new) < k + 1
      <4>1. j \in 1..k
        BY <1>2, <1>5, <3>1
      <4>2. Len(s) < k
        BY <3>1, <4>1 DEF Keeps
      <4> QED
        BY <1>1, <2>2, <4>2
    <3> QED
      BY <3>1
  <2>10. Len(new) <= k + 1
    BY <1>1, <2>2
  <2>11. Keeps(m, I, k + 1, new)
    BY <2>2, <2>5, <2>6, <2>8, <2>9, <2>10, Zenon DEF Keeps
  <2> QED
    BY <1>5, <2>1, <2>11
<1> QED
  BY <1>4, <1>5

\* The counters kept of a Map are those at the places, one of a key, and
\* fewer than it had when a place is left out.
LEMMA KeptKeeps ==
    ASSUME NEW m \in Seq(Limit!Counter), Single(m), NEW I
    PROVE  Keeps(m, I, Len(m), Limit!Kept(m, I))
<1>1. Len(m) \in Nat
  OBVIOUS
<1>2. PICK g : g = CHOOSE f : KeptOf(m, I, Len(m), f)
  OBVIOUS
<1>3. KeptOf(m, I, Len(m), g)
  BY <1>1, <1>2, KeptAre
<1>4. Limit!Kept(m, I) = g[Len(m)]
  BY <1>2 DEF Limit!Kept, KeptOf
<1>5. \A j \in 0..Len(m) : Keeps(m, I, j, g[j])
  <2> DEFINE S == {j \in 0..Len(m) : ~Keeps(m, I, j, g[j])}
  <2> SUFFICES ASSUME S # {} PROVE FALSE
    OBVIOUS
  <2>4. S \in SUBSET Nat
    BY <1>1
  <2>1. PICK j \in S : \A i \in S : j <= i
    <3> HIDE DEF S
    <3> QED
      BY <2>4, Smallest
  <2>2. CASE j = 0
    <3>1. g[0] = <<>>
      BY <1>1, <1>3 DEF KeptOf
    <3>2. Keeps(m, I, 0, <<>>)
      <4>1. PICK none : none = <<>>
        OBVIOUS
      <4>2. none \in Seq(Limit!Counter) /\ Len(none) = 0 /\ DOMAIN none = {}
        BY <4>1
      <4>3. 1..0 = {}
        OBVIOUS
      <4> QED
        BY <4>1, <4>2, <4>3 DEF Keeps
    <3> QED
      BY <2>2, <3>1, <3>2
  <2>3. CASE j # 0
    <3>1. PICK i \in Nat : i = j - 1
      BY <1>1, <2>3
    <3>2. i \in 0..Len(m) /\ i + 1 = j /\ i + 1 <= Len(m) /\ ~(j <= i)
      BY <1>1, <3>1
    <3>3. Keeps(m, I, i, g[i])
      BY <2>1, <3>2
    <3>4. g[j] = IF j \in I THEN Append(g[i], m[j]) ELSE g[i]
      BY <1>3, <2>3, <3>1 DEF KeptOf
    <3>5. Keeps(m, I, i + 1, IF i + 1 \in I THEN Append(g[i], m[i + 1]) ELSE g[i])
      BY <3>2, <3>3, KeepsNext
    <3> QED
      BY <3>2, <3>4, <3>5
  <2> QED
    BY <2>2, <2>3
<1> QED
  BY <1>1, <1>4, <1>5


-----------------------------------------------------------------------------
(* The store of login attempts: its counters and the windows               *)

Windows == [left : 0..Window, admitted : Nat]

\* The window of a counter is the one that began with its first attempt, and
\* what the counter of a live window says is at least what was admitted.
Counts(c, w) == c.left = w.left /\ (w.left > 0 => w.admitted <= c.count)

\* The Map and the windows: one counter of a key, none without a window; no
\* window beyond its limit, and nothing admitted outside a window.
Fits(m, w) ==
    /\ m \in Seq(Limit!Counter) /\ Len(m) <= MaxKeys /\ Single(m)
    /\ w \in [Limit!Keys -> Windows]
    /\ \A i \in DOMAIN m : Counts(m[i], w[m[i].key])
    /\ \A k \in Limit!Keys : /\ ~Limit!Has(m, k) => w[k] = Limit!Closed
                             /\ w[k].left = 0 => w[k] = Limit!Closed
                             /\ w[k].admitted <= Limit!Limit(k)

\* v is w with the window of k closed.
Closes(v, w, k) ==
    /\ v \in [Limit!Keys -> Windows] /\ v[k] = Limit!Closed
    /\ \A j \in Limit!Keys : j # k => v[j] = w[j]

\* The entry of a key the Map has is one of its counters.
LEMMA EntryIs ==
    ASSUME NEW m, NEW k, Limit!Has(m, k)
    PROVE  \E i \in DOMAIN m : m[i].key = k /\ Limit!Entry(m, k) = m[i]
<1>1. \E i \in DOMAIN m : m[i].key = k
  BY DEF Limit!Has
<1>2. PICK j : j = CHOOSE i \in DOMAIN m : m[i].key = k
  OBVIOUS
<1>3. j \in DOMAIN m /\ m[j].key = k
  BY <1>1, <1>2
<1> QED
  BY <1>2, <1>3 DEF Limit!Entry

LEMMA CounterFields ==
    ASSUME NEW m \in Seq(Limit!Counter), NEW i \in DOMAIN m
    PROVE  /\ m[i] \in Limit!Counter /\ m[i].key \in Limit!Keys
           /\ m[i].count \in Nat /\ m[i].left \in Nat /\ m[i].left <= Window
<1>1. m[i] \in Limit!Counter
  OBVIOUS
<1>2. PICK c \in Limit!Counter : c = m[i]
  BY <1>1
<1>3. c.key \in Limit!Keys /\ c.count \in Nat /\ c.left \in 0..Window
  BY DEF Limit!Counter
<1> QED
  BY <1>1, <1>2, <1>3, PartsAssumption

LEMMA WindowFields ==
    ASSUME NEW w \in [Limit!Keys -> Windows], NEW k \in Limit!Keys
    PROVE  /\ w[k] \in Windows /\ w[k].left \in Nat /\ w[k].left <= Window
           /\ w[k].admitted \in Nat
           /\ w[k] = [left |-> w[k].left, admitted |-> w[k].admitted]
BY PartsAssumption DEF Windows

\* Counters that are taken out leave a store that fits, when their windows
\* are closed.
LEMMA KeptFits ==
    ASSUME NEW m, NEW w, Fits(m, w), NEW I, NEW s, s = Limit!Kept(m, I),
           NEW v \in [Limit!Keys -> Windows],
           \A k \in Limit!Keys : v[k] = w[k] \/ v[k] = Limit!Closed,
           \A i \in DOMAIN m : i \in I => v[m[i].key] = w[m[i].key],
           \A i \in DOMAIN m : i \notin I => v[m[i].key] = Limit!Closed
    PROVE  /\ Fits(s, v) /\ Len(s) <= Len(m)
           /\ \A k : Limit!Has(s, k) => Limit!Has(m, k)
           /\ \A i \in DOMAIN m : i \in I => Limit!Has(s, m[i].key)
           /\ \A i \in DOMAIN m : i \notin I => ~Limit!Has(s, m[i].key) /\ Len(s) < Len(m)
<1>1. m \in Seq(Limit!Counter) /\ Len(m) \in Nat /\ DOMAIN m = 1..Len(m) /\ Len(m) <= MaxKeys
      /\ Single(m) /\ MaxKeys \in Nat
  BY PartsAssumption DEF Fits
<1>2. Keeps(m, I, Len(m), s)
  BY <1>1, KeptKeeps
<1>3. /\ s \in Seq(Limit!Counter) /\ Len(s) \in Nat /\ Len(s) <= Len(m) /\ Single(s)
      /\ \A n \in DOMAIN s : \E j \in DOMAIN m : j \in I /\ s[n] = m[j]
      /\ \A j \in DOMAIN m : j \in I => \E n \in DOMAIN s : s[n] = m[j]
      /\ (\E j \in DOMAIN m : j \notin I) => Len(s) < Len(m)
  <2>1. s \in Seq(Limit!Counter) /\ Len(s) <= Len(m) /\ Single(s)
    BY <1>2 DEF Keeps, Single
  <2>2. Len(s) \in Nat
    BY <2>1
  <2>3. /\ \A n \in DOMAIN s : \E j \in DOMAIN m : j \in I /\ s[n] = m[j]
        /\ \A j \in DOMAIN m : j \in I => \E n \in DOMAIN s : s[n] = m[j]
        /\ (\E j \in DOMAIN m : j \notin I) => Len(s) < Len(m)
    BY <1>1, <1>2 DEF Keeps
  <2> QED
    BY <2>1, <2>2, <2>3
<1>4. ASSUME NEW n \in DOMAIN s PROVE Counts(s[n], v[s[n].key])
  <2>1. PICK j \in DOMAIN m : j \in I /\ s[n] = m[j]
    BY <1>3, <1>4
  <2>2. Counts(m[j], w[m[j].key]) /\ v[m[j].key] = w[m[j].key]
    BY <2>1 DEF Fits
  <2> QED
    BY <2>1, <2>2
<1>5. ASSUME NEW k, Limit!Has(s, k) PROVE Limit!Has(m, k)
  <2>1. PICK n \in DOMAIN s : s[n].key = k
    BY <1>5 DEF Limit!Has
  <2>2. PICK j \in DOMAIN m : j \in I /\ s[n] = m[j]
    BY <1>3, <2>1
  <2> QED
    BY <2>1, <2>2 DEF Limit!Has
<1>6. ASSUME NEW i \in DOMAIN m, i \notin I PROVE ~Limit!Has(s, m[i].key) /\ Len(s) < Len(m)
  <2>1. ASSUME Limit!Has(s, m[i].key) PROVE FALSE
    <3>1. PICK n \in DOMAIN s : s[n].key = m[i].key
      BY <2>1 DEF Limit!Has
    <3>2. PICK j \in DOMAIN m : j \in I /\ s[n] = m[j]
      BY <1>3, <3>1
    <3>3. i # j /\ m[i].key = m[j].key
      BY <1>6, <3>1, <3>2
    <3> QED
      BY <1>1, <3>3 DEF Single
  <2> QED
    BY <1>3, <1>6, <2>1
<1>7. ASSUME NEW k \in Limit!Keys, ~Limit!Has(s, k) PROVE v[k] = Limit!Closed
  <2>1. CASE ~Limit!Has(m, k)
    BY <2>1 DEF Fits
  <2>2. CASE Limit!Has(m, k)
    <3>1. PICK i \in DOMAIN m : m[i].key = k
      BY <2>2 DEF Limit!Has
    <3>2. i \notin I
      BY <1>3, <1>7, <3>1 DEF Limit!Has
    <3> QED
      BY <3>1, <3>2
  <2> QED
    BY <2>1, <2>2
<1>8. ASSUME NEW k \in Limit!Keys
      PROVE  (v[k].left = 0 => v[k] = Limit!Closed) /\ v[k].admitted <= Limit!Limit(k)
  <2>1. Limit!Limit(k) \in Nat /\ Limit!Closed.admitted = 0
    BY PartsAssumption DEF Limit!Limit, Limit!Closed
  <2>2. CASE v[k] = Limit!Closed
    BY <2>1, <2>2
  <2>3. CASE v[k] = w[k]
    BY <2>3 DEF Fits
  <2> QED
    BY <2>2, <2>3
<1>9. Len(s) <= MaxKeys
  BY <1>1, <1>3
<1>10. Fits(s, v)
  BY <1>3, <1>4, <1>7, <1>8, <1>9 DEF Fits
<1>11. \A i \in DOMAIN m : i \in I => Limit!Has(s, m[i].key)
  BY <1>3 DEF Limit!Has
<1> QED
  BY <1>3, <1>5, <1>6, <1>10, <1>11

\* A cleanup takes out only counters whose windows are over.
LEMMA CleanedFits ==
    ASSUME NEW m, NEW w, Fits(m, w), NEW s, s = Limit!Cleaned(m)
    PROVE  /\ Fits(s, w) /\ Len(s) <= Len(m)
           /\ \A k : Limit!Has(s, k) => Limit!Has(m, k)
           /\ \A i \in DOMAIN m : Len(s) < Len(m) \/ Limit!Has(s, m[i].key)
<1>1. PICK I : I = {i \in DOMAIN m : Limit!Live(m[i])}
  OBVIOUS
<1>2. s = Limit!Kept(m, I)
  BY <1>1 DEF Limit!Cleaned
<1>3. ASSUME NEW i \in DOMAIN m, i \notin I PROVE w[m[i].key] = Limit!Closed
  <2>2. m[i].key \in Limit!Keys /\ m[i].left \in Nat
    BY CounterFields DEF Fits
  <2>3. m[i].left = 0
    BY <1>1, <1>3, <2>2 DEF Limit!Live
  <2>4. w[m[i].key].left = 0
    BY <2>3 DEF Fits, Counts
  <2> QED
    BY <2>2, <2>4 DEF Fits
<1>4. w \in [Limit!Keys -> Windows]
  BY DEF Fits
<1>5. \A k \in Limit!Keys : w[k] = w[k] \/ w[k] = Limit!Closed
  OBVIOUS
<1>6. \A i \in DOMAIN m : i \in I => w[m[i].key] = w[m[i].key]
  OBVIOUS
<1>7. \A i \in DOMAIN m : i \notin I => w[m[i].key] = Limit!Closed
  BY <1>3
<1>8. /\ Fits(s, w) /\ Len(s) <= Len(m)
      /\ \A k : Limit!Has(s, k) => Limit!Has(m, k)
      /\ \A i \in DOMAIN m : i \in I => Limit!Has(s, m[i].key)
      /\ \A i \in DOMAIN m : i \notin I => ~Limit!Has(s, m[i].key) /\ Len(s) < Len(m)
  BY <1>2, <1>4, <1>5, <1>6, <1>7, KeptFits, Zenon
<1> QED
  BY <1>8

\* A login that succeeds takes out the counter of a key and closes its window.
LEMMA DeleteFits ==
    ASSUME NEW m, NEW w, Fits(m, w), NEW k \in Limit!Keys, NEW s, s = Limit!Delete(m, k),
           NEW v, Closes(v, w, k)
    PROVE  Fits(s, v)
<1>1. PICK I : I = {i \in DOMAIN m : m[i].key # k}
  OBVIOUS
<1>2. s = Limit!Kept(m, I)
  BY <1>1 DEF Limit!Delete
<1>4. /\ v \in [Limit!Keys -> Windows] /\ v[k] = Limit!Closed
      /\ \A j \in Limit!Keys : j # k => v[j] = w[j]
  BY DEF Closes
<1>5. \A i \in DOMAIN m : m[i].key \in Limit!Keys
  BY CounterFields DEF Fits
<1>6. \A j \in Limit!Keys : v[j] = w[j] \/ v[j] = Limit!Closed
  BY <1>4
<1>7. \A i \in DOMAIN m : i \in I => v[m[i].key] = w[m[i].key]
  BY <1>1, <1>4, <1>5
<1>8. \A i \in DOMAIN m : i \notin I => v[m[i].key] = Limit!Closed
  BY <1>1, <1>4
<1>9. v \in [Limit!Keys -> Windows]
  BY <1>4
<1> QED
  BY <1>2, <1>6, <1>7, <1>8, <1>9, KeptFits

\* A full store drops its first counter, whose window ends.
LEMMA TailFits ==
    ASSUME NEW m, NEW w, Fits(m, w), Len(m) >= 1, NEW s, s = Tail(m),
           NEW v, Closes(v, w, m[1].key)
    PROVE  /\ Fits(s, v) /\ Len(s) = Len(m) - 1
           /\ \A k : Limit!Has(s, k) => Limit!Has(m, k)
<1>1. m \in Seq(Limit!Counter) /\ Len(m) \in Nat /\ DOMAIN m = 1..Len(m) /\ Len(m) <= MaxKeys
      /\ Single(m) /\ MaxKeys \in Nat
  BY PartsAssumption DEF Fits
<1>2. PICK first : first = m[1].key
  OBVIOUS
<1>3. 1 \in DOMAIN m /\ first \in Limit!Keys
  BY <1>1, <1>2, CounterFields
<1>4. /\ s \in Seq(Limit!Counter) /\ Len(s) = Len(m) - 1 /\ DOMAIN s = 1..(Len(m) - 1)
      /\ \A n \in DOMAIN s : s[n] = m[n + 1]
  BY <1>1
<1>5. \A n \in DOMAIN s : n + 1 \in DOMAIN m /\ n + 1 # 1
  BY <1>1, <1>4
<1>6. /\ v \in [Limit!Keys -> Windows] /\ v[first] = Limit!Closed
      /\ \A k \in Limit!Keys : k # first => v[k] = w[k]
  BY <1>2 DEF Closes
<1>7. ASSUME NEW i \in DOMAIN s, NEW n \in DOMAIN s, i # n PROVE s[i].key # s[n].key
  <2>1. i + 1 # n + 1
    BY <1>4, <1>7
  <2> QED
    BY <1>1, <1>4, <1>5, <2>1 DEF Single
<1>8. ASSUME NEW n \in DOMAIN s PROVE Counts(s[n], v[s[n].key])
  <2>1. PICK i \in DOMAIN m : i = n + 1 /\ i # 1
    BY <1>5
  <2>2. s[n] = m[i] /\ m[i].key \in Limit!Keys
    BY <1>1, <1>4, <2>1, CounterFields
  <2>3. m[i].key # first
    BY <1>1, <1>2, <1>3, <2>1 DEF Single
  <2>4. Counts(m[i], w[m[i].key])
    BY DEF Fits
  <2> QED
    BY <1>6, <2>2, <2>3, <2>4
<1>9. ASSUME NEW k, Limit!Has(s, k) PROVE Limit!Has(m, k)
  BY <1>4, <1>5, <1>9 DEF Limit!Has
<1>10. ASSUME NEW k \in Limit!Keys, ~Limit!Has(s, k) PROVE v[k] = Limit!Closed
  <2>1. CASE k = first
    BY <1>6, <2>1
  <2>2. CASE k # first
    <3>1. ASSUME Limit!Has(m, k) PROVE FALSE
      <4>1. PICK i \in DOMAIN m : m[i].key = k
        BY <3>1 DEF Limit!Has
      <4>2. i # 1
        BY <1>2, <2>2, <4>1
      <4>3. i - 1 \in DOMAIN s /\ (i - 1) + 1 = i
        BY <1>1, <1>4, <4>1, <4>2
      <4>4. s[i - 1] = m[i]
        BY <1>4, <4>3
      <4> QED
        BY <1>10, <4>1, <4>3, <4>4 DEF Limit!Has
    <3> QED
      BY <1>6, <2>2, <3>1 DEF Fits
  <2> QED
    BY <2>1, <2>2
<1>11. ASSUME NEW k \in Limit!Keys
       PROVE  (v[k].left = 0 => v[k] = Limit!Closed) /\ v[k].admitted <= Limit!Limit(k)
  <2>1. Limit!Limit(k) \in Nat /\ Limit!Closed.admitted = 0
    BY PartsAssumption DEF Limit!Limit, Limit!Closed
  <2>2. CASE k = first
    BY <1>6, <2>1, <2>2
  <2>3. CASE k # first
    BY <1>6, <2>3 DEF Fits
  <2> QED
    BY <2>2, <2>3
<1>12. Len(s) <= MaxKeys
  BY <1>1, <1>4
<1>13. Fits(s, v)
  BY <1>4, <1>6, <1>7, <1>8, <1>10, <1>11, <1>12 DEF Fits, Single
<1> QED
  BY <1>4, <1>9, <1>13

\* A counter put into a store that has its key or room for it.
LEMMA PutFits ==
    ASSUME NEW m, NEW w, Fits(m, w), NEW k \in Limit!Keys, Limit!Has(m, k) \/ Len(m) < MaxKeys,
           NEW c \in Limit!Counter, c.key = k, NEW s, s = Limit!Put(m, k, c),
           NEW v \in [Limit!Keys -> Windows], \A j \in Limit!Keys : j # k => v[j] = w[j],
           Counts(c, v[k]), v[k].left > 0, v[k].admitted <= Limit!Limit(k)
    PROVE  Fits(s, v)
<1>1. m \in Seq(Limit!Counter) /\ Len(m) \in Nat /\ DOMAIN m = 1..Len(m) /\ Len(m) <= MaxKeys
      /\ Single(m) /\ MaxKeys \in Nat
  BY PartsAssumption DEF Fits
<1>2. \A i \in DOMAIN m : Counts(m[i], w[m[i].key]) /\ m[i].key \in Limit!Keys
  BY <1>1, CounterFields DEF Fits
<1>3. CASE Limit!Has(m, k)
  <2>1. /\ DOMAIN s = 1..Len(m) /\ s = [i \in 1..Len(m) |-> IF m[i].key = k THEN c ELSE m[i]]
        /\ \A i \in DOMAIN m : s[i] = IF m[i].key = k THEN c ELSE m[i]
    BY <1>1, <1>3 DEF Limit!Put
  <2>2. s \in Seq(Limit!Counter) /\ Len(s) = Len(m) /\ \A i \in DOMAIN m : s[i].key = m[i].key
    BY <1>1, <2>1
  <2>3. Single(s)
    BY <1>1, <2>1, <2>2 DEF Single
  <2>4. ASSUME NEW i \in DOMAIN s PROVE Counts(s[i], v[s[i].key])
    BY <1>1, <1>2, <2>1, <2>2
  <2>5. ASSUME NEW j \in Limit!Keys, ~Limit!Has(s, j) PROVE j # k /\ ~Limit!Has(m, j)
    BY <1>1, <1>3, <2>1, <2>2, <2>5 DEF Limit!Has
  <2>6. \A j \in Limit!Keys : ~Limit!Has(s, j) => v[j] = Limit!Closed
    BY <2>5 DEF Fits
  <2>7. \A j \in Limit!Keys : (v[j].left = 0 => v[j] = Limit!Closed) /\ v[j].admitted <= Limit!Limit(j)
    BY DEF Fits
  <2> QED
    BY <1>1, <2>2, <2>3, <2>4, <2>6, <2>7 DEF Fits
<1>4. CASE ~Limit!Has(m, k)
  <2>1. s = Append(m, c)
    BY <1>4 DEF Limit!Put
  <2>2. /\ s \in Seq(Limit!Counter) /\ Len(s) = Len(m) + 1 /\ DOMAIN s = 1..(Len(m) + 1)
        /\ s[Len(m) + 1] = c /\ \A i \in DOMAIN m : s[i] = m[i]
    BY <1>1, <2>1
  <2>3. \A i \in DOMAIN s : i \in DOMAIN m \/ i = Len(m) + 1
    BY <1>1, <2>2
  <2>4. Len(m) + 1 \in DOMAIN s /\ \A i \in DOMAIN m : i \in DOMAIN s
    BY <1>1, <2>2
  <2>5. \A i \in DOMAIN m : m[i].key # k
    BY <1>4 DEF Limit!Has
  <2>6. ASSUME NEW i \in DOMAIN s, NEW n \in DOMAIN s, i # n PROVE s[i].key # s[n].key
    <3>1. CASE i \in DOMAIN m /\ n \in DOMAIN m
      BY <1>1, <2>2, <2>6, <3>1 DEF Single
    <3>2. CASE i \in DOMAIN m /\ n = Len(m) + 1
      BY <2>2, <2>5, <3>2
    <3>3. CASE n \in DOMAIN m /\ i = Len(m) + 1
      BY <2>2, <2>5, <3>3
    <3> QED
      BY <2>3, <2>6, <3>1, <3>2, <3>3
  <2>7. ASSUME NEW i \in DOMAIN s PROVE Counts(s[i], v[s[i].key])
    <3>1. CASE i \in DOMAIN m
      BY <1>2, <2>2, <2>5, <3>1
    <3>2. CASE i = Len(m) + 1
      BY <2>2, <3>2
    <3> QED
      BY <2>3, <3>1, <3>2
  <2>8. ASSUME NEW j \in Limit!Keys, ~Limit!Has(s, j) PROVE j # k /\ ~Limit!Has(m, j)
    BY <2>2, <2>4, <2>8 DEF Limit!Has
  <2>9. \A j \in Limit!Keys : ~Limit!Has(s, j) => v[j] = Limit!Closed
    BY <2>8 DEF Fits
  <2>10. \A j \in Limit!Keys : (v[j].left = 0 => v[j] = Limit!Closed) /\ v[j].admitted <= Limit!Limit(j)
    BY DEF Fits
  <2>11. Len(s) <= MaxKeys /\ Single(s)
    BY <1>1, <1>4, <2>2, <2>6 DEF Single
  <2> QED
    BY <2>2, <2>7, <2>9, <2>10, <2>11 DEF Fits
<1> QED
  BY <1>3, <1>4

\* An attempt opens the window of a key or counts in it, and is admitted or
\* not.
Given(w, on) ==
    [left |-> IF w.left = 0 THEN Window ELSE w.left,
     admitted |-> w.admitted + (IF on THEN 1 ELSE 0)]

\* The windows after an attempt at k by which the store dropped some keys.
After(w, k, on, dropped) ==
    [j \in Limit!Keys |-> IF j = k THEN Given(w[k], on)
                          ELSE IF j \in dropped THEN Limit!Closed ELSE w[j]]

\* What an increment finds, and the store it makes room in.
Lives(m, k) == Limit!Has(m, k) /\ Limit!Live(Limit!Entry(m, k))
Swept(m, cleans) == IF cleans THEN Limit!Cleaned(m) ELSE m
Evicts(m, k, cleans) == ~Limit!Has(m, k) /\ Len(Swept(m, cleans)) >= MaxKeys
Room(m, k, cleans) ==
    IF Evicts(m, k, cleans) THEN Tail(Swept(m, cleans)) ELSE Swept(m, cleans)
Lost(m, k, cleans) ==
    IF Room(m, k, cleans) # Swept(m, cleans) /\ Limit!Live(Swept(m, cleans)[1])
    THEN {Swept(m, cleans)[1].key} ELSE {}
Entered(m, k) ==
    [key |-> k,
     count |-> IF Lives(m, k) THEN Limit!Capped(Limit!Entry(m, k).count) + 1 ELSE 1,
     left |-> IF Lives(m, k) THEN Limit!Entry(m, k).left ELSE Window]

LEMMA IncrementIs ==
    ASSUME NEW m, NEW k, NEW cleans
    PROVE  /\ Limit!Increment(m, k, cleans).map = Limit!Put(Room(m, k, cleans), k, Entered(m, k))
           /\ Limit!Increment(m, k, cleans).count = Entered(m, k).count
           /\ Limit!Increment(m, k, cleans).dropped = Lost(m, k, cleans)
BY DEF Limit!Increment, Room, Evicts, Swept, Lost, Entered, Lives

\* The store after a cleanup and, when the key is new and the store full, the
\* loss of the first counter: the windows of the dropped are closed.
LEMMA RoomFits ==
    ASSUME NEW m, NEW w, Fits(m, w), NEW k \in Limit!Keys, NEW cleans \in BOOLEAN,
           NEW x, x = [j \in Limit!Keys |->
                          IF j \in Lost(m, k, cleans) THEN Limit!Closed ELSE w[j]]
    PROVE  /\ Fits(Room(m, k, cleans), x) /\ k \notin Lost(m, k, cleans)
           /\ Limit!Has(Room(m, k, cleans), k) \/ Len(Room(m, k, cleans)) < MaxKeys
<1>5. PICK swept : swept = Swept(m, cleans)
  OBVIOUS
<1>6. PICK room : room = Room(m, k, cleans)
  OBVIOUS
<1>7. PICK dropped : dropped = Lost(m, k, cleans)
  OBVIOUS
<1>8. /\ swept = IF cleans THEN Limit!Cleaned(m) ELSE m
      /\ room = IF ~Limit!Has(m, k) /\ Len(swept) >= MaxKeys THEN Tail(swept) ELSE swept
      /\ dropped = IF room # swept /\ Limit!Live(swept[1]) THEN {swept[1].key} ELSE {}
  BY <1>5, <1>6, <1>7, Zenon DEF Swept, Room, Evicts, Lost
<1>9. x = [j \in Limit!Keys |-> IF j \in dropped THEN Limit!Closed ELSE w[j]]
  BY <1>7
<1>1. /\ Fits(swept, w) /\ Len(swept) <= Len(m)
      /\ \A j : Limit!Has(swept, j) => Limit!Has(m, j)
      /\ \A i \in DOMAIN m : Len(swept) < Len(m) \/ Limit!Has(swept, m[i].key)
  <2>1. CASE cleans
    BY <1>8, <2>1, CleanedFits
  <2>2. CASE ~cleans
    <3>1. swept = m /\ Len(m) \in Nat
      BY <1>8, <2>2 DEF Fits
    <3> QED
      BY <3>1 DEF Limit!Has
  <2> QED
    BY <2>1, <2>2
<1>2. /\ Len(swept) \in Nat /\ Len(m) \in Nat /\ MaxKeys \in Nat \ {0} /\ Len(swept) <= MaxKeys
      /\ Len(m) <= MaxKeys /\ swept \in Seq(Limit!Counter) /\ w \in [Limit!Keys -> Windows]
      /\ DOMAIN swept = 1..Len(swept)
  BY <1>1, PartsAssumption DEF Fits
<1>3. CASE ~Limit!Has(m, k) /\ Len(swept) >= MaxKeys
  <2>1. room = Tail(swept) /\ Len(room) = Len(swept) - 1 /\ room # swept /\ Len(swept) >= 1
    <3>1. room = Tail(swept) /\ Len(swept) >= 1
      BY <1>2, <1>3, <1>8
    <3>2. Len(Tail(swept)) = Len(swept) - 1
      BY <1>2, <3>1
    <3>4. Len(swept) \in Nat
      BY <1>2
    <3>3. room # swept
      <4>1. Len(room) # Len(swept)
        BY <3>1, <3>2, <3>4
      <4> QED
        BY <4>1
    <3> QED
      BY <3>1, <3>2, <3>3
  <2>2. PICK first : first = swept[1].key
    OBVIOUS
  <2>9. swept \in Seq(Limit!Counter) /\ 1 \in DOMAIN swept
    <3>1. Len(swept) \in Nat /\ DOMAIN swept = 1..Len(swept) /\ swept \in Seq(Limit!Counter)
      BY <1>2
    <3>2. Len(swept) >= 1
      BY <2>1
    <3>3. 1 \in 1..Len(swept)
      BY <3>1, <3>2
    <3> QED
      BY <3>1, <3>3
  <2>3. /\ first \in Limit!Keys /\ swept[1].left \in Nat /\ Limit!Has(swept, first)
        /\ 1 \in DOMAIN swept
    BY <2>2, <2>9, CounterFields DEF Limit!Has
  <2>4. first # k /\ dropped \subseteq {first}
    BY <1>1, <1>3, <1>8, <2>2, <2>3
  <2>5. first \notin dropped => w[first] = Limit!Closed
    <3>1. ASSUME first \notin dropped PROVE w[first] = Limit!Closed
      <4>1. ~Limit!Live(swept[1])
        BY <1>8, <2>1, <2>2, <3>1
      <4>2. swept[1].left = 0
        BY <2>3, <4>1 DEF Limit!Live
      <4>3. w[first].left = 0
        BY <1>1, <2>2, <2>3, <4>2 DEF Fits, Counts
      <4> QED
        BY <1>1, <2>3, <4>3 DEF Fits
    <3> QED
      BY <3>1
  <2>6. x \in [Limit!Keys -> Windows]
    BY <1>2, <1>9, PartsAssumption DEF Windows, Limit!Closed
  <2>7. Closes(x, w, first)
    BY <1>9, <2>3, <2>4, <2>5, <2>6 DEF Closes
  <2>8. Fits(room, x)
    BY <1>1, <2>1, <2>2, <2>7, TailFits
  <2> QED
    <3>1. Len(room) < MaxKeys
      <4>1. Len(swept) \in Nat /\ Len(swept) <= MaxKeys /\ MaxKeys \in Nat
        BY <1>2
      <4>2. Len(room) = Len(swept) - 1
        BY <2>1
      <4> QED
        BY <4>1, <4>2
    <3>2. k \notin dropped
      BY <2>4
    <3> QED
      BY <1>6, <1>7, <2>8, <3>1, <3>2
<1>4. CASE ~(~Limit!Has(m, k) /\ Len(swept) >= MaxKeys)
  <2>1. room = swept /\ dropped = {}
    BY <1>4, <1>8
  <2>2. x = w
    BY <1>2, <1>9, <2>1
  <2>3. Limit!Has(swept, k) \/ Len(swept) < MaxKeys
    <3>1. CASE Limit!Has(m, k)
      <4>1. PICK i \in DOMAIN m : m[i].key = k
        BY <3>1 DEF Limit!Has
      <4> QED
        BY <1>1, <1>2, <4>1
    <3>2. CASE ~Limit!Has(m, k)
      BY <1>2, <1>4, <3>2
    <3> QED
      BY <3>1, <3>2
  <2> QED
    BY <1>1, <1>6, <1>7, <2>1, <2>2, <2>3
<1> QED
  BY <1>3, <1>4

\* The counter of an attempt is in the window of its key, past all that the
\* window has admitted.
LEMMA EnteredCounts ==
    ASSUME NEW m, NEW w, Fits(m, w), NEW k \in Limit!Keys, NEW c, c = Entered(m, k)
    PROVE  /\ c \in Limit!Counter /\ c.key = k /\ c.count >= w[k].admitted + 1
           /\ c.left = (IF w[k].left = 0 THEN Window ELSE w[k].left) /\ c.left > 0
<1>1. /\ w[k].left \in Nat /\ w[k].left <= Window
      /\ w[k].admitted \in Nat /\ w[k].admitted <= Limit!Limit(k)
      /\ (w[k].left = 0 => w[k].admitted = 0)
      /\ Window \in Nat /\ Window > 0 /\ LoginMaxAttempts \in Nat
  <2>1. w \in [Limit!Keys -> Windows] /\ w[k].admitted <= Limit!Limit(k)
        /\ (w[k].left = 0 => w[k] = Limit!Closed)
    BY DEF Fits
  <2>2. Limit!Closed.admitted = 0
    BY DEF Limit!Closed
  <2>3. w[k].left \in Nat /\ w[k].left <= Window /\ w[k].admitted \in Nat
    BY <2>1, WindowFields
  <2>4. Window \in Nat /\ Window > 0 /\ LoginMaxAttempts \in Nat
    BY PartsAssumption
  <2>5. w[k].left = 0 => w[k].admitted = 0
    BY <2>1, <2>2
  <2> QED
    BY <2>1, <2>3, <2>4, <2>5
<1>2. Limit!Limit(k) \in Nat /\ Limit!Limit(k) <= 3 * LoginMaxAttempts
  BY <1>1 DEF Limit!Limit
<1>3. CASE Lives(m, k)
  <2>1. PICK i \in DOMAIN m : m[i].key = k /\ Limit!Entry(m, k) = m[i] /\ m[i].left > 0
    BY <1>3, EntryIs DEF Lives, Limit!Live
  <2>2. m[i].left \in Nat /\ m[i].count \in Nat /\ m[i].left = w[k].left
        /\ (w[k].left > 0 => w[k].admitted <= m[i].count)
    BY <2>1, CounterFields DEF Fits, Counts
  <2>3. PICK top \in Nat : top = Limit!Capped(m[i].count) /\ w[k].admitted <= top
    BY <1>1, <1>2, <2>1, <2>2 DEF Limit!Capped
  <2>4. c = [key |-> k, count |-> top + 1, left |-> w[k].left]
    BY <1>3, <2>1, <2>2, <2>3 DEF Entered
  <2>5. top + 1 \in Nat /\ top + 1 >= w[k].admitted + 1 /\ w[k].left > 0 /\ w[k].left \in 0..Window
    BY <1>1, <2>1, <2>2, <2>3
  <2> QED
    BY <2>4, <2>5 DEF Limit!Counter
<1>4. CASE ~Lives(m, k)
  <2>1. w[k].left = 0
    <3>1. CASE ~Limit!Has(m, k)
      BY <3>1 DEF Fits, Limit!Closed
    <3>2. CASE Limit!Has(m, k)
      <4>1. PICK i \in DOMAIN m : m[i].key = k /\ Limit!Entry(m, k) = m[i]
        BY <3>2, EntryIs
      <4>2. m[i].left \in Nat /\ m[i].left = w[k].left
        BY <4>1, CounterFields DEF Fits, Counts
      <4>3. ~(m[i].left > 0)
        BY <1>4, <3>2, <4>1 DEF Lives, Limit!Live
      <4> QED
        BY <4>2, <4>3
    <3> QED
      BY <3>1, <3>2
  <2>2. c = [key |-> k, count |-> 1, left |-> Window] /\ Window \in 0..Window
    BY <1>1, <1>4 DEF Entered
  <2> QED
    BY <1>1, <2>1, <2>2 DEF Limit!Counter
<1> QED
  BY <1>3, <1>4

\* An increment counts an attempt in the window of its key.
LEMMA IncrementFits ==
    ASSUME NEW m, NEW w, Fits(m, w), NEW k \in Limit!Keys, NEW cleans \in BOOLEAN,
           NEW res, res = Limit!Increment(m, k, cleans), NEW on \in BOOLEAN,
           on => res.count <= Limit!Limit(k), NEW v, v = After(w, k, on, res.dropped)
    PROVE  Fits(res.map, v) /\ k \notin res.dropped
<1>1. PICK room : room = Room(m, k, cleans)
  OBVIOUS
<1>2. PICK c : c = Entered(m, k)
  OBVIOUS
<1>3. res.map = Limit!Put(room, k, c) /\ res.count = c.count /\ res.dropped = Lost(m, k, cleans)
  BY <1>1, <1>2, IncrementIs
<1>4. PICK x : x = [j \in Limit!Keys |-> IF j \in Lost(m, k, cleans) THEN Limit!Closed ELSE w[j]]
  OBVIOUS
<1>5. Fits(room, x) /\ k \notin res.dropped /\ (Limit!Has(room, k) \/ Len(room) < MaxKeys)
  BY <1>1, <1>3, <1>4, RoomFits
<1>6. /\ w \in [Limit!Keys -> Windows] /\ w[k].left \in Nat /\ w[k].left <= Window
      /\ w[k].admitted \in Nat /\ w[k].admitted <= Limit!Limit(k) /\ Limit!Limit(k) \in Nat
      /\ Window \in Nat /\ Window > 0 /\ Limit!Closed \in Windows
  BY WindowFields, PartsAssumption DEF Fits, Limit!Closed, Limit!Limit, Windows
<1>7. /\ c \in Limit!Counter /\ c.key = k /\ c.count >= w[k].admitted + 1 /\ c.count \in Nat
      /\ c.left = (IF w[k].left = 0 THEN Window ELSE w[k].left) /\ c.left > 0
  BY <1>2, EnteredCounts DEF Limit!Counter
<1>8. PICK gave : gave = Given(w[k], on)
  OBVIOUS
<1>9. /\ gave \in Windows /\ gave.left = c.left
      /\ gave.admitted = w[k].admitted + (IF on THEN 1 ELSE 0)
  BY <1>6, <1>7, <1>8 DEF Given, Windows
<1>10. Counts(c, gave) /\ gave.admitted <= Limit!Limit(k)
  BY <1>3, <1>6, <1>7, <1>9 DEF Counts
<1>11. /\ v \in [Limit!Keys -> Windows] /\ v[k] = gave
       /\ \A j \in Limit!Keys : j # k => v[j] = x[j]
  BY <1>3, <1>4, <1>6, <1>8, <1>9 DEF After
<1> QED
  BY <1>3, <1>5, <1>7, <1>9, <1>10, <1>11, PutFits

\* The types of a login, and the store with its windows.
LimitInv == Limit!TypeOK /\ Fits(map, window)

LEMMA LimitInitial == PartsInit => LimitInv
<1> SUFFICES ASSUME PartsInit PROVE LimitInv
  OBVIOUS
<1>1. Limit!Init
  BY DEF PartsInit
<1>2. /\ map = <<>> /\ writes = 0 /\ window = [k \in Limit!Keys |-> Limit!Closed]
      /\ login = [r \in Requests |-> Limit!Idle]
  BY <1>1 DEF Limit!Init
<1>3. map \in Seq(Limit!Counter) /\ Len(map) = 0 /\ DOMAIN map = {}
  BY <1>2
<1>4. window \in [Limit!Keys -> Windows]
  BY <1>2, PartsAssumption DEF Windows, Limit!Closed
<1>5. \A k \in Limit!Keys : window[k] = Limit!Closed /\ window[k].admitted <= Limit!Limit(k)
  BY <1>2, PartsAssumption DEF Limit!Closed, Limit!Limit
<1>6. Fits(map, window)
  BY <1>3, <1>4, <1>5, PartsAssumption DEF Fits, Single
<1> QED
  BY <1>2, <1>3, <1>4, <1>6, PartsAssumption DEF LimitInv, Limit!TypeOK, Windows

LEMMA LimitTyped ==
    ASSUME Fits(map, window)', writes' \in 0..(GcInterval - 1),
           login' \in [Requests -> Limit!IpKeys \cup {Limit!Idle}]
    PROVE  LimitInv'
BY DEF LimitInv, Limit!TypeOK, Fits, Windows

LEMMA LimitStep == LimitInv /\ Limit!Next => LimitInv'
<1> SUFFICES ASSUME LimitInv, Limit!Next PROVE LimitInv'
  OBVIOUS
<1>1. /\ Fits(map, window) /\ writes \in 0..(GcInterval - 1) /\ GcInterval \in Nat \ {0}
      /\ login \in [Requests -> Limit!IpKeys \cup {Limit!Idle}]
  BY PartsAssumption DEF LimitInv, Limit!TypeOK
<1>2. ASSUME NEW r \in Requests, NEW ip \in Ips, NEW a \in Logins, Limit!Attempt(r, ip, a)
      PROVE  LimitInv'
  <2>1. PICK k : k = <<ip, a>>
    OBVIOUS
  <2>2. /\ k \in Limit!IpKeys /\ k \in Limit!Keys /\ a \in Limit!Keys /\ a \notin Limit!IpKeys /\ k # a
        /\ Limit!Limit(k) = LoginMaxAttempts /\ Limit!Limit(a) = 3 * LoginMaxAttempts
    BY <2>1, PartsAssumption DEF Limit!Keys, Limit!IpKeys, Limit!Limit
  <2>3. PICK first : first = Limit!Increment(map, k, writes + 1 = GcInterval)
    OBVIOUS
  <2>4. PICK second : second = Limit!Increment(first.map, a, (writes + 2) % GcInterval = 0)
    OBVIOUS
  <2>5. PICK on \in BOOLEAN :
           on = (first.count <= LoginMaxAttempts /\ second.count <= 3 * LoginMaxAttempts)
    OBVIOUS
  <2>6. PICK before : before = [j \in Limit!Keys |-> IF j \in first.dropped THEN Limit!Closed
                                                                         ELSE window[j]]
    OBVIOUS
  <2>7. /\ map' = second.map /\ writes' = (writes + 2) % GcInterval
        /\ window' = [j \in Limit!Keys |->
                         IF j \in second.dropped THEN Limit!Closed
                         ELSE IF j \in {k, a} THEN Given(before[j], on) ELSE before[j]]
        /\ login' = [login EXCEPT ![r] = IF on THEN k ELSE Limit!Idle]
    BY <1>2, <2>1, <2>3, <2>4, <2>5, <2>6 DEF Limit!Attempt, Given
  <2>8. PICK v : v = After(window, k, on, first.dropped)
    OBVIOUS
  <2>9. PICK c \in BOOLEAN : c = (writes + 1 = GcInterval)
    OBVIOUS
  <2>10. Fits(first.map, v) /\ k \notin first.dropped
    <3>1. on => first.count <= Limit!Limit(k)
      BY <2>2, <2>5
    <3>2. first = Limit!Increment(map, k, c)
      BY <2>3, <2>9
    <3> QED
      BY <1>1, <2>2, <2>8, <3>1, <3>2, IncrementFits
  <2>11. PICK d \in BOOLEAN : d = ((writes + 2) % GcInterval = 0)
    OBVIOUS
  <2>12. PICK x : x = After(v, a, on, second.dropped)
    OBVIOUS
  <2>13. Fits(second.map, x) /\ a \notin second.dropped
    <3>1. on => second.count <= Limit!Limit(a)
      BY <2>2, <2>5
    <3>2. second = Limit!Increment(first.map, a, d)
      BY <2>4, <2>11
    <3> QED
      BY <2>2, <2>10, <2>12, <3>1, <3>2, IncrementFits
  <2>14. x = window'
    <3>1. v[k] = Given(window[k], on) /\ before[k] = window[k] /\ v[a] = before[a]
          /\ \A j \in Limit!Keys \ {k} : v[j] = before[j]
      BY <2>2, <2>6, <2>8, <2>10 DEF After
    <3>2. \A j \in Limit!Keys : x[j] = window'[j]
      BY <2>2, <2>7, <2>12, <2>13, <3>1 DEF After
    <3> QED
      BY <2>7, <2>12, <3>2 DEF After
  <2>15. (writes + 2) % GcInterval \in 0..(GcInterval - 1)
    BY <1>1
  <2>16. login' \in [Requests -> Limit!IpKeys \cup {Limit!Idle}]
    BY <1>1, <2>2, <2>7
  <2> QED
    BY <2>7, <2>13, <2>14, <2>15, <2>16, LimitTyped
<1>3. ASSUME NEW r \in Requests, Limit!Succeed(r) PROVE LimitInv'
  <2>1. PICK k \in Limit!IpKeys : k = login[r]
    BY <1>1, <1>3 DEF Limit!Succeed
  <2>2. PICK a \in Logins : a = k[2]
    BY DEF Limit!IpKeys
  <2>3. k \in Limit!Keys /\ a \in Limit!Keys
    BY DEF Limit!Keys
  <2>4. /\ map' = Limit!Delete(Limit!Delete(map, k), a)
        /\ window' = [j \in Limit!Keys |-> IF j \in {k, a} THEN Limit!Closed ELSE window[j]]
        /\ login' = [login EXCEPT ![r] = Limit!Idle] /\ writes' = writes
    BY <1>3, <2>1, <2>2 DEF Limit!Succeed
  <2>5. window \in [Limit!Keys -> Windows] /\ Limit!Closed \in Windows
    BY <1>1, PartsAssumption DEF Fits, Windows, Limit!Closed
  <2>6. PICK v : v = [j \in Limit!Keys |-> IF j = k THEN Limit!Closed ELSE window[j]]
    OBVIOUS
  <2>7. Closes(v, window, k) /\ Closes(window', v, a)
    BY <2>3, <2>4, <2>5, <2>6 DEF Closes
  <2>8. Fits(Limit!Delete(map, k), v)
    BY <1>1, <2>3, <2>7, DeleteFits
  <2>9. Fits(map', window')
    BY <2>3, <2>4, <2>7, <2>8, DeleteFits
  <2>10. login' \in [Requests -> Limit!IpKeys \cup {Limit!Idle}] /\ writes' \in 0..(GcInterval - 1)
    BY <1>1, <2>4
  <2> QED
    BY <2>9, <2>10, LimitTyped
<1>4. ASSUME NEW r \in Requests, Limit!WrongPassword(r) PROVE LimitInv'
  <2>1. login' \in [Requests -> Limit!IpKeys \cup {Limit!Idle}] /\ writes' = writes
        /\ map' = map /\ window' = window
    BY <1>1, <1>4 DEF Limit!WrongPassword
  <2> QED
    BY <1>1, <2>1, LimitTyped
<1>5. ASSUME Limit!Tick PROVE LimitInv'
  <2>1. /\ map' = [i \in DOMAIN map |-> [map[i] EXCEPT !.left = Limit!Less(@)]]
        /\ window' = [k \in Limit!Keys |-> IF window[k].left <= 1 THEN Limit!Closed
                                         ELSE [window[k] EXCEPT !.left = @ - 1]]
        /\ writes' = writes /\ login' = login
    BY <1>5 DEF Limit!Tick
  <2>2. map \in Seq(Limit!Counter) /\ DOMAIN map = 1..Len(map) /\ Len(map) \in Nat /\ Len(map) <= MaxKeys
        /\ Window \in Nat /\ Window > 0
    BY <1>1, PartsAssumption DEF Fits
  <2>3. ASSUME NEW i \in DOMAIN map
        PROVE  /\ map'[i] \in Limit!Counter /\ map'[i].key = map[i].key
               /\ map'[i].count = map[i].count /\ map'[i].left = Limit!Less(map[i].left)
               /\ map'[i].key \in Limit!Keys
    <3>1. PICK c \in Limit!Counter : c = map[i]
      BY <2>2
    <3>2. c.left \in 0..Window /\ c.key \in Limit!Keys
      BY DEF Limit!Counter
    <3>3. Limit!Less(c.left) \in 0..Window
      BY <2>2, <3>2 DEF Limit!Less
    <3>4. map'[i] = [c EXCEPT !.left = Limit!Less(c.left)]
      BY <2>1, <3>1
    <3> QED
      BY <3>1, <3>2, <3>3, <3>4 DEF Limit!Counter
  <2>4. map' \in Seq(Limit!Counter) /\ Len(map') = Len(map) /\ DOMAIN map' = DOMAIN map
    <3>1. PICK new : new = map'
      OBVIOUS
    <3>2. DOMAIN new = 1..Len(map) /\ \A i \in 1..Len(map) : new[i] \in Limit!Counter
      BY <2>1, <2>2, <2>3, <3>1
    <3>3. new = [i \in 1..Len(map) |-> new[i]]
      BY <2>1, <2>2, <3>1
    <3>4. new \in [1..Len(map) -> Limit!Counter]
      BY <3>2, <3>3
    <3> QED
      BY <2>2, <3>1, <3>2, <3>4
  <2>5. ASSUME NEW k \in Limit!Keys
        PROVE  /\ window'[k] \in Windows /\ window'[k].left = Limit!Less(window[k].left)
               /\ window'[k].left = 0 => window'[k] = Limit!Closed
               /\ window'[k].left > 0 => window'[k].admitted = window[k].admitted
               /\ window'[k] = Limit!Closed \/ window'[k].admitted = window[k].admitted
    <3>1. PICK w \in Windows : w = window[k]
      BY <1>1 DEF Fits
    <3>2. window'[k] = IF w.left <= 1 THEN Limit!Closed ELSE [w EXCEPT !.left = w.left - 1]
      BY <2>1, <3>1
    <3> QED
      BY <2>2, <3>1, <3>2 DEF Windows, Limit!Closed, Limit!Less
  <2>6. window' \in [Limit!Keys -> Windows]
    BY <2>1, <2>5
  <2>7. ASSUME NEW i \in DOMAIN map' PROVE Counts(map'[i], window'[map'[i].key])
    <3>1. i \in DOMAIN map /\ map'[i].key = map[i].key /\ map[i].key \in Limit!Keys
      BY <2>3, <2>4
    <3>2. Counts(map[i], window[map[i].key])
      BY <1>1, <3>1 DEF Fits
    <3>3. window[map[i].key].left \in Nat
      BY <1>1, <3>1, WindowFields DEF Fits
    <3> QED
      BY <2>3, <2>5, <3>1, <3>2, <3>3 DEF Counts, Limit!Less
  <2>8. ASSUME NEW k \in Limit!Keys
        PROVE  /\ ~Limit!Has(map', k) => window'[k] = Limit!Closed
               /\ window'[k].left = 0 => window'[k] = Limit!Closed
               /\ window'[k].admitted <= Limit!Limit(k)
    <3>1. ~Limit!Has(map', k) => ~Limit!Has(map, k)
      BY <2>3, <2>4 DEF Limit!Has
    <3>2. Limit!Limit(k) \in Nat
      BY PartsAssumption DEF Limit!Limit
    <3>3. ~Limit!Has(map, k) => window'[k] = Limit!Closed
      BY <1>1, <2>1 DEF Fits, Limit!Closed
    <3>4. window'[k].admitted <= Limit!Limit(k)
      BY <1>1, <2>5, <3>2 DEF Fits, Limit!Closed
    <3> QED
      BY <2>5, <3>1, <3>3, <3>4
  <2>9. Single(map')
    BY <1>1, <2>3, <2>4 DEF Single, Fits
  <2>10. Fits(map', window')
    BY <2>2, <2>4, <2>6, <2>7, <2>8, <2>9 DEF Fits
  <2> QED
    BY <1>1, <2>1, <2>10, LimitTyped
<1> QED
  BY <1>2, <1>3, <1>4, <1>5 DEF Limit!Next

LEMMA LimitAlways == PartsSpec => []LimitInv
<1>1. LimitInv /\ UNCHANGED <<map, writes, login, window>> => LimitInv'
  BY DEF LimitInv, Limit!TypeOK, Fits
<1>2. LimitInv /\ [PartsNext]_allVars => LimitInv'
  BY <1>1, LimitStep DEF PartsNext, allVars, limitVars
<1> QED
  BY <1>2, LimitInitial, PTL DEF PartsSpec

\* Between the attempt that opens a window and its end, a login that succeeds
\* or the loss of the counter to a full store, no key admits more attempts
\* than its limit, whatever the store's cleanups and evictions, and the store
\* never holds more counters than it may.
THEOREM LimitsStay == PartsSpec => []LimitsHold
<1>1. LimitInv => LimitsHold
  <2> SUFFICES ASSUME LimitInv PROVE Limit!TypeOK /\ Limit!LimitsHold
    BY DEF LimitsHold
  <2>1. Fits(map, window) /\ Limit!TypeOK
    BY DEF LimitInv
  <2>2. ASSUME NEW k \in Limit!Keys, Limit!Has(map, k)
        PROVE  Limit!Entry(map, k).left = window[k].left
    <3>1. PICK i \in DOMAIN map : map[i].key = k /\ Limit!Entry(map, k) = map[i]
      BY <2>2, EntryIs
    <3> QED
      BY <2>1, <3>1 DEF Fits, Counts
  <2> QED
    BY <2>1, <2>2 DEF Limit!LimitsHold, Fits
<1> QED
  BY <1>1, LimitAlways, PTL

=============================================================================
