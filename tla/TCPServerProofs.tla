--------------------------- MODULE TCPServerProofs ---------------------------
(***************************************************************************)
(* Theorems about TCPServer, for any clients, users' threads and bounds.   *)
(***************************************************************************)
EXTENDS TCPServer, FiniteSetTheorems, SequenceTheorems, TLAPS

(***************************************************************************)
(* What holds whatever happens to m_deqConns.  Each element belongs to a   *)
(* client of its own, and is that client or, once it was reset or moved,   *)
(* null.                                                                   *)
(***************************************************************************)
OwnedBy(f, q, S) ==
    /\ f \in [DOMAIN q -> S]
    /\ \A i, j \in DOMAIN q : f[i] = f[j] => i = j
    /\ \A i \in DOMAIN q : q[i] \in {f[i], NoClient}

Owned == \E f : OwnedBy(f, m_deqConns, approved)

AcceptBase ==
    /\ accept.at = "idle" <=> accept.conn = NoClient
    /\ accept.at = "request" => accept.conn \notin approved /\ socket[accept.conn] = "open"
    /\ connected \cup reported \subseteq approved
    /\ \A c \in approved : socket[c] \in {"open", "closed"}

\* A call further out is in the hook that made the inner one; the accept
\* handler makes none between push_back and OnClientConnected.
Nested ==
    /\ \A t \in Threads : \A i \in 1..Len(calls[t]) - 1 : calls[t][i].at = "hook"
    /\ accept.at \in {"pushed", "named"} => ~InCall(Context)

BaseInv == TypeOK /\ AcceptBase /\ Owned /\ Nested

(***************************************************************************)
(* What holds as long as nothing has overlapped.  The connection the       *)
(* accept handler is about is open until the handler is over, since every  *)
(* other handler of the context thread waits for it.                       *)
(***************************************************************************)
AcceptInv ==
    /\ accept.at # "idle" => socket[accept.conn] = "open"
    /\ accept.at \in {"pushed", "named"} => accept.conn \notin connected
    /\ accept.at \in {"pushed", "named", "hook"} => accept.conn \in approved
    /\ \A c \in approved : c \in connected
           \/ (accept.at \in {"pushed", "named"} /\ c = accept.conn)
    /\ reported \subseteq connected
    /\ \A c \in reported : socket[c] = "closed"

(***************************************************************************)
(* A loop under way: what it has met, and what m_deqConns (q) has become   *)
(* since it began, given the connections reported (rep) and the sockets.   *)
(* `call` may be any loop, not only the innermost of its thread.           *)
(***************************************************************************)
SentTo(call, c) == {i \in DOMAIN call.sentTo : call.sentTo[i] = c}

InRange(call, q) ==
    /\ call.end = Len(call.was) /\ call.end <= Len(q)
    /\ call.next \in 1..call.end + 1
    /\ call.at = "hook" => call.next <= call.end

WasThere(call, q, rep) ==
    /\ \A i \in 1..call.end :
          q[i] = call.was[i] \/ (q[i] = NoClient /\ call.was[i] \in rep)
    /\ \A i, j \in 1..call.end :
          call.was[i] = call.was[j] /\ call.was[i] # NoClient => i = j

Reported(call, q, rep) == call.at = "hook" => q[call.next] \in rep \cup {NoClient}

Sent(call, sock) ==
    \A i \in 1..call.end : call.was[i] \in Clients /\ sock[call.was[i]] = "open" =>
        IF i < call.next /\ call.was[i] # call.ignore
        THEN \E k : SentTo(call, call.was[i]) = {k}
        ELSE SentTo(call, call.was[i]) = {}

Swept(call, q, sock) ==
    /\ \A c \in call.dead : sock[c] = "closed"
    /\ \A i \in 1..Len(q) : i < call.next \/ i > call.end => q[i] \notin call.dead

LoopOK(call, q, rep, sock) ==
    /\ InRange(call, q) /\ WasThere(call, q, rep) /\ Reported(call, q, rep)
    /\ Sent(call, sock) /\ Swept(call, q, sock)

InLoop(call) == call.at = "loop" \/ (call.name = "all" /\ call.at = "hook")

LoopsOK ==
    \A t \in Threads : \A i \in 1..Len(calls[t]) :
        InLoop(calls[t][i]) =>
            LoopOK(calls[t][i], m_deqConns, reported, socket)

(***************************************************************************)
(* A remove under way: behind it, from result on, it has left null         *)
(* pointers, and a MessageAllClients has no dead client left.              *)
(***************************************************************************)
RemoveOK(call, q) ==
    /\ call.end = Len(q)
    /\ call.next \in 1..call.end + 1 /\ call.result \in 1..call.next
    /\ \A i \in call.result..call.next - 1 : q[i] = NoClient
    /\ call.name = "all" => \A i \in 1..Len(q) : q[i] \notin call.dead

RemovesOK ==
    \A t \in Threads : At(t, "remove") => RemoveOK(Top(t), m_deqConns)

\* Where the connection is that the accept handler has pushed: at the end,
\* but for the moment between the remove and the erase of a call of the hook.
Moved == At(Context, "remove") /\ Top(Context).next > Top(Context).end
Back1(q) == q # <<>> /\ q[Len(q)] = accept.conn
BackOK ==
    accept.at \in {"pushed", "named", "hook"} =>
        IF Moved THEN Top(Context).result > 1
                      /\ m_deqConns[Top(Context).result - 1] = accept.conn
        ELSE Back1(m_deqConns)

Listed == \A c \in approved : c \in reported \/ \E i \in 1..Len(m_deqConns) : m_deqConns[i] = c

QuietInv == AcceptInv /\ Listed /\ BackOK /\ LoopsOK /\ RemovesOK

ServerInv == BaseInv /\ (~overlapped => QuietInv)

-----------------------------------------------------------------------------
(* What the steps make of m_deqConns, and of who owns its elements.         *)

\* The elements of a deque, each with a client of its own, are no more than
\* the clients.
LEMMA NoLonger ==
  ASSUME NEW q \in Seq(Pointers), NEW S \in SUBSET Clients, NEW f, OwnedBy(f, q, S)
  PROVE  Len(q) <= Cardinality(Clients)
<1>1. f \in Injection(1..Len(q), Clients)
  BY DEF OwnedBy, Injection, IsInjective
<1>2. Cardinality(1..Len(q)) <= Cardinality(Clients)
  BY <1>1, ServerAssumption, FS_Injection
<1>3. Len(q) \in Nat /\ Cardinality(1..Len(q)) = Len(q)
  <2>1. Len(q) \in Nat /\ 1 \in Int /\ Len(q) \in Int
    OBVIOUS
  <2>2. Cardinality(1..Len(q)) = IF 1 > Len(q) THEN 0 ELSE Len(q) - 1 + 1
    BY <2>1, FS_Interval
  <2> QED
    BY <2>1, <2>2
<1> QED
  BY <1>2, <1>3

\* An element is reset.
Nulled(q, n) == [i \in DOMAIN q |-> IF i = n THEN NoClient ELSE q[i]]

LEMMA NulledSeq ==
  ASSUME NEW q \in Seq(Pointers), NEW n
  PROVE  /\ Nulled(q, n) \in Seq(Pointers) /\ Len(Nulled(q, n)) = Len(q)
         /\ DOMAIN Nulled(q, n) = 1..Len(q)
         /\ \A i \in 1..Len(q) : Nulled(q, n)[i] = IF i = n THEN NoClient ELSE q[i]
         /\ \A S : \A f : OwnedBy(f, q, S) => OwnedBy(f, Nulled(q, n), S)
<1> DEFINE r == Nulled(q, n)
<1>1. Len(q) \in Nat /\ DOMAIN q = 1..Len(q) /\ \A i \in 1..Len(q) : q[i] \in Pointers
  OBVIOUS
<1>2. r = [i \in 1..Len(q) |-> IF i = n THEN NoClient ELSE q[i]]
  BY <1>1 DEF Nulled
<1> HIDE DEF r
<1>3. \A i \in 1..Len(q) : r[i] = IF i = n THEN NoClient ELSE q[i]
  BY <1>2
<1>4. r \in [1..Len(q) -> Pointers]
  BY <1>1, <1>2 DEF Pointers
<1>5. r \in Seq(Pointers) /\ Len(r) = Len(q) /\ DOMAIN r = 1..Len(q)
  BY <1>1, <1>4, IsASeq, LenProperties
<1>6. ASSUME NEW S, NEW f, OwnedBy(f, q, S) PROVE OwnedBy(f, r, S)
  BY <1>1, <1>3, <1>5, <1>6 DEF OwnedBy
<1> QED
  BY <1>3, <1>5, <1>6 DEF r

\* An element moves to the front, over what stands there.
Shifted(q, k, n) ==
    [i \in DOMAIN q |-> IF i = k THEN q[n] ELSE IF i = n THEN NoClient ELSE q[i]]

LEMMA ShiftedSeq ==
  ASSUME NEW q \in Seq(Pointers), NEW k, NEW n \in 1..Len(q)
  PROVE  /\ Shifted(q, k, n) \in Seq(Pointers) /\ Len(Shifted(q, k, n)) = Len(q)
         /\ DOMAIN Shifted(q, k, n) = 1..Len(q)
         /\ \A i \in 1..Len(q) : Shifted(q, k, n)[i] =
                IF i = k THEN q[n] ELSE IF i = n THEN NoClient ELSE q[i]
<1> DEFINE r == Shifted(q, k, n)
<1>1. Len(q) \in Nat /\ DOMAIN q = 1..Len(q) /\ \A i \in 1..Len(q) : q[i] \in Pointers
  OBVIOUS
<1>2. r = [i \in 1..Len(q) |-> IF i = k THEN q[n] ELSE IF i = n THEN NoClient ELSE q[i]]
  BY <1>1 DEF Shifted
<1> HIDE DEF r
<1>3. \A i \in 1..Len(q) : r[i] = IF i = k THEN q[n] ELSE IF i = n THEN NoClient ELSE q[i]
  BY <1>2
<1>4. r \in [1..Len(q) -> Pointers]
  BY <1>1, <1>2 DEF Pointers
<1>5. r \in Seq(Pointers) /\ Len(r) = Len(q) /\ DOMAIN r = 1..Len(q)
  BY <1>1, <1>4, IsASeq, LenProperties
<1> QED
  BY <1>3, <1>5 DEF r

LEMMA ShiftedOwned ==
  ASSUME NEW q \in Seq(Pointers), NEW k, NEW n \in 1..Len(q),
         NEW S, NEW f, OwnedBy(f, q, S)
  PROVE  \E g : OwnedBy(g, Shifted(q, k, n), S)
<1> DEFINE r == Shifted(q, k, n)
           g == IF k \in 1..Len(q)
                THEN [i \in 1..Len(q) |-> IF i = k THEN f[n] ELSE IF i = n THEN f[k] ELSE f[i]]
                ELSE f
<1>1. /\ DOMAIN q = 1..Len(q) /\ DOMAIN r = 1..Len(q)
      /\ \A i \in 1..Len(q) : r[i] = IF i = k THEN q[n] ELSE IF i = n THEN NoClient ELSE q[i]
  BY ShiftedSeq
<1>2. /\ f \in [1..Len(q) -> S]
      /\ \A i, j \in 1..Len(q) : f[i] = f[j] => i = j
      /\ \A i \in 1..Len(q) : q[i] \in {f[i], NoClient}
  BY <1>1 DEF OwnedBy
<1> HIDE DEF r
<1>3. CASE k \in 1..Len(q)
  <2>1. g = [i \in 1..Len(q) |-> IF i = k THEN f[n] ELSE IF i = n THEN f[k] ELSE f[i]]
    BY <1>3
  <2> HIDE DEF g
  <2>2. \A i \in 1..Len(q) : g[i] = IF i = k THEN f[n] ELSE IF i = n THEN f[k] ELSE f[i]
    BY <2>1
  <2>3. g \in [1..Len(q) -> S]
    BY <1>2, <1>3, <2>1
  <2>4. \A i, j \in 1..Len(q) : g[i] = g[j] => i = j
    BY <1>2, <1>3, <2>2
  <2>5. \A i \in 1..Len(q) : r[i] \in {g[i], NoClient}
    BY <1>1, <1>2, <1>3, <2>2
  <2>6. OwnedBy(g, r, S)
    BY <1>1, <2>3, <2>4, <2>5 DEF OwnedBy
  <2> QED
    BY <2>6 DEF r
<1>4. CASE k \notin 1..Len(q)
  <2>1. \A i \in 1..Len(q) : r[i] \in {f[i], NoClient}
    BY <1>1, <1>2, <1>4
  <2>2. OwnedBy(f, r, S)
    BY <1>1, <1>2, <2>1 DEF OwnedBy
  <2> QED
    BY <2>2 DEF r
<1> QED
  BY <1>3, <1>4

\* The elements behind the first a, up to the b-th, are erased.
Without(q, a, b) == SubSeq(q, 1, a) \o SubSeq(q, b + 1, Len(q))

LEMMA WithoutSeq ==
  ASSUME NEW q \in Seq(Pointers), NEW a \in Nat, NEW b \in Nat, a <= b, b <= Len(q)
  PROVE  /\ Without(q, a, b) \in Seq(Pointers)
         /\ Len(Without(q, a, b)) = Len(q) - (b - a)
         /\ DOMAIN Without(q, a, b) = 1..Len(q) - (b - a)
         /\ \A i \in 1..Len(q) - (b - a) :
               Without(q, a, b)[i] = IF i <= a THEN q[i] ELSE q[i + (b - a)]
<1> DEFINE x == SubSeq(q, 1, a)
           y == SubSeq(q, b + 1, Len(q))
<1>1. Len(q) \in Nat /\ \A i \in 1..Len(q) : q[i] \in Pointers
  OBVIOUS
<1>2. /\ x \in Seq(Pointers) /\ Len(x) = a
      /\ \A i \in 1..a : x[i] = q[i]
  <2>1. 1 \in Int /\ a \in Int /\ \A i \in 1..a : q[i] \in Pointers
    BY <1>1
  <2>2. /\ x \in Seq(Pointers)
        /\ Len(x) = IF 1 <= a THEN a - 1 + 1 ELSE 0
        /\ \A i \in 1..a - 1 + 1 : x[i] = q[1 + i - 1]
    BY <2>1, SubSeqProperties
  <2> HIDE DEF x
  <2>3. Len(x) = a
    BY <2>2
  <2>4. \A i \in 1..a : x[i] = q[i]
    BY <2>2
  <2> QED
    BY <2>2, <2>3, <2>4
<1>3. /\ y \in Seq(Pointers) /\ Len(y) = Len(q) - b
      /\ \A i \in 1..Len(q) - b : y[i] = q[i + b]
  <2> DEFINE m == b + 1
             n == Len(q)
  <2>1. m \in Int /\ n \in Int /\ \A i \in m..n : q[i] \in Pointers
    BY <1>1
  <2> HIDE DEF m, n
  <2>2. /\ SubSeq(q, m, n) \in Seq(Pointers)
        /\ Len(SubSeq(q, m, n)) = IF m <= n THEN n - m + 1 ELSE 0
        /\ \A i \in 1..n - m + 1 : SubSeq(q, m, n)[i] = q[m + i - 1]
    BY <2>1, SubSeqProperties
  <2>3. y \in Seq(Pointers) /\ y = SubSeq(q, m, n)
    BY <2>2 DEF m, n
  <2> HIDE DEF y
  <2>4. Len(y) = Len(q) - b
    BY <1>1, <2>2, <2>3 DEF m, n
  <2>5. ASSUME NEW i \in 1..Len(q) - b PROVE y[i] = q[i + b]
    <3>1. i \in 1..n - m + 1 /\ m + i - 1 = i + b
      BY <1>1 DEF m, n
    <3> QED
      BY <2>2, <2>3, <3>1
  <2> QED
    BY <2>3, <2>4, <2>5
<1> HIDE DEF x, y
<1>4. Without(q, a, b) = x \o y
  BY DEF Without, x, y
<1>5. /\ x \o y \in Seq(Pointers) /\ Len(x \o y) = Len(x) + Len(y)
      /\ \A i \in 1..Len(x) + Len(y) :
            (x \o y)[i] = IF i <= Len(x) THEN x[i] ELSE y[i - Len(x)]
  BY <1>2, <1>3, ConcatProperties
<1> DEFINE z == x \o y
           l == Len(q) - (b - a)
<1>6. l \in Nat /\ Len(x) + Len(y) = l /\ z \in Seq(Pointers) /\ Len(z) = l
  BY <1>1, <1>2, <1>3, <1>5
<1>7. DOMAIN z = 1..l
  BY <1>6
<1>8. ASSUME NEW i \in 1..l PROVE z[i] = IF i <= a THEN q[i] ELSE q[i + (b - a)]
  <2>1. CASE i <= a
    BY <1>2, <1>5, <1>6, <2>1
  <2>2. CASE ~(i <= a)
    <3>1. i - a \in 1..Len(q) - b /\ (i - a) + b = i + (b - a)
      BY <1>1, <2>2
    <3>2. z[i] = y[i - a]
      BY <1>2, <1>5, <1>6, <2>2
    <3> QED
      BY <1>3, <2>2, <3>1, <3>2
  <2> QED
    BY <2>1, <2>2
<1> QED
  BY <1>4, <1>6, <1>7, <1>8

\* The same in a word: r is q without what is between a and b.
LeavesOut(r, q, a, b) ==
  /\ r \in Seq(Pointers) /\ Len(r) = Len(q) - (b - a)
  /\ DOMAIN r = 1..Len(q) - (b - a)
  /\ \A i \in 1..Len(q) - (b - a) : r[i] = IF i <= a THEN q[i] ELSE q[i + (b - a)]

LEMMA WithoutLeaves ==
  ASSUME NEW q \in Seq(Pointers), NEW a \in Nat, NEW b \in Nat, a <= b, b <= Len(q)
  PROVE  LeavesOut(Without(q, a, b), q, a, b)
<1> DEFINE r == Without(q, a, b)
<1>1. /\ r \in Seq(Pointers) /\ Len(r) = Len(q) - (b - a)
      /\ DOMAIN r = 1..Len(q) - (b - a)
      /\ \A i \in 1..Len(q) - (b - a) : r[i] = IF i <= a THEN q[i] ELSE q[i + (b - a)]
  BY WithoutSeq
<1> HIDE DEF r
<1>2. LeavesOut(r, q, a, b)
  BY <1>1 DEF LeavesOut
<1> QED
  BY <1>2 DEF r

LEMMA WithoutOwned ==
  ASSUME NEW q \in Seq(Pointers), NEW a \in Nat, NEW b \in Nat, a <= b, b <= Len(q),
         NEW S, NEW f, OwnedBy(f, q, S)
  PROVE  \E g : OwnedBy(g, Without(q, a, b), S)
<1> DEFINE r == Without(q, a, b)
           l == Len(q) - (b - a)
           at(i) == IF i <= a THEN i ELSE i + (b - a)
           g == [i \in 1..l |-> f[at(i)]]
<1>1. /\ DOMAIN r = 1..l
      /\ \A i \in 1..l : r[i] = q[at(i)]
  <2>0. LeavesOut(r, q, a, b)
    BY WithoutLeaves, Zenon
  <2> HIDE DEF r
  <2>1. /\ DOMAIN r = 1..l
        /\ \A i \in 1..l : r[i] = IF i <= a THEN q[i] ELSE q[i + (b - a)]
    BY <2>0 DEF LeavesOut
  <2> HIDE DEF l
  <2>2. \A i : q[at(i)] = IF i <= a THEN q[i] ELSE q[i + (b - a)]
    OBVIOUS
  <2> QED
    BY <2>1, <2>2
<1>2. Len(q) \in Nat /\ DOMAIN q = 1..Len(q)
  OBVIOUS
<1>3. /\ \A i \in 1..l : at(i) \in 1..Len(q)
      /\ \A i, j \in 1..l : at(i) = at(j) => i = j
  BY <1>2
<1> HIDE DEF r, l, at
<1>4. /\ f \in [1..Len(q) -> S]
      /\ \A i, j \in 1..Len(q) : f[i] = f[j] => i = j
      /\ \A i \in 1..Len(q) : q[i] \in {f[i], NoClient}
  BY <1>2 DEF OwnedBy
<1>5. g \in [1..l -> S] /\ \A i \in 1..l : g[i] = f[at(i)]
  BY <1>3, <1>4
<1> HIDE DEF g
<1>6. \A i, j \in 1..l : g[i] = g[j] => i = j
  BY <1>3, <1>4, <1>5
<1>7. \A i \in 1..l : r[i] \in {g[i], NoClient}
  BY <1>1, <1>3, <1>4, <1>5
<1>8. OwnedBy(g, r, S)
  BY <1>1, <1>5, <1>6, <1>7 DEF OwnedBy
<1> QED
  BY <1>8 DEF r

-----------------------------------------------------------------------------
(* What a loop under way knows survives the steps of the others.            *)

CallFacts(call) ==
    /\ call.next \in Nat \ {0} /\ call.end \in Nat /\ call.result \in Nat \ {0}
    /\ call.was \in Seq(Pointers) /\ call.dead \subseteq Clients
    /\ call.sentTo \in Seq(Clients) /\ call.next - 1 \in Int

LEMMA CallTyped == \A call \in Call : CallFacts(call)
BY DEF Call, CallFacts

\* A call goes on: what its steps set, and what else they leave.
SameCall(call, next) ==
    /\ next.name = call.name /\ next.ignore = call.ignore
    /\ next.was = call.was /\ next.dead = call.dead /\ next.sentTo = call.sentTo

LEMMA NextSet ==
  ASSUME NEW call \in Call, NEW n \in Nat \ {0}
  PROVE  LET next == [call EXCEPT !.next = n]
         IN  /\ next \in Call /\ SameCall(call, next) /\ next.next = n
             /\ next.at = call.at /\ next.end = call.end /\ next.result = call.result
BY DEF Call, SameCall

LEMMA AtSet ==
  ASSUME NEW call \in Call, NEW at \in {"loop", "hook", "remove"}
  PROVE  LET next == [call EXCEPT !.at = at]
         IN  /\ next \in Call /\ SameCall(call, next) /\ next.at = at
             /\ next.next = call.next /\ next.end = call.end /\ next.result = call.result
BY DEF Call, SameCall

LEMMA ResultSet ==
  ASSUME NEW call \in Call, NEW n \in Nat \ {0}
  PROVE  LET next == [call EXCEPT !.result = n]
         IN  /\ next \in Call /\ SameCall(call, next) /\ next.result = n
             /\ next.at = call.at /\ next.next = call.next /\ next.end = call.end
BY DEF Call, SameCall

LEMMA EndSet ==
  ASSUME NEW call \in Call, NEW n \in Nat
  PROVE  LET next == [call EXCEPT !.end = n]
         IN  /\ next \in Call /\ SameCall(call, next) /\ next.end = n
             /\ next.at = call.at /\ next.next = call.next /\ next.result = call.result
BY DEF Call, SameCall

LEMMA RemoveBegun ==
  ASSUME NEW call \in Call, NEW n \in Nat
  PROVE  LET next == [call EXCEPT !.at = "remove", !.next = 1, !.result = 1, !.end = n]
         IN  /\ next \in Call /\ SameCall(call, next) /\ next.at = "remove"
             /\ next.next = 1 /\ next.result = 1 /\ next.end = n
<1> DEFINE x == [call EXCEPT !.at = "remove"]
           y == [x EXCEPT !.next = 1]
           z == [y EXCEPT !.result = 1]
           w == [z EXCEPT !.end = n]
<1>1. x \in Call /\ SameCall(call, x) /\ x.at = "remove"
  BY AtSet
<1> HIDE DEF x
<1>2. y \in Call /\ SameCall(x, y) /\ y.at = x.at /\ y.next = 1
  BY <1>1, NextSet
<1> HIDE DEF y
<1>3. z \in Call /\ SameCall(y, z) /\ z.at = y.at /\ z.next = y.next /\ z.result = 1
  BY <1>2, ResultSet
<1> HIDE DEF z
<1>4. w \in Call /\ SameCall(z, w) /\ w.at = z.at /\ w.next = z.next /\ w.result = z.result /\ w.end = n
  BY <1>3, EndSet
<1>5. w = [call EXCEPT !.at = "remove", !.next = 1, !.result = 1, !.end = n]
  BY DEF x, y, z
<1> HIDE DEF w
<1>6. SameCall(call, w)
  BY <1>1, <1>2, <1>3, <1>4 DEF SameCall
<1> QED
  BY <1>1, <1>2, <1>3, <1>4, <1>5, <1>6

\* A connection closes, is reported, or is opened that was not in the loop.
LEMMA OthersKept ==
  ASSUME NEW call \in Call, NEW q \in Seq(Pointers), NEW A \in SUBSET Clients,
         NEW rep, NEW rep2, NEW sock, NEW sock2,
         LoopOK(call, q, rep, sock), rep \subseteq A, rep \subseteq rep2,
         \A i \in 1..Len(q) : q[i] \in A \cup {NoClient},
         \A c \in A : sock2[c] = "open" => sock[c] = "open",
         \A c \in Clients : sock[c] = "closed" => sock2[c] = "closed"
  PROVE  LoopOK(call, q, rep2, sock2)
<1>1. CallFacts(call)
  BY CallTyped
<1>2. InRange(call, q)
  BY DEF LoopOK
<1>3. WasThere(call, q, rep2) /\ Reported(call, q, rep2)
  BY DEF LoopOK, WasThere, Reported
<1>4. Sent(call, sock2)
  <2> SUFFICES ASSUME NEW i \in 1..call.end,
                      call.was[i] \in Clients, sock2[call.was[i]] = "open"
               PROVE  IF i < call.next /\ call.was[i] # call.ignore
                      THEN \E k : SentTo(call, call.was[i]) = {k}
                      ELSE SentTo(call, call.was[i]) = {}
    BY DEF Sent
  <2>1. call.was[i] \in A
    <3>1. i \in 1..Len(q)
      BY <1>1, <1>2 DEF InRange, CallFacts
    <3>2. q[i] = call.was[i] \/ call.was[i] \in rep
      BY DEF LoopOK, WasThere
    <3> QED
      BY <3>1, <3>2, ServerAssumption
  <2>2. sock[call.was[i]] = "open"
    BY <2>1
  <2> QED
    BY <2>2 DEF LoopOK, Sent
<1>5. Swept(call, q, sock2)
  BY <1>1 DEF LoopOK, Swept, CallFacts
<1> QED
  BY <1>2, <1>3, <1>4, <1>5 DEF LoopOK

\* The accept handler adds an open connection at the end.
LEMMA AddedAtEnd ==
  ASSUME NEW call \in Call, NEW q \in Seq(Pointers), NEW p \in Clients,
         NEW rep, NEW sock, LoopOK(call, q, rep, sock), sock[p] = "open"
  PROVE  LoopOK(call, Append(q, p), rep, sock)
<1>1. CallFacts(call) /\ Len(q) \in Nat
  BY CallTyped
<1>2. p \in Pointers
  BY DEF Pointers
<1>3. /\ Len(Append(q, p)) = Len(q) + 1
      /\ \A i \in 1..Len(q) : Append(q, p)[i] = q[i]
      /\ Append(q, p)[Len(q) + 1] = p
  BY <1>2, AppendProperties
<1> DEFINE r == Append(q, p)
<1> HIDE DEF r
<1>4. /\ Len(r) = Len(q) + 1
      /\ \A i \in 1..Len(q) : r[i] = q[i]
      /\ r[Len(q) + 1] = p
  BY <1>3 DEF r
<1>5. InRange(call, q) /\ call.end \in 0..Len(q) /\ call.next \in 1..call.end + 1
  BY <1>1 DEF LoopOK, InRange, CallFacts
<1>6. InRange(call, r)
  BY <1>1, <1>4, <1>5 DEF InRange
<1>7. \A i \in 1..call.end : i \in 1..Len(q) /\ r[i] = q[i]
  BY <1>1, <1>4, <1>5
<1>8. WasThere(call, r, rep)
  BY <1>7 DEF LoopOK, WasThere
<1>9. Reported(call, r, rep)
  <2> SUFFICES ASSUME call.at = "hook" PROVE r[call.next] \in rep \cup {NoClient}
    BY DEF Reported
  <2>1. call.next \in 1..call.end
    BY <1>1, <1>5 DEF InRange
  <2> QED
    BY <2>1, <1>7 DEF LoopOK, Reported
<1>10. Swept(call, r, sock)
  <2>1. p \notin call.dead
    BY DEF LoopOK, Swept
  <2>2. ASSUME NEW i \in 1..Len(r), i < call.next \/ i > call.end
        PROVE  r[i] \notin call.dead
    <3>1. i \in 1..Len(q) \/ i = Len(q) + 1
      BY <1>1, <1>4
    <3> QED
      BY <3>1, <2>1, <2>2, <1>4 DEF LoopOK, Swept
  <2> QED
    BY <2>2 DEF LoopOK, Swept
<1> QED
  BY <1>6, <1>8, <1>9, <1>10 DEF LoopOK, r

\* Another loop resets an element that was reported.
LEMMA OneReset ==
  ASSUME NEW call \in Call, NEW q \in Seq(Pointers), NEW n \in 1..Len(q),
         NEW rep, NEW sock, LoopOK(call, q, rep, sock),
         q[n] \in rep \cup {NoClient}
  PROVE  LoopOK(call, Nulled(q, n), rep, sock)
<1>1. CallFacts(call) /\ Len(q) \in Nat
  BY CallTyped
<1>2. NoClient \in Pointers /\ NoClient \notin call.dead
  BY <1>1, ServerAssumption DEF Pointers, CallFacts
<1> DEFINE r == Nulled(q, n)
<1>3. /\ Len(r) = Len(q)
      /\ \A i \in 1..Len(q) : r[i] = IF i = n THEN NoClient ELSE q[i]
  BY <1>2, NulledSeq
<1> HIDE DEF r
<1>4. InRange(call, r)
  BY <1>3 DEF LoopOK, InRange
<1>5. \A i \in 1..call.end : i \in 1..Len(q)
  BY <1>1 DEF LoopOK, InRange, CallFacts
<1>6. WasThere(call, r, rep)
  <2>1. ASSUME NEW i \in 1..call.end
        PROVE  r[i] = call.was[i] \/ (r[i] = NoClient /\ call.was[i] \in rep)
    <3>1. q[i] = call.was[i] \/ (q[i] = NoClient /\ call.was[i] \in rep)
      BY DEF LoopOK, WasThere
    <3> QED
      BY <3>1, <1>3, <1>5
  <2> QED
    BY <2>1 DEF LoopOK, WasThere
<1>7. Reported(call, r, rep)
  <2> SUFFICES ASSUME call.at = "hook" PROVE r[call.next] \in rep \cup {NoClient}
    BY DEF Reported
  <2>1. call.next \in 1..Len(q)
    BY <1>1 DEF LoopOK, InRange, CallFacts
  <2> QED
    BY <2>1, <1>3 DEF LoopOK, Reported
<1>8. Swept(call, r, sock)
  BY <1>2, <1>3 DEF LoopOK, Swept
<1> QED
  BY <1>4, <1>6, <1>7, <1>8 DEF LoopOK, r

-----------------------------------------------------------------------------
(* The loop's own steps.                                                    *)

\* The two calls are the same but for where they are.
SameLoop(call, next) ==
    /\ next.ignore = call.ignore /\ next.end = call.end
    /\ next.was = call.was /\ next.dead = call.dead

LEMMA Begun ==
  ASSUME NEW call \in Call, NEW q \in Seq(Pointers), NEW A, NEW f, OwnedBy(f, q, A),
         NEW rep, NEW sock,
         call.was = q, call.end = Len(q), call.next = 1, call.at = "loop",
         call.sentTo = <<>>, \A c \in call.dead : sock[c] = "closed"
  PROVE  LoopOK(call, q, rep, sock)
<1>1. Len(q) \in Nat /\ DOMAIN q = 1..Len(q)
  OBVIOUS
<1>2. InRange(call, q) /\ Reported(call, q, rep) /\ Swept(call, q, sock)
  BY <1>1 DEF InRange, Reported, Swept
<1>3. WasThere(call, q, rep)
  <2>1. ASSUME NEW i \in 1..Len(q), NEW j \in 1..Len(q), q[i] = q[j], q[i] # NoClient
        PROVE  i = j
    <3>1. f[i] = q[i] /\ f[j] = q[j]
      BY <1>1, <2>1 DEF OwnedBy
    <3> QED
      BY <3>1, <1>1, <2>1 DEF OwnedBy
  <2> QED
    BY <2>1 DEF WasThere
<1>4. Sent(call, sock)
  <2>1. \A c : SentTo(call, c) = {}
    BY DEF SentTo
  <2>2. \A i \in 1..call.end : ~(i < call.next)
    BY <1>1
  <2> QED
    BY <2>1, <2>2 DEF Sent
<1> QED
  BY <1>2, <1>3, <1>4 DEF LoopOK

\* The element was nobody to send to.
LEMMA Advanced ==
  ASSUME NEW call \in Call, NEW next \in Call, NEW q \in Seq(Pointers),
         NEW rep, NEW sock, LoopOK(call, q, rep, sock), SameLoop(call, next),
         call.next <= call.end, next.next = call.next + 1, next.at = "loop",
         next.sentTo = call.sentTo, q[call.next] \notin call.dead,
         call.was[call.next] \in Clients =>
            \/ sock[call.was[call.next]] # "open"
            \/ call.was[call.next] = call.ignore
  PROVE  LoopOK(next, q, rep, sock)
<1>1. CallFacts(call) /\ Len(q) \in Nat
  BY CallTyped
<1>2. InRange(next, q) /\ Reported(next, q, rep) /\ WasThere(next, q, rep)
  BY <1>1 DEF LoopOK, InRange, Reported, WasThere, SameLoop, CallFacts
<1>3. Swept(next, q, sock)
  <2>1. ASSUME NEW i \in 1..Len(q), i < next.next \/ i > next.end
        PROVE  q[i] \notin next.dead
    <3>1. i < call.next \/ i = call.next \/ i > call.end
      BY <1>1, <2>1 DEF SameLoop, CallFacts
    <3> QED
      BY <3>1 DEF LoopOK, Swept, SameLoop
  <2> QED
    BY <2>1 DEF LoopOK, Swept, SameLoop
<1>4. Sent(next, sock)
  <2> SUFFICES ASSUME NEW i \in 1..call.end,
                      call.was[i] \in Clients, sock[call.was[i]] = "open"
               PROVE  IF i < next.next /\ call.was[i] # call.ignore
                      THEN \E k : SentTo(next, call.was[i]) = {k}
                      ELSE SentTo(next, call.was[i]) = {}
    BY DEF Sent, SameLoop
  <2>1. SentTo(next, call.was[i]) = SentTo(call, call.was[i])
    BY DEF SentTo
  <2>2. IF i < call.next /\ call.was[i] # call.ignore
        THEN \E k : SentTo(call, call.was[i]) = {k}
        ELSE SentTo(call, call.was[i]) = {}
    BY DEF LoopOK, Sent
  <2>3. i < next.next <=> i < call.next \/ i = call.next
    BY <1>1 DEF CallFacts
  <2>4. i = call.next => call.was[i] = call.ignore
    OBVIOUS
  <2> QED
    BY <2>1, <2>2, <2>3, <2>4
<1> QED
  BY <1>2, <1>3, <1>4 DEF LoopOK

\* The element is a live client, which is sent the message.
LEMMA Messaged ==
  ASSUME NEW call \in Call, NEW next \in Call, NEW q \in Seq(Pointers), NEW c \in Clients,
         NEW rep, NEW sock, LoopOK(call, q, rep, sock), SameLoop(call, next),
         call.next <= call.end, next.next = call.next + 1, next.at = "loop",
         q[call.next] = c, sock[c] = "open", c # call.ignore,
         next.sentTo = Append(call.sentTo, c)
  PROVE  LoopOK(next, q, rep, sock)
<1>1. CallFacts(call) /\ Len(q) \in Nat
  BY CallTyped
<1>2. InRange(next, q) /\ Reported(next, q, rep) /\ WasThere(next, q, rep)
  BY <1>1 DEF LoopOK, InRange, Reported, WasThere, SameLoop, CallFacts
<1>3. call.next \in 1..call.end /\ call.was[call.next] = c
  <2>1. call.next \in 1..call.end
    BY <1>1 DEF LoopOK, InRange, CallFacts
  <2> QED
    BY <2>1, ServerAssumption DEF LoopOK, WasThere
<1>4. Swept(next, q, sock)
  <2>1. c \notin call.dead
    BY DEF LoopOK, Swept
  <2>2. ASSUME NEW i \in 1..Len(q), i < next.next \/ i > next.end
        PROVE  q[i] \notin next.dead
    <3>1. i < call.next \/ i = call.next \/ i > call.end
      BY <1>1, <2>2 DEF SameLoop, CallFacts
    <3> QED
      BY <2>1, <3>1 DEF LoopOK, Swept, SameLoop
  <2> QED
    BY <2>2 DEF LoopOK, Swept, SameLoop
<1>5. \A d \in Clients : SentTo(next, d) =
         IF d = c THEN SentTo(call, d) \cup {Len(call.sentTo) + 1} ELSE SentTo(call, d)
  <2> DEFINE s == call.sentTo
             r == next.sentTo
  <2>1. s \in Seq(Clients) /\ r = Append(s, c)
    BY <1>1 DEF CallFacts
  <2> HIDE DEF s, r
  <2>2. /\ Len(s) \in Nat /\ DOMAIN s = 1..Len(s)
        /\ DOMAIN r = 1..Len(s) + 1
        /\ \A i \in 1..Len(s) : r[i] = s[i]
        /\ r[Len(s) + 1] = c
    BY <2>1
  <2>3. \A d : {i \in DOMAIN r : r[i] = d} =
                 IF d = c THEN {i \in DOMAIN s : s[i] = d} \cup {Len(s) + 1}
                 ELSE {i \in DOMAIN s : s[i] = d}
    BY <2>2
  <2> QED
    BY <2>3 DEF SentTo, s, r
<1>6. Sent(next, sock)
  <2> SUFFICES ASSUME NEW i \in 1..call.end,
                      call.was[i] \in Clients, sock[call.was[i]] = "open"
               PROVE  IF i < next.next /\ call.was[i] # call.ignore
                      THEN \E k : SentTo(next, call.was[i]) = {k}
                      ELSE SentTo(next, call.was[i]) = {}
    BY DEF Sent, SameLoop
  <2>1. IF i < call.next /\ call.was[i] # call.ignore
        THEN \E k : SentTo(call, call.was[i]) = {k}
        ELSE SentTo(call, call.was[i]) = {}
    BY DEF LoopOK, Sent
  <2>2. i < next.next <=> i < call.next \/ i = call.next
    BY <1>1 DEF CallFacts
  <2>3. CASE i = call.next
    <3>1. SentTo(call, c) = {}
      BY <2>1, <2>3, <1>1, <1>3 DEF CallFacts
    <3>2. SentTo(next, c) = {Len(call.sentTo) + 1}
      BY <3>1, <1>5
    <3> QED
      BY <3>2, <2>2, <2>3, <1>3
  <2>4. CASE i # call.next
    <3>1. call.was[i] # c
      BY <2>4, <1>3, ServerAssumption DEF LoopOK, WasThere
    <3> QED
      BY <3>1, <1>5, <2>1, <2>2, <2>4
  <2> QED
    BY <2>3, <2>4
<1> QED
  BY <1>2, <1>4, <1>6 DEF LoopOK

\* The element is a dead client, for which OnClientDisconnected is called.
LEMMA HookCalled ==
  ASSUME NEW call \in Call, NEW next \in Call, NEW q,
         NEW rep, NEW sock, LoopOK(call, q, rep, sock), SameLoop(call, next),
         call.next <= call.end, next.next = call.next, next.sentTo = call.sentTo,
         q[call.next] \in rep
  PROVE  LoopOK(next, q, rep, sock)
<1>1. \A c : SentTo(next, c) = SentTo(call, c)
  BY DEF SentTo
<1>2. Sent(next, sock)
  BY <1>1 DEF LoopOK, Sent, SameLoop
<1>3. InRange(next, q) /\ WasThere(next, q, rep) /\ Swept(next, q, sock)
  BY DEF LoopOK, InRange, WasThere, Swept, SameLoop
<1>4. Reported(next, q, rep)
  BY DEF Reported
<1> QED
  BY <1>2, <1>3, <1>4 DEF LoopOK

-----------------------------------------------------------------------------
(* The initial state.                                                       *)

LEMMA ServerInit == Init => ServerInv
<1> SUFFICES ASSUME Init PROVE ServerInv
    OBVIOUS
<1> USE ServerAssumption
<1>1. TypeOK
  <2>1. Cardinality(Clients) \in Nat
    BY FS_CardinalityType
  <2>2. 0 <= Cardinality(Clients) /\ m_deqConns \in Seq(Pointers) /\ Len(m_deqConns) = 0
    BY <2>1 DEF Init
  <2>3. accept \in [at : {"idle", "request", "pushed", "named", "hook"}, conn : Pointers]
    BY DEF Init, Idle, Pointers
  <2>4. id \in [Clients -> 0..(IdRange - 1) \cup {NoId}]
    BY DEF Init
  <2>5. calls \in [Threads -> Seq(Call)] /\ nCalls \in 0..MaxCalls
    BY DEF Init
  <2> QED
    BY <2>2, <2>3, <2>4, <2>5 DEF Init, TypeOK
<1>2. AcceptBase /\ AcceptInv
  BY DEF Init, AcceptBase, AcceptInv, Idle
<1>3. Owned
  <2>1. OwnedBy(<<>>, m_deqConns, approved)
    BY DEF Init, OwnedBy
  <2> QED
    BY <2>1 DEF Owned
<1>4. \A t \in Threads : calls[t] = <<>> /\ ~InCall(t)
  BY DEF Init, InCall
<1>5. Nested /\ LoopsOK /\ RemovesOK
  BY <1>4 DEF Init, Nested, LoopsOK, RemovesOK, At, Idle
<1>6. Listed /\ BackOK
  BY DEF Init, Idle, Listed, BackOK
<1> QED
  BY <1>1, <1>2, <1>3, <1>5, <1>6 DEF ServerInv, BaseInv, QuietInv

-----------------------------------------------------------------------------
(* What follows from the invariant at once.                                 *)

LEMMA BaseFacts ==
  ASSUME BaseInv
  PROVE  /\ TypeOK /\ approved \in SUBSET Clients /\ NoClient \notin approved
         /\ reported \subseteq approved /\ connected \subseteq approved
         /\ accept.at # "idle" => accept.conn \in Clients
         /\ m_deqConns \in Seq(Pointers) /\ Len(m_deqConns) \in Nat
         /\ DOMAIN m_deqConns = 1..Len(m_deqConns)
         /\ \A i \in 1..Len(m_deqConns) : m_deqConns[i] \in approved \cup {NoClient}
<1>1. TypeOK /\ approved \in SUBSET Clients
  BY DEF BaseInv, TypeOK
<1>2. m_deqConns \in Seq(Pointers)
  BY <1>1 DEF TypeOK
<1>3. Len(m_deqConns) \in Nat /\ DOMAIN m_deqConns = 1..Len(m_deqConns)
  BY <1>2
<1>4. \A i \in 1..Len(m_deqConns) : m_deqConns[i] \in approved \cup {NoClient}
  BY <1>3 DEF BaseInv, Owned, OwnedBy
<1>5. accept.at # "idle" => accept.conn \in Clients
  BY <1>1 DEF BaseInv, AcceptBase, TypeOK, Pointers
<1> QED
  BY <1>1, <1>2, <1>3, <1>4, <1>5, ServerAssumption DEF BaseInv, AcceptBase

LEMMA Risked ==
  ASSUME NEW undefined \in BOOLEAN, Risk(undefined)
  PROVE  lost' \in BOOLEAN
BY DEF Risk

LEMMA QuietFacts ==
  ASSUME BaseInv, QuietInv
  PROVE  /\ \A c \in reported : c \in connected /\ socket[c] = "closed"
         /\ accept.at # "idle" => accept.conn \notin reported /\ accept.conn # NoClient
BY DEF QuietInv, AcceptInv, BaseInv, AcceptBase

\* back() is a connection that was approved, and in quiet times, when the
\* context thread is in no call, that of the accept handler.
LEMMA BackFacts ==
  ASSUME BaseInv
  PROVE  /\ Back \in approved \cup {NoClient}
         /\ QuietInv /\ accept.at \in {"pushed", "named", "hook"} /\ ~InCall(Context)
               => Back = accept.conn /\ m_deqConns # <<>>
<1>1. Back \in approved \cup {NoClient}
  <2>1. CASE m_deqConns = <<>>
    BY <2>1 DEF Back
  <2>2. CASE m_deqConns # <<>>
    <3>1. Len(m_deqConns) \in 1..Len(m_deqConns)
      BY <2>2, BaseFacts
    <3> QED
      BY <2>2, <3>1, BaseFacts DEF Back, Last
  <2> QED
    BY <2>1, <2>2
<1>2. ASSUME QuietInv, accept.at \in {"pushed", "named", "hook"}, ~InCall(Context)
      PROVE  Back = accept.conn /\ m_deqConns # <<>>
  BY <1>2 DEF QuietInv, BackOK, Moved, At, Back1, Back, Last
<1> QED
  BY <1>1, <1>2

-----------------------------------------------------------------------------
(* Steps that leave m_deqConns and the calls under way alone.               *)

\* What the steps of the context thread and of the network that leave the
\* roster alone do to the rest.
HandlerStep ==
    \/ \E c \in Clients :
          \/ Knock(c) \/ Accept(c) \/ AcceptThrows(c) \/ AcceptFails(c)
          \/ ConnectionLost(c) \/ AbortedHandlers(c) \/ Disconnect(c) \/ RunClose(c)
    \/ Deny \/ ConnectToClient \/ OnClientConnected \/ WaitForClientConnection

HandlerEffect ==
    /\ UNCHANGED <<rosterVars, approved, overlapped>>
    /\ TypeOK' /\ AcceptBase'
    /\ QuietInv => AcceptInv'
    /\ accept'.at \in {"pushed", "named"} => accept.at \in {"pushed", "named"}
    /\ accept'.at \in {"pushed", "named", "hook"} =>
          accept.at \in {"pushed", "named", "hook"} /\ accept'.conn = accept.conn
    /\ \A c \in approved : socket'[c] = "open" => socket[c] = "open"
    /\ \A c \in Clients : socket[c] = "closed" => socket'[c] = "closed"

LEMMA RosterUntouched ==
  ASSUME ServerInv, HandlerEffect
  PROVE  ServerInv'
<1>1. UNCHANGED <<m_deqConns, calls, reported, approved, overlapped>>
  BY DEF rosterVars, HandlerEffect
<1>2. BaseInv
  BY DEF ServerInv
<1>3. Owned'
  BY <1>1, <1>2 DEF BaseInv, Owned
<1>4. Nested'
  BY <1>1, <1>2 DEF BaseInv, Nested, InCall, HandlerEffect
<1>5. BaseInv'
  BY <1>3, <1>4 DEF BaseInv, HandlerEffect
<1>6. ASSUME QuietInv PROVE QuietInv'
  <2>1. Listed' /\ RemovesOK'
    BY <1>1, <1>6 DEF QuietInv, Listed, RemovesOK, At, InCall, Top
  <2>2. BackOK'
    <3>1. Moved' = Moved /\ Top(Context)' = Top(Context)
      BY <1>1 DEF Moved, At, InCall, Top
    <3> QED
      BY <1>1, <1>6, <3>1 DEF QuietInv, BackOK, Back1, HandlerEffect
  <2>3. LoopsOK'
    <3> SUFFICES ASSUME NEW t \in Threads, NEW i \in 1..Len(calls[t]),
                        InLoop(calls[t][i])
                 PROVE  LoopOK(calls[t][i], m_deqConns, reported, socket')
      BY <1>1 DEF LoopsOK
    <3>1. LoopOK(calls[t][i], m_deqConns, reported, socket)
      BY <1>6 DEF QuietInv, LoopsOK
    <3>2. calls[t][i] \in Call
      BY <1>2 DEF BaseInv, TypeOK
    <3> QED
      BY <1>2, <3>1, <3>2, BaseFacts, OthersKept DEF HandlerEffect
  <2> QED
    BY <1>6, <2>1, <2>2, <2>3 DEF QuietInv, HandlerEffect
<1> QED
  BY <1>1, <1>5, <1>6 DEF ServerInv

LEMMA ClientSteps ==
  ASSUME ServerInv, NEW c \in Clients,
         \/ Knock(c) \/ Accept(c) \/ AcceptThrows(c) \/ AcceptFails(c)
         \/ ConnectionLost(c) \/ AbortedHandlers(c) \/ Disconnect(c) \/ RunClose(c)
  PROVE  HandlerEffect
<1> USE ServerAssumption
<1>1. /\ TypeOK /\ AcceptBase /\ approved \subseteq Clients
      /\ QuietInv => AcceptInv
      /\ accept.at # "idle" => accept.conn \in Clients
  BY BaseFacts DEF ServerInv, BaseInv, QuietInv
<1>2. CASE Knock(c) \/ AcceptFails(c)
  <2>1. \/ socket[c] = "none" /\ socket' = [socket EXCEPT ![c] = "knocking"]
        \/ socket[c] = "knocking" /\ socket' = [socket EXCEPT ![c] = "closed"]
    BY <1>2 DEF Knock, AcceptFails
  <2>2. /\ UNCHANGED <<closing, aborted>>
        /\ UNCHANGED <<acceptVars, rosterVars, overlapped, lost>>
    BY <1>2 DEF Knock, AcceptFails, endVars
  <2>3. socket' \in [Clients -> {"none", "knocking", "open", "closed"}]
    BY <1>1, <2>1 DEF TypeOK
  <2>4. TypeOK'
    BY <1>1, <2>2, <2>3 DEF TypeOK, acceptVars, rosterVars
  <2>5. AcceptBase'
    BY <1>1, <2>1, <2>2 DEF TypeOK, AcceptBase, acceptVars, rosterVars
  <2>6. QuietInv => AcceptInv'
    BY <1>1, <2>1, <2>2 DEF TypeOK, AcceptInv, acceptVars, rosterVars
  <2> QED
    BY <1>1, <2>1, <2>2, <2>4, <2>5, <2>6
    DEF TypeOK, AcceptBase, acceptVars, HandlerEffect
<1>3. CASE Accept(c)
  <2>1. TypeOK'
    BY <1>1, <1>3 DEF Accept, TypeOK, rosterVars, endVars, Pointers
  <2>2. AcceptBase'
    BY <1>1, <1>3 DEF Accept, TypeOK, AcceptBase, rosterVars, HandlerFree
  <2>3. QuietInv => AcceptInv'
    BY <1>1, <1>3 DEF Accept, TypeOK, AcceptBase, AcceptInv, rosterVars, HandlerFree
  <2> QED
    BY <1>1, <1>3, <2>1, <2>2, <2>3
    DEF Accept, TypeOK, AcceptBase, endVars, HandlerEffect
<1>4. CASE AcceptThrows(c)
  <2>1. UNCHANGED <<connVars, acceptVars, rosterVars, overlapped>> /\ lost' = TRUE
    BY <1>4 DEF AcceptThrows
  <2>2. TypeOK'
    BY <1>1, <2>1 DEF TypeOK, connVars, acceptVars, rosterVars
  <2> QED
    BY <1>1, <2>1, <2>2
    DEF AcceptBase, AcceptInv, connVars, acceptVars, rosterVars, HandlerEffect
<1>5. CASE ConnectionLost(c) \/ RunClose(c) \/ AbortedHandlers(c)
  <2>1. /\ socket' = socket \/ (socket' = [socket EXCEPT ![c] = "closed"] /\ socket[c] = "open")
        /\ aborted' \subseteq Clients /\ closing' \subseteq Clients
        /\ accept.at = "idle"
        /\ UNCHANGED <<acceptVars, rosterVars, overlapped, lost>>
    BY <1>1, <1>5
    DEF ConnectionLost, RunClose, AbortedHandlers, CloseSocket, TypeOK, HandlerFree, Served,
        endVars
  <2>2. TypeOK'
    BY <1>1, <2>1 DEF TypeOK, acceptVars, rosterVars
  <2>3. AcceptBase'
    BY <1>1, <2>1 DEF TypeOK, AcceptBase, acceptVars, rosterVars
  <2>4. QuietInv => AcceptInv'
    BY <1>1, <2>1 DEF TypeOK, AcceptInv, acceptVars, rosterVars
  <2> QED
    BY <1>1, <2>1, <2>2, <2>3, <2>4 DEF TypeOK, acceptVars, HandlerEffect
<1>6. CASE Disconnect(c)
  <2>1. /\ closing' \subseteq Clients
        /\ UNCHANGED <<socket, aborted, acceptVars, rosterVars, overlapped, lost>>
    BY <1>1, <1>6 DEF Disconnect, TypeOK, endVars
  <2>2. TypeOK'
    BY <1>1, <2>1 DEF TypeOK, acceptVars, rosterVars
  <2> QED
    BY <1>1, <2>1, <2>2
    DEF AcceptBase, AcceptInv, acceptVars, rosterVars, HandlerEffect
<1> QED
  BY <1>2, <1>3, <1>4, <1>5, <1>6

LEMMA AcceptSteps ==
  ASSUME ServerInv,
         Deny \/ ConnectToClient \/ OnClientConnected \/ WaitForClientConnection
  PROVE  HandlerEffect
<1> USE ServerAssumption
<1>1. /\ TypeOK /\ AcceptBase /\ approved \subseteq Clients /\ NoClient \notin approved
      /\ QuietInv => AcceptInv
      /\ accept.at # "idle" => accept.conn \in Clients
  BY BaseFacts DEF ServerInv, BaseInv, QuietInv
<1>2. Back \in approved \cup {NoClient}
  BY BackFacts DEF ServerInv
<1>3. CASE Deny
  <2>0. lost' \in BOOLEAN
    <3> DEFINE undefined == accept.conn \in closing
    <3>1. Risk(undefined) /\ undefined \in BOOLEAN
      BY <1>3 DEF Deny
    <3> HIDE DEF undefined
    <3> QED
      BY <3>1, Risked
  <2>1. /\ socket' = [socket EXCEPT ![accept.conn] = "closed"]
        /\ accept' = Idle /\ armed' = TRUE /\ lost' \in BOOLEAN
        /\ accept.at = "request"
        /\ UNCHANGED <<closing, aborted, approved, m_idCounter, id, connected, rosterVars,
                       overlapped>>
    BY <1>3, <2>0 DEF Deny
  <2>2. TypeOK'
    BY <1>1, <2>1 DEF TypeOK, rosterVars, Idle, Pointers
  <2>3. AcceptBase'
    BY <1>1, <2>1 DEF TypeOK, AcceptBase, rosterVars, Idle
  <2>4. QuietInv => AcceptInv'
    BY <1>1, <2>1 DEF TypeOK, AcceptInv, rosterVars, Idle
  <2> QED
    BY <1>1, <2>1, <2>2, <2>3, <2>4 DEF TypeOK, HandlerEffect, Idle
<1>4. CASE ConnectToClient
  <2>1. /\ accept.at = "pushed"
        /\ UNCHANGED <<connVars, armed, approved, connected, rosterVars, overlapped>>
    BY <1>4 DEF ConnectToClient
  <2>2. CASE lost' = TRUE /\ UNCHANGED <<id, m_idCounter, accept>>
    <3>1. TypeOK'
      BY <1>1, <2>1, <2>2 DEF TypeOK, connVars, rosterVars
    <3> QED
      BY <1>1, <2>1, <2>2, <3>1
      DEF AcceptBase, AcceptInv, connVars, rosterVars, HandlerEffect
  <2>3. CASE /\ Back # NoClient /\ UNCHANGED lost
             /\ id' = [id EXCEPT ![Back] = IF socket[Back] = "open"
                                           THEN m_idCounter % IdRange ELSE @]
             /\ m_idCounter' = m_idCounter + 1
             /\ accept' = [accept EXCEPT !.at = "named"]
    <3>1. m_idCounter % IdRange \in 0..(IdRange - 1) /\ Back \in Clients
      BY <1>1, <1>2, <2>3 DEF TypeOK
    <3> DEFINE value == IF socket[Back] = "open" THEN m_idCounter % IdRange ELSE id[Back]
    <3>2. value \in 0..(IdRange - 1) \cup {NoId}
      BY <1>1, <3>1 DEF TypeOK
    <3>3. id' = [id EXCEPT ![Back] = value]
      BY <2>3
    <3> HIDE DEF value
    <3>4. id' \in [Clients -> 0..(IdRange - 1) \cup {NoId}]
      BY <1>1, <3>2, <3>3 DEF TypeOK
    <3>5. /\ accept' \in [at : {"idle", "request", "pushed", "named", "hook"}, conn : Pointers]
          /\ accept'.at = "named" /\ accept'.conn = accept.conn
      BY <1>1, <2>3 DEF TypeOK
    <3>6. m_idCounter' \in Nat
      BY <1>1, <2>3 DEF TypeOK
    <3>7. TypeOK'
      BY <1>1, <2>1, <2>3, <3>4, <3>5, <3>6 DEF TypeOK, connVars, rosterVars
    <3>8. AcceptBase'
      BY <1>1, <2>1, <3>5 DEF AcceptBase, connVars, rosterVars
    <3>9. QuietInv => AcceptInv'
      BY <1>1, <2>1, <3>5 DEF AcceptInv, connVars, rosterVars
    <3> QED
      BY <1>1, <2>1, <3>5, <3>7, <3>8, <3>9 DEF connVars, HandlerEffect
  <2> QED
    BY <1>4, <2>2, <2>3 DEF ConnectToClient
<1>5. CASE OnClientConnected
  <2>1. /\ accept.at = "named" /\ lost' \in BOOLEAN
        /\ accept' = [accept EXCEPT !.at = "hook"]
        /\ connected' = connected \cup ({Back} \ {NoClient})
        /\ UNCHANGED <<connVars, armed, approved, m_idCounter, id, rosterVars, overlapped>>
    BY <1>5 DEF OnClientConnected, Risk
  <2>2. /\ accept' \in [at : {"idle", "request", "pushed", "named", "hook"}, conn : Pointers]
        /\ accept'.at = "hook" /\ accept'.conn = accept.conn
    BY <1>1, <2>1 DEF TypeOK
  <2>3. connected' \subseteq connected \cup approved
    BY <1>2, <2>1
  <2>4. TypeOK'
    <3>1. connected' \subseteq Clients
      BY <1>1, <2>3 DEF TypeOK
    <3> QED
      BY <1>1, <2>1, <2>2, <3>1 DEF TypeOK, connVars, rosterVars
  <2>5. AcceptBase'
    BY <1>1, <2>1, <2>2, <2>3 DEF AcceptBase, connVars, rosterVars
  <2>6. QuietInv => AcceptInv'
    <3>1. ~InCall(Context)
      BY <2>1 DEF ServerInv, BaseInv, Nested
    <3>2. QuietInv => Back = accept.conn
      BY <2>1, <3>1, BackFacts DEF ServerInv
    <3> QED
      BY <1>1, <2>1, <2>2, <3>2 DEF AcceptInv, connVars, rosterVars
  <2> QED
    BY <1>1, <2>1, <2>2, <2>4, <2>5, <2>6 DEF connVars, HandlerEffect
<1>6. CASE WaitForClientConnection
  <2>1. /\ accept' = Idle /\ armed' = TRUE /\ accept.at = "hook" /\ lost' \in BOOLEAN
        /\ UNCHANGED <<connVars, approved, m_idCounter, id, connected, rosterVars, overlapped>>
    BY <1>6 DEF WaitForClientConnection, Risk
  <2>2. TypeOK'
    BY <1>1, <2>1 DEF TypeOK, connVars, rosterVars, Idle, Pointers
  <2> QED
    BY <1>1, <2>1, <2>2
    DEF AcceptBase, AcceptInv, connVars, rosterVars, HandlerEffect, Idle
<1> QED
  BY <1>3, <1>4, <1>5, <1>6

LEMMA HandlerStepInv ==
  ASSUME ServerInv, HandlerStep
  PROVE  ServerInv'
<1>1. HandlerEffect
  BY ClientSteps, AcceptSteps DEF HandlerStep
<1> QED
  BY <1>1, RosterUntouched

\* The accept handler's push_back.
LEMMA ApproveInv ==
  ASSUME ServerInv, Approve
  PROVE  ServerInv'
<1> USE ServerAssumption
<1>1. /\ BaseInv /\ TypeOK /\ AcceptBase /\ Nested
      /\ accept.conn \in Clients /\ accept.at = "request"
      /\ accept.conn \notin approved /\ socket[accept.conn] = "open"
      /\ approved \in SUBSET Clients /\ ~InCall(Context)
  BY BaseFacts DEF ServerInv, BaseInv, AcceptBase, Approve
<1>2. /\ m_deqConns' = Append(m_deqConns, accept.conn)
      /\ approved' = approved \cup {accept.conn}
      /\ accept' = [accept EXCEPT !.at = "pushed"]
      /\ UNCHANGED <<connVars, armed, m_idCounter, id, connected, calls, nCalls, reported>>
  BY DEF Approve
<1>3. accept'.conn = accept.conn /\ accept'.at = "pushed"
  BY <1>1, <1>2 DEF TypeOK
<1>4. UNCHANGED <<socket, closing, aborted>>
  BY <1>2 DEF connVars
<1>5. /\ m_deqConns \in Seq(Pointers) /\ m_deqConns' \in Seq(Pointers)
      /\ Len(m_deqConns) \in Nat /\ Len(m_deqConns') = Len(m_deqConns) + 1
      /\ \A i \in 1..Len(m_deqConns) : m_deqConns'[i] = m_deqConns[i]
      /\ m_deqConns'[Len(m_deqConns) + 1] = accept.conn
      /\ DOMAIN m_deqConns = 1..Len(m_deqConns)
      /\ DOMAIN m_deqConns' = 1..Len(m_deqConns) + 1
  <2>1. m_deqConns \in Seq(Pointers) /\ accept.conn \in Pointers
    BY <1>1 DEF TypeOK, Pointers
  <2> QED
    BY <1>2, <2>1, AppendProperties
<1>6. Owned'
  <2>1. PICK f : OwnedBy(f, m_deqConns, approved)
    BY DEF ServerInv, BaseInv, Owned
  <2> DEFINE n == Len(m_deqConns)
             g == [i \in 1..n + 1 |-> IF i = n + 1 THEN accept.conn ELSE f[i]]
  <2>2. n \in Nat /\ \A i \in 1..n : i \in 1..n + 1 /\ i # n + 1
    BY <1>5
  <2>3. \A i \in 1..n + 1 : i = n + 1 \/ i \in 1..n
    BY <2>2
  <2>4. \A i \in 1..n : f[i] \in approved /\ m_deqConns[i] \in {f[i], NoClient}
    BY <1>5, <2>1 DEF OwnedBy
  <2>5. g \in [1..n + 1 -> approved']
    BY <1>2, <2>3, <2>4
  <2>6. \A i, j \in 1..n + 1 : g[i] = g[j] => i = j
    BY <1>1, <2>1, <2>2, <2>3, <2>4, <1>5 DEF OwnedBy
  <2>7. \A i \in 1..n + 1 : m_deqConns'[i] \in {g[i], NoClient}
    BY <2>2, <2>3, <2>4, <1>5
  <2> HIDE DEF g
  <2>8. OwnedBy(g, m_deqConns', approved')
    BY <2>5, <2>6, <2>7, <1>5 DEF OwnedBy
  <2> QED
    BY <2>8 DEF Owned
<1>7. overlapped' \in BOOLEAN /\ lost' \in BOOLEAN
  <2>1. InUse(Context) \in BOOLEAN
    BY DEF InUse
  <2>2. lost' \in BOOLEAN
    BY <2>1, Risked DEF Approve
  <2> QED
    BY <1>1, <2>2 DEF Approve, TypeOK
<1>8. TypeOK'
  <2>1. approved' \in SUBSET Clients
    BY <1>1, <1>2
  <2>2. Len(m_deqConns') <= Cardinality(Clients)
    BY <1>5, <1>6, <2>1, NoLonger DEF Owned
  <2>3. accept' \in [at : {"idle", "request", "pushed", "named", "hook"}, conn : Pointers]
    BY <1>1, <1>2 DEF TypeOK
  <2> QED
    BY <1>1, <1>2, <1>4, <1>5, <1>7, <2>1, <2>2, <2>3 DEF TypeOK
<1>9. AcceptBase' /\ Nested'
  BY <1>1, <1>2, <1>3, <1>4 DEF AcceptBase, Nested, InCall
<1>10. ASSUME ~overlapped' PROVE QuietInv'
  <2>1. QuietInv /\ \A t \in Threads : ~At(t, "remove")
    BY <1>10 DEF Approve, ServerInv, At
  <2>2. \A t \in Threads : ~At(t, "remove")'
    BY <1>2, <2>1 DEF At, InCall, Top
  <2>3. RemovesOK'
    BY <2>2 DEF RemovesOK
  <2>4. BackOK'
    <3>1. Back1(m_deqConns)'
      BY <1>3, <1>5 DEF Back1
    <3>2. ~Moved'
      BY <2>2 DEF Moved, Threads
    <3> QED
      BY <3>1, <3>2 DEF BackOK
  <2>5. AcceptInv'
    BY <1>1, <1>2, <1>3, <1>4, <2>1 DEF QuietInv, AcceptInv, AcceptBase
  <2>6. Listed'
    <3> SUFFICES ASSUME NEW c \in approved'
                 PROVE  c \in reported \/ \E i \in 1..Len(m_deqConns') : m_deqConns'[i] = c
      BY <1>2 DEF Listed
    <3>1. CASE c = accept.conn
      <4>1. Len(m_deqConns) + 1 \in 1..Len(m_deqConns')
        BY <1>5
      <4> QED
        BY <1>5, <3>1, <4>1
    <3>2. CASE c \in approved
      <4>1. \A i \in 1..Len(m_deqConns) : i \in 1..Len(m_deqConns')
        BY <1>5
      <4> QED
        BY <1>5, <2>1, <3>2, <4>1 DEF QuietInv, Listed
    <3> QED
      BY <1>2, <3>1, <3>2
  <2>7. LoopsOK'
    <3> SUFFICES ASSUME NEW t \in Threads, NEW i \in 1..Len(calls[t]),
                        InLoop(calls[t][i])
                 PROVE  LoopOK(calls[t][i], m_deqConns', reported, socket)
      BY <1>2, <1>4 DEF LoopsOK
    <3>1. LoopOK(calls[t][i], m_deqConns, reported, socket)
      BY <2>1 DEF QuietInv, LoopsOK
    <3>2. calls[t][i] \in Call
      BY <1>1 DEF TypeOK
    <3> QED
      BY <1>1, <1>2, <1>5, <3>1, <3>2, AddedAtEnd
  <2> QED
    BY <2>3, <2>4, <2>5, <2>6, <2>7 DEF QuietInv
<1> QED
  BY <1>6, <1>8, <1>9, <1>10 DEF ServerInv, BaseInv

-----------------------------------------------------------------------------
(* The calls under way after a step of MessageClient or MessageAllClients.  *)

\* Those of the others are as they were; of t's, the first n are, and `call`
\* is the only one further in.
CallsAre(t, n, call) ==
    /\ calls' \in [Threads -> Seq(Call)]
    /\ \A u \in Threads : u # t => calls'[u] = calls[u]
    /\ n \in 0..Len(calls[t])
    /\ Len(calls'[t]) = n + 1 /\ calls'[t][n + 1] = call
    /\ \A i \in 1..n : calls'[t][i] = calls[t][i]

CallsLeft(t) ==
    /\ calls' \in [Threads -> Seq(Call)]
    /\ \A u \in Threads : u # t => calls'[u] = calls[u]
    /\ Len(calls'[t]) = Len(calls[t]) - 1
    /\ \A i \in 1..Len(calls[t]) - 1 : calls'[t][i] = calls[t][i]

LEMMA TopCall ==
  ASSUME TypeOK, NEW t \in Threads, InCall(t)
  PROVE  /\ calls[t] \in Seq(Call) /\ Len(calls[t]) \in Nat \ {0}
         /\ Len(calls[t]) \in 1..Len(calls[t])
         /\ Top(t) \in Call /\ Top(t) = calls[t][Len(calls[t])]
         /\ Front(calls[t]) \in Seq(Call)
         /\ Len(Front(calls[t])) = Len(calls[t]) - 1
         /\ \A i \in 1..Len(calls[t]) - 1 : Front(calls[t])[i] = calls[t][i]
<1>1. calls[t] \in Seq(Call) /\ calls[t] # <<>>
  BY DEF TypeOK, InCall
<1> DEFINE s == calls[t]
<1> HIDE DEF s
<1>2. s \in Seq(Call) /\ Len(s) \in Nat /\ Len(s) > 0
  BY <1>1 DEF s
<1>3. /\ SubSeq(s, 1, Len(s) - 1) \in Seq(Call)
      /\ Len(SubSeq(s, 1, Len(s) - 1)) = Len(s) - 1
      /\ \A i \in 1..Len(s) - 1 : SubSeq(s, 1, Len(s) - 1)[i] = s[i]
  <2> DEFINE n == Len(s) - 1
  <2>1. n \in Nat /\ 1 \in Int /\ n \in Int /\ \A i \in 1..n : s[i] \in Call
    BY <1>2
  <2> HIDE DEF n
  <2>2. /\ SubSeq(s, 1, n) \in Seq(Call)
        /\ Len(SubSeq(s, 1, n)) = IF 1 <= n THEN n - 1 + 1 ELSE 0
        /\ \A i \in 1..n - 1 + 1 : SubSeq(s, 1, n)[i] = s[1 + i - 1]
    BY <2>1, SubSeqProperties
  <2>3. \A i \in 1..n : SubSeq(s, 1, n)[i] = s[i]
    BY <2>1, <2>2
  <2>4. Len(SubSeq(s, 1, n)) = n
    BY <2>1, <2>2
  <2> QED
    BY <2>2, <2>3, <2>4 DEF n
<1>4. s[Len(s)] \in Call /\ Len(s) \in 1..Len(s)
  BY <1>2
<1> QED
  BY <1>2, <1>3, <1>4 DEF Top, Last, Front, s

LEMMA Entered ==
  ASSUME TypeOK, NEW t \in Threads, NEW call \in Call, Enter(t, call)
  PROVE  CallsAre(t, Len(calls[t]), call)
<1>1. calls \in [Threads -> Seq(Call)] /\ calls[t] \in Seq(Call)
  BY DEF TypeOK
<1>2. calls' = [calls EXCEPT ![t] = Append(calls[t], call)]
  BY DEF Enter
<1>3. calls' \in [Threads -> Seq(Call)] /\ calls'[t] = Append(calls[t], call)
  BY <1>1, <1>2
<1>4. /\ Len(calls[t]) \in Nat /\ Len(calls'[t]) = Len(calls[t]) + 1
      /\ \A i \in 1..Len(calls[t]) : calls'[t][i] = calls[t][i]
      /\ calls'[t][Len(calls[t]) + 1] = call
  BY <1>1, <1>3, AppendProperties
<1>5. \A u \in Threads : u # t => calls'[u] = calls[u]
  BY <1>1, <1>2
<1> QED
  BY <1>3, <1>4, <1>5 DEF CallsAre

LEMMA Continued ==
  ASSUME TypeOK, NEW t \in Threads, InCall(t), NEW call \in Call, Continue(t, call)
  PROVE  CallsAre(t, Len(calls[t]) - 1, call)
<1>1. calls \in [Threads -> Seq(Call)]
  BY DEF TypeOK
<1> DEFINE s == Front(calls[t])
<1>2. /\ s \in Seq(Call) /\ Len(s) = Len(calls[t]) - 1
      /\ Len(calls[t]) \in Nat \ {0}
      /\ \A i \in 1..Len(calls[t]) - 1 : s[i] = calls[t][i]
  BY TopCall
<1>3. calls' = [calls EXCEPT ![t] = Append(s, call)]
  BY DEF Continue
<1> HIDE DEF s
<1>4. calls' \in [Threads -> Seq(Call)] /\ calls'[t] = Append(s, call)
  BY <1>1, <1>2, <1>3
<1>5. /\ Len(s) \in Nat /\ Len(calls'[t]) = Len(s) + 1
      /\ \A i \in 1..Len(s) : calls'[t][i] = s[i]
      /\ calls'[t][Len(s) + 1] = call
  BY <1>2, <1>4, AppendProperties
<1>6. \A u \in Threads : u # t => calls'[u] = calls[u]
  BY <1>1, <1>3
<1>7. Len(s) \in 0..Len(calls[t])
  BY <1>2
<1>8. CallsAre(t, Len(s), call)
  BY <1>2, <1>4, <1>5, <1>6, <1>7 DEF CallsAre
<1> QED
  BY <1>2, <1>8

LEMMA Left ==
  ASSUME TypeOK, NEW t \in Threads, InCall(t), Leave(t)
  PROVE  CallsLeft(t)
<1>1. calls \in [Threads -> Seq(Call)]
  BY DEF TypeOK
<1> DEFINE s == Front(calls[t])
<1>2. /\ s \in Seq(Call) /\ Len(s) = Len(calls[t]) - 1
      /\ \A i \in 1..Len(calls[t]) - 1 : s[i] = calls[t][i]
  BY TopCall
<1>3. calls' = [calls EXCEPT ![t] = s]
  BY DEF Leave
<1> HIDE DEF s
<1>4. calls' \in [Threads -> Seq(Call)] /\ calls'[t] = s
  BY <1>1, <1>2, <1>3
<1>5. \A u \in Threads : u # t => calls'[u] = calls[u]
  BY <1>1, <1>3
<1> QED
  BY <1>2, <1>4, <1>5 DEF CallsLeft

\* Where the threads are afterwards.
LEMMA CallsTops ==
  ASSUME TypeOK, NEW t \in Threads, NEW n \in Nat, NEW call, CallsAre(t, n, call)
  PROVE  /\ InCall(t)' /\ Top(t)' = call
         /\ \A u \in Threads : u # t => InCall(u)' = InCall(u) /\ Top(u)' = Top(u)
<1>1. calls'[t] \in Seq(Call) /\ Len(calls'[t]) = n + 1 /\ calls'[t][n + 1] = call
  BY DEF CallsAre
<1>2. calls'[t] # <<>>
  BY <1>1
<1>3. \A u \in Threads : u # t => calls'[u] = calls[u]
  BY DEF CallsAre
<1> QED
  BY <1>1, <1>2, <1>3 DEF InCall, Top, Last

\* A call further out than the one that has ended is in a hook.
LEMMA LeftTops ==
  ASSUME TypeOK, Nested, NEW t \in Threads, InCall(t), CallsLeft(t)
  PROVE  /\ InCall(t)' => Top(t)'.at = "hook"
         /\ \A u \in Threads : u # t => InCall(u)' = InCall(u) /\ Top(u)' = Top(u)
<1>1. calls'[t] \in Seq(Call) /\ Len(calls'[t]) = Len(calls[t]) - 1 /\ Len(calls[t]) \in Nat \ {0}
  BY TopCall DEF CallsLeft
<1>2. ASSUME InCall(t)' PROVE Top(t)'.at = "hook"
  <2>1. calls'[t] # <<>>
    BY <1>2 DEF InCall
  <2>2. Len(calls'[t]) \in 1..Len(calls[t]) - 1
    BY <1>1, <2>1
  <2>3. Top(t)' = calls'[t][Len(calls'[t])]
    BY DEF Top, Last
  <2>4. calls'[t][Len(calls'[t])] = calls[t][Len(calls'[t])]
    BY <2>2 DEF CallsLeft
  <2> QED
    BY <2>2, <2>3, <2>4 DEF Nested
<1>3. \A u \in Threads : u # t => calls'[u] = calls[u]
  BY DEF CallsLeft
<1> QED
  BY <1>2, <1>3 DEF InCall, Top

\* Calls stay nested.
LEMMA NestedCall ==
  ASSUME BaseInv, NEW t \in Threads, NEW n \in Nat, NEW call, CallsAre(t, n, call),
         UNCHANGED accept,
         n = Len(calls[t]) - 1 \/ ~InCall(t) \/ Top(t).at = "hook",
         InCall(t) \/ t # Context \/ accept.at \notin {"pushed", "named"}
  PROVE  Nested'
<1>1. TypeOK /\ Nested
  BY DEF BaseInv
<1>2. calls[t] \in Seq(Call) /\ Len(calls[t]) \in Nat
  BY <1>1 DEF TypeOK
<1>3. ASSUME NEW u \in Threads, NEW i \in 1..Len(calls'[u]) - 1
      PROVE  calls'[u][i].at = "hook"
  <2>1. CASE u # t
    BY <1>1, <2>1, <1>3 DEF CallsAre, Nested
  <2>2. CASE u = t
    <3>1. i \in 1..n /\ n \in 0..Len(calls[t])
      BY <1>3, <2>2 DEF CallsAre
    <3>2. i \in 1..Len(calls[t]) - 1 \/ (i = Len(calls[t]) /\ n # Len(calls[t]) - 1)
      BY <1>2, <3>1
    <3>3. calls'[t][i] = calls[t][i]
      BY <3>1 DEF CallsAre
    <3>4. CASE i \in 1..Len(calls[t]) - 1
      BY <1>1, <2>2, <3>3, <3>4 DEF Nested
    <3>5. CASE i = Len(calls[t]) /\ n # Len(calls[t]) - 1
      <4>1. InCall(t)
        BY <1>2, <3>1, <3>5 DEF InCall
      <4> QED
        BY <1>1, <2>2, <3>3, <3>5, <4>1, TopCall
    <3> QED
      BY <3>2, <3>4, <3>5
  <2> QED
    BY <2>1, <2>2
<1>4. accept.at \in {"pushed", "named"} => ~InCall(Context)'
  <2>1. CASE t = Context
    BY <1>1, <2>1 DEF Nested
  <2>2. CASE t # Context
    BY <1>1, <2>2 DEF Nested, CallsAre, InCall, Threads
  <2> QED
    BY <2>1, <2>2
<1> QED
  BY <1>3, <1>4 DEF Nested

LEMMA NestedLeft ==
  ASSUME BaseInv, NEW t \in Threads, InCall(t), CallsLeft(t), UNCHANGED accept
  PROVE  Nested'
<1>1. TypeOK /\ Nested
  BY DEF BaseInv
<1>2. Len(calls[t]) \in Nat \ {0} /\ Len(calls'[t]) = Len(calls[t]) - 1
  BY <1>1, TopCall DEF CallsLeft
<1>3. ASSUME NEW u \in Threads, NEW i \in 1..Len(calls'[u]) - 1
      PROVE  calls'[u][i].at = "hook"
  <2>1. CASE u # t
    BY <1>1, <2>1, <1>3 DEF CallsLeft, Nested
  <2>2. CASE u = t
    <3>1. i \in 1..Len(calls[t]) - 1
      BY <1>2, <1>3, <2>2
    <3> QED
      BY <1>1, <2>2, <3>1 DEF CallsLeft, Nested
  <2> QED
    BY <2>1, <2>2
<1>4. accept.at \in {"pushed", "named"} => ~InCall(Context)'
  <2>1. CASE t = Context
    BY <1>1, <2>1 DEF Nested
  <2>2. CASE t # Context
    BY <1>1, <2>2 DEF Nested, CallsLeft, InCall, Threads
  <2> QED
    BY <2>1, <2>2
<1> QED
  BY <1>3, <1>4 DEF Nested

-----------------------------------------------------------------------------
(* What the steps of MessageClient and MessageAllClients keep.              *)

LEMMA RosterBase ==
  ASSUME BaseInv, UNCHANGED <<closing, aborted, acceptVars>>,
         m_deqConns' \in Seq(Pointers), Owned', Nested',
         calls' \in [Threads -> Seq(Call)], nCalls' \in 0..MaxCalls,
         reported' \subseteq approved, overlapped' \in BOOLEAN, lost' \in BOOLEAN,
         socket' \in [Clients -> {"none", "knocking", "open", "closed"}],
         \A c \in Clients : c \notin approved => socket'[c] = socket[c],
         \A c \in approved : socket'[c] \in {"open", "closed"}
  PROVE  BaseInv'
<1>1. TypeOK /\ AcceptBase /\ approved \in SUBSET Clients
      /\ (accept.at # "idle" => accept.conn \in Clients)
  BY BaseFacts DEF BaseInv
<1>2. UNCHANGED <<closing, aborted, armed, accept, approved, m_idCounter, id, connected>>
  BY DEF acceptVars
<1>3. Len(m_deqConns') <= Cardinality(Clients)
  <2>1. \E f : OwnedBy(f, m_deqConns', approved)
    BY <1>2 DEF Owned
  <2> QED
    BY <2>1, <1>1, NoLonger
<1>4. TypeOK'
  <2>1. reported' \subseteq Clients
    BY <1>1
  <2> QED
    BY <1>1, <1>2, <1>3, <2>1 DEF TypeOK
<1>5. AcceptBase'
  BY <1>1, <1>2 DEF AcceptBase
<1> QED
  BY <1>4, <1>5 DEF BaseInv

\* The connections that fall out of m_deqConns were approved.
LEMMA Dropped ==
  ASSUME BaseInv, NEW t, NEW q, NEW undefined \in BOOLEAN, Becomes(t, q, undefined)
  PROVE  /\ m_deqConns' = q /\ lost' \in BOOLEAN
         /\ socket' \in [Clients -> {"none", "knocking", "open", "closed"}]
         /\ \A c \in Clients : c \notin approved => socket'[c] = socket[c]
         /\ \A c \in approved : socket'[c] \in {"open", "closed"}
         /\ (\A c \in Range(m_deqConns) : c \in Range(q) \cup {NoClient}
                                            \/ socket[c] = "closed")
               => socket' = socket
<1> DEFINE dropped == Range(m_deqConns) \ (Range(q) \cup {NoClient})
           risk == \/ undefined
                   \/ q # m_deqConns /\ InUse(t)
                   \/ \E c \in dropped : c \in aborted \cup closing \/ socket[c] = "open"
<1>1. /\ m_deqConns' = q /\ Risk(risk)
      /\ socket' \in {socket, [c \in Clients |-> IF c \in dropped THEN "closed"
                                                  ELSE socket[c]]}
  BY DEF Becomes
<1>2. risk \in BOOLEAN
  OBVIOUS
<1> HIDE DEF risk
<1>3. lost' \in BOOLEAN
  BY <1>1, <1>2, Risked
<1>4. dropped \subseteq approved
  BY BaseFacts DEF Range
<1>5. socket \in [Clients -> {"none", "knocking", "open", "closed"}] /\ approved \subseteq Clients
      /\ \A c \in approved : socket[c] \in {"open", "closed"}
  BY DEF BaseInv, TypeOK, AcceptBase
<1>6. ASSUME \A c \in Range(m_deqConns) : c \in Range(q) \cup {NoClient}
                                            \/ socket[c] = "closed"
      PROVE  socket' = socket
  <2>1. \A c \in dropped : socket[c] = "closed"
    BY <1>6
  <2> HIDE DEF dropped
  <2>2. [c \in Clients |-> IF c \in dropped THEN "closed" ELSE socket[c]] = socket
    BY <1>5, <2>1
  <2> QED
    BY <1>1, <2>2
<1> HIDE DEF dropped
<1>7. /\ socket' \in [Clients -> {"none", "knocking", "open", "closed"}]
      /\ \A c \in Clients : c \notin approved => socket'[c] = socket[c]
      /\ \A c \in approved : socket'[c] \in {"open", "closed"}
  BY <1>1, <1>4, <1>5
<1> QED
  BY <1>1, <1>3, <1>6, <1>7

\* What a thread meets was approved.
LEMMA MetFacts ==
  ASSUME BaseInv, NEW t \in Threads, InCall(t)
  PROVE  /\ Top(t) \in Call /\ CallFacts(Top(t))
         /\ Met(t) \in approved \cup {NoClient}
         /\ Inside(Top(t).next) => Top(t).next \in 1..Len(m_deqConns)
                                   /\ Met(t) = m_deqConns[Top(t).next]
         /\ ~Inside(Top(t).next) => Met(t) = NoClient
<1>1. Top(t) \in Call /\ CallFacts(Top(t))
  BY TopCall, CallTyped DEF BaseInv
<1>2. Inside(Top(t).next) => Top(t).next \in 1..Len(m_deqConns)
  BY <1>1, BaseFacts DEF CallFacts, Inside
<1> QED
  BY <1>1, <1>2, BaseFacts DEF Met

LEMMA AcceptKept ==
  ASSUME AcceptInv, UNCHANGED <<socket, acceptVars>>,
         \A c \in reported' : c \in connected /\ socket[c] = "closed"
  PROVE  AcceptInv'
BY DEF AcceptInv, acceptVars

\* The loops stay in order if each knows enough of what the step does.
LEMMA LoopsStep ==
  ASSUME BaseInv, LoopsOK, NEW t \in Threads, NEW n \in Nat, NEW call, CallsAre(t, n, call),
         \A other \in Call : LoopOK(other, m_deqConns, reported, socket)
                                => LoopOK(other, m_deqConns', reported', socket'),
         InLoop(call) => LoopOK(call, m_deqConns', reported', socket')
  PROVE  LoopsOK'
<1> SUFFICES ASSUME NEW u \in Threads, NEW i \in 1..Len(calls'[u]), InLoop(calls'[u][i])
             PROVE  LoopOK(calls'[u][i], m_deqConns', reported', socket')
  BY DEF LoopsOK, InLoop
<1>1. calls \in [Threads -> Seq(Call)] /\ Len(calls[t]) \in Nat
  BY DEF BaseInv, TypeOK
<1>2. \/ u = t /\ calls'[u][i] = call
      \/ i \in 1..Len(calls[u]) /\ calls'[u][i] = calls[u][i]
  BY <1>1 DEF CallsAre
<1>3. CASE i \in 1..Len(calls[u]) /\ calls'[u][i] = calls[u][i]
  <2>1. calls[u][i] \in Call
    BY <1>1, <1>3
  <2> QED
    BY <1>3, <2>1 DEF LoopsOK
<1> QED
  BY <1>2, <1>3

LEMMA LoopsLeft ==
  ASSUME BaseInv, LoopsOK, NEW t \in Threads, InCall(t), CallsLeft(t),
         UNCHANGED <<m_deqConns, reported, socket>>
  PROVE  LoopsOK'
<1> SUFFICES ASSUME NEW u \in Threads, NEW i \in 1..Len(calls'[u]), InLoop(calls'[u][i])
             PROVE  LoopOK(calls'[u][i], m_deqConns, reported, socket)
  BY DEF LoopsOK, InLoop
<1>1. Len(calls[t]) \in Nat \ {0}
  BY TopCall DEF BaseInv
<1>2. i \in 1..Len(calls[u]) /\ calls'[u][i] = calls[u][i]
  BY <1>1 DEF CallsLeft
<1>3. InLoop(calls[u][i])
  BY <1>2
<1>4. LoopOK(calls[u][i], m_deqConns, reported, socket)
  BY <1>2, <1>3 DEF LoopsOK
<1> QED
  BY <1>2, <1>4

LEMMA RemovesStep ==
  ASSUME BaseInv, RemovesOK, NEW t \in Threads, NEW n \in Nat, NEW call, CallsAre(t, n, call),
         \A other \in Call : RemoveOK(other, m_deqConns) => RemoveOK(other, m_deqConns'),
         call.at = "remove" => RemoveOK(call, m_deqConns')
  PROVE  RemovesOK'
<1> SUFFICES ASSUME NEW u \in Threads, At(u, "remove")'
             PROVE  RemoveOK(Top(u)', m_deqConns')
  BY DEF RemovesOK, RemoveOK
<1>1. /\ InCall(t)' /\ Top(t)' = call
      /\ \A v \in Threads : v # t => InCall(v)' = InCall(v) /\ Top(v)' = Top(v)
  BY CallsTops DEF BaseInv
<1>2. CASE u = t
  BY <1>1, <1>2 DEF At
<1>3. CASE u # t
  BY <1>1, <1>3, TopCall DEF At, RemovesOK, BaseInv
<1> QED
  BY <1>2, <1>3

LEMMA RemovesLeft ==
  ASSUME BaseInv, RemovesOK, NEW t \in Threads, InCall(t), CallsLeft(t),
         UNCHANGED m_deqConns
  PROVE  RemovesOK'
<1> SUFFICES ASSUME NEW u \in Threads, At(u, "remove")'
             PROVE  RemoveOK(Top(u)', m_deqConns)
  BY DEF RemovesOK, RemoveOK
<1>1. /\ InCall(t)' => Top(t)'.at = "hook"
      /\ \A v \in Threads : v # t => InCall(v)' = InCall(v) /\ Top(v)' = Top(v)
  BY LeftTops DEF BaseInv
<1> QED
  BY <1>1 DEF At, RemovesOK

\* Nobody else is at m_deqConns: there are no other loops and removes.
LEMMA NotInUse ==
  ASSUME BaseInv, NEW t \in Threads, ~InUse(t)
  PROVE  /\ \A u \in Threads : \A i \in 1..Len(calls[u]) :
               InLoop(calls[u][i]) \/ calls[u][i].at = "remove"
                  => u = t /\ i = Len(calls[u])
         /\ t # Context => accept.at \notin {"pushed", "named", "hook"}
<1>1. \A u \in Threads : DOMAIN calls[u] = 1..Len(calls[u])
  BY DEF BaseInv, TypeOK
<1> QED
  BY <1>1 DEF InUse, InLoop

LEMMA OnlyOne ==
  ASSUME BaseInv, NEW t \in Threads, ~InUse(t), InCall(t), NEW call,
         CallsAre(t, Len(calls[t]) - 1, call), call.at = "remove",
         RemoveOK(call, m_deqConns')
  PROVE  LoopsOK' /\ RemovesOK'
<1>1. Len(calls[t]) \in Nat \ {0}
  BY TopCall DEF BaseInv
<1>2. ASSUME NEW u \in Threads, NEW i \in 1..Len(calls'[u]) PROVE ~InLoop(calls'[u][i])
  <2>1. \/ u = t /\ calls'[u][i] = call
        \/ /\ i \in 1..Len(calls[u]) /\ calls'[u][i] = calls[u][i]
           /\ u = t => i # Len(calls[u])
    BY <1>1, <1>2 DEF CallsAre
  <2> QED
    BY <2>1, NotInUse DEF InLoop
<1>3. ASSUME NEW u \in Threads, At(u, "remove")'
      PROVE  RemoveOK(Top(u)', m_deqConns')
  <2>1. /\ InCall(t)' /\ Top(t)' = call
        /\ \A v \in Threads : v # t => InCall(v)' = InCall(v) /\ Top(v)' = Top(v)
    <3>1. Len(calls[t]) - 1 \in Nat
      BY <1>1
    <3> QED
      BY <3>1, CallsTops DEF BaseInv
  <2>2. CASE u # t
    <3>1. InCall(u) /\ Top(u).at = "remove"
      BY <1>3, <2>1, <2>2 DEF At
    <3> QED
      BY <3>1, <2>2, TopCall, NotInUse DEF BaseInv
  <2> QED
    BY <2>1, <2>2
<1> QED
  BY <1>2, <1>3 DEF LoopsOK, RemovesOK, InLoop, RemoveOK

LEMMA NoneLeft ==
  ASSUME BaseInv, NEW t \in Threads, ~InUse(t), InCall(t), CallsLeft(t)
  PROVE  LoopsOK' /\ RemovesOK'
<1>1. Len(calls[t]) \in Nat \ {0}
  BY TopCall DEF BaseInv
<1>2. ASSUME NEW u \in Threads, NEW i \in 1..Len(calls'[u]) PROVE ~InLoop(calls'[u][i])
  <2>1. /\ i \in 1..Len(calls[u]) /\ calls'[u][i] = calls[u][i]
        /\ u = t => i # Len(calls[u])
    BY <1>1, <1>2 DEF CallsLeft
  <2> QED
    BY <2>1, NotInUse
<1>3. ASSUME NEW u \in Threads, At(u, "remove")' PROVE FALSE
  <2>1. /\ InCall(t)' => Top(t)'.at = "hook"
        /\ \A v \in Threads : v # t => InCall(v)' = InCall(v) /\ Top(v)' = Top(v)
    BY LeftTops DEF BaseInv
  <2>2. InCall(u) /\ Top(u).at = "remove" /\ u # t
    BY <1>3, <2>1 DEF At
  <2> QED
    BY <2>2, TopCall, NotInUse DEF BaseInv
<1> QED
  BY <1>2, <1>3 DEF LoopsOK, RemovesOK, InLoop

\* More connections reported leaves every loop in order.
LEMMA ReportedMore ==
  ASSUME BaseInv, NEW rep, reported \subseteq rep,
         NEW other \in Call, LoopOK(other, m_deqConns, reported, socket)
  PROVE  LoopOK(other, m_deqConns, rep, socket)
BY BaseFacts, OthersKept

\* A call begins or goes on, and m_deqConns stays as it is.
LEMMA CallStep ==
  ASSUME ServerInv, UNCHANGED <<connVars, acceptVars, m_deqConns, overlapped>>,
         lost' \in BOOLEAN, nCalls' \in 0..MaxCalls, Nested',
         NEW t \in Threads, NEW n \in Nat, NEW call, CallsAre(t, n, call),
         reported \subseteq reported', reported' \subseteq approved,
         QuietInv => /\ \A c \in reported' : c \in connected /\ socket[c] = "closed"
                     /\ InLoop(call) => LoopOK(call, m_deqConns, reported', socket)
                     /\ call.at = "remove" => RemoveOK(call, m_deqConns)
                     /\ t = Context => ~Moved
                     /\ /\ t = Context /\ accept.at \in {"pushed", "named", "hook"}
                        /\ call.at = "remove"
                        => call.next <= call.end
  PROVE  ServerInv'
<1>1. BaseInv /\ TypeOK /\ AcceptBase /\ m_deqConns \in Seq(Pointers)
  BY BaseFacts DEF ServerInv, BaseInv
<1>2. UNCHANGED <<socket, closing, aborted, accept, connected, approved, m_deqConns,
                  overlapped>>
  BY DEF connVars, acceptVars
<1>3. Owned'
  BY <1>1, <1>2 DEF BaseInv, Owned
<1>4. BaseInv'
  <2>1. calls' \in [Threads -> Seq(Call)] /\ overlapped' \in BOOLEAN
    BY <1>1, <1>2 DEF CallsAre, TypeOK
  <2>2. socket' \in [Clients -> {"none", "knocking", "open", "closed"}]
    BY <1>1, <1>2 DEF TypeOK
  <2>3. \A c \in approved : socket'[c] \in {"open", "closed"}
    BY <1>1, <1>2 DEF AcceptBase
  <2> QED
    BY <1>1, <1>2, <1>3, <2>1, <2>2, <2>3, RosterBase
<1>5. ASSUME QuietInv PROVE QuietInv'
  <2>1. AcceptInv'
    BY <1>2, <1>5, AcceptKept DEF QuietInv
  <2>2. Listed'
    BY <1>2, <1>5 DEF QuietInv, Listed
  <2>3. LoopsOK'
    <3>1. \A other \in Call : LoopOK(other, m_deqConns, reported, socket)
                                 => LoopOK(other, m_deqConns', reported', socket')
      BY <1>1, <1>2, ReportedMore
    <3> QED
      BY <1>1, <1>2, <1>5, <3>1, LoopsStep DEF QuietInv
  <2>4. RemovesOK'
    BY <1>1, <1>2, <1>5, RemovesStep DEF QuietInv
  <2>5. BackOK'
    <3> SUFFICES ASSUME accept.at \in {"pushed", "named", "hook"} PROVE BackOK'
      BY <1>2 DEF BackOK
    <3>1. /\ InCall(t)' /\ Top(t)' = call
          /\ \A u \in Threads : u # t => InCall(u)' = InCall(u) /\ Top(u)' = Top(u)
      BY <1>1, CallsTops
    <3>2. CASE t = Context
      <4>1. ~Moved /\ Back1(m_deqConns)
        BY <1>5, <3>2 DEF QuietInv, BackOK
      <4>2. ~Moved'
        <5>1. At(Context, "remove")' => call.at = "remove" /\ Top(Context)' = call
          BY <3>1, <3>2 DEF At
        <5>2. call.at = "remove" => call.next <= call.end
          BY <1>5, <3>2
        <5>3. call.at = "remove" => RemoveOK(call, m_deqConns)
          BY <1>5
        <5>4. call.at = "remove" => call.next \in Int /\ call.end \in Int
          BY <1>1, <5>3 DEF RemoveOK
        <5> QED
          BY <5>1, <5>2, <5>4 DEF Moved
      <4>3. Back1(m_deqConns)'
        BY <1>2, <4>1 DEF Back1
      <4> QED
        BY <4>2, <4>3 DEF BackOK
    <3>3. CASE t # Context
      <4>1. Moved' = Moved /\ Top(Context)' = Top(Context)
        BY <3>1, <3>3 DEF Moved, At, Threads
      <4> QED
        BY <1>2, <1>5, <4>1 DEF QuietInv, BackOK, Back1
    <3> QED
      BY <3>2, <3>3
  <2> QED
    BY <2>1, <2>2, <2>3, <2>4, <2>5 DEF QuietInv
<1> QED
  BY <1>2, <1>4, <1>5 DEF ServerInv

-----------------------------------------------------------------------------
(* The steps of MessageClient and MessageAllClients.                        *)

LEMMA BeginAllInv ==
  ASSUME ServerInv, NEW t \in Threads, NEW p \in Pointers, BeginAll(t, p)
  PROVE  ServerInv'
<1> DEFINE call == [name |-> "all", at |-> "loop", ignore |-> p,
                    next |-> 1, end |-> Len(m_deqConns), result |-> 1,
                    bInvalidClientExists |-> FALSE,
                    was |-> m_deqConns, sentTo |-> <<>>,
                    dead |-> {c \in Clients : socket[c] = "closed"}]
<1>1. BaseInv /\ TypeOK /\ m_deqConns \in Seq(Pointers) /\ reported \subseteq approved
  BY BaseFacts DEF ServerInv
<1>2. call \in Call
  <2>1. Len(m_deqConns) \in Nat /\ 1 \in Nat \ {0} /\ <<>> \in Seq(Clients)
    BY <1>1
  <2> QED
    BY <1>1, <2>1 DEF Call
<1>3. /\ call.was = m_deqConns /\ call.end = Len(m_deqConns) /\ call.next = 1
      /\ call.at = "loop" /\ call.sentTo = <<>> /\ \A c \in call.dead : socket[c] = "closed"
  OBVIOUS
<1>4. /\ Enter(t, call) /\ MayCall(t)
      /\ UNCHANGED <<connVars, acceptVars, m_deqConns, reported, overlapped, lost>>
  BY DEF BeginAll, endVars
<1> HIDE DEF call
<1>5. CallsAre(t, Len(calls[t]), call) /\ Len(calls[t]) \in Nat
  BY <1>1, <1>2, <1>4, Entered DEF TypeOK
<1>6. LoopOK(call, m_deqConns, reported, socket)
  <2>1. \E f : OwnedBy(f, m_deqConns, approved)
    BY <1>1 DEF BaseInv, Owned
  <2> QED
    BY <1>1, <1>2, <1>3, <2>1, Begun
<1>7. nCalls' \in 0..MaxCalls /\ lost' \in BOOLEAN
  BY <1>1, <1>4, ServerAssumption DEF TypeOK, Enter, MayCall
<1>8. Nested'
  <2>1. ~InCall(t) \/ Top(t).at = "hook"
    BY <1>4 DEF MayCall
  <2>2. InCall(t) \/ t # Context \/ accept.at \notin {"pushed", "named"}
    BY <1>4, ServerAssumption DEF MayCall
  <2>3. UNCHANGED accept
    BY <1>4 DEF acceptVars
  <2> QED
    BY <1>1, <1>5, <2>1, <2>2, <2>3, NestedCall
<1>9. QuietInv => /\ \A c \in reported' : c \in connected /\ socket[c] = "closed"
                  /\ (t = Context => ~Moved)
  <2>1. UNCHANGED reported
    BY <1>4
  <2>2. t = Context => ~Moved
    BY <1>4 DEF MayCall, Moved, At
  <2> QED
    BY <1>1, <2>1, <2>2, QuietFacts
<1> QED
  BY <1>1, <1>3, <1>4, <1>5, <1>6, <1>7, <1>8, <1>9, CallStep

LEMMA BeginOneInv ==
  ASSUME ServerInv, NEW t \in Threads, NEW client \in Clients, BeginOne(t, client)
  PROVE  ServerInv'
<1> DEFINE call == [name |-> "one", at |-> "hook", ignore |-> NoClient,
                    next |-> 1, end |-> 0, result |-> 1,
                    bInvalidClientExists |-> FALSE,
                    was |-> <<>>, sentTo |-> <<>>, dead |-> {}]
<1>1. BaseInv /\ TypeOK /\ AcceptBase /\ reported \subseteq approved
      /\ connected \subseteq approved
  BY BaseFacts DEF ServerInv, BaseInv
<1>2. call \in Call /\ ~InLoop(call) /\ call.at # "remove"
  BY DEF Call, Pointers, InLoop
<1>3. /\ Enter(t, call) /\ MayCall(t)
      /\ socket[client] # "open" /\ client \in connected
      /\ reported' = reported \cup {client}
      /\ UNCHANGED <<connVars, acceptVars, m_deqConns, overlapped, lost>>
  BY DEF BeginOne, endVars
<1> HIDE DEF call
<1>4. CallsAre(t, Len(calls[t]), call) /\ Len(calls[t]) \in Nat
  BY <1>1, <1>2, <1>3, Entered DEF TypeOK
<1>5. nCalls' \in 0..MaxCalls /\ lost' \in BOOLEAN
  BY <1>1, <1>3, ServerAssumption DEF TypeOK, Enter, MayCall
<1>6. Nested'
  <2>1. ~InCall(t) \/ Top(t).at = "hook"
    BY <1>3 DEF MayCall
  <2>2. InCall(t) \/ t # Context \/ accept.at \notin {"pushed", "named"}
    BY <1>3, ServerAssumption DEF MayCall
  <2>3. UNCHANGED accept
    BY <1>3 DEF acceptVars
  <2> QED
    BY <1>1, <1>4, <2>1, <2>2, <2>3, NestedCall
<1>7. QuietInv => /\ \A c \in reported' : c \in connected /\ socket[c] = "closed"
                  /\ (t = Context => ~Moved)
  <2>1. t = Context => ~Moved
    BY <1>3 DEF MayCall, Moved, At
  <2>2. socket[client] = "closed"
    BY <1>1, <1>3 DEF AcceptBase
  <2> QED
    BY <1>1, <1>3, <2>1, <2>2, QuietFacts
<1>8. reported \subseteq reported' /\ reported' \subseteq approved
  BY <1>1, <1>3
<1> QED
  BY <1>2, <1>3, <1>4, <1>5, <1>6, <1>7, <1>8, CallStep

\* In quiet times: the innermost loop of a thread is at an element.
LEMMA AtElement ==
  ASSUME BaseInv, QuietInv, NEW t \in Threads, InCall(t), InLoop(Top(t)),
         Top(t).next <= Top(t).end
  PROVE  /\ LoopOK(Top(t), m_deqConns, reported, socket)
         /\ Top(t).next \in 1..Top(t).end /\ Inside(Top(t).next)
<1>1. LoopOK(Top(t), m_deqConns, reported, socket)
  BY TopCall DEF BaseInv, QuietInv, LoopsOK
<1>2. CallFacts(Top(t)) /\ Len(m_deqConns) \in Nat
  BY MetFacts, BaseFacts
<1>3. Top(t).next \in 1..Top(t).end /\ Top(t).next <= Len(m_deqConns)
  BY <1>1, <1>2 DEF LoopOK, InRange, CallFacts
<1> QED
  BY <1>1, <1>3 DEF Inside

LEMMA LoopInv ==
  ASSUME ServerInv, NEW t \in Threads, Loop(t)
  PROVE  ServerInv'
<1> DEFINE call == Top(t)
           next == Advance(call)
<1>1. BaseInv /\ TypeOK /\ AcceptBase /\ m_deqConns \in Seq(Pointers)
      /\ reported \subseteq approved /\ approved \subseteq Clients /\ NoClient \notin approved
  BY BaseFacts DEF ServerInv, BaseInv
<1>2. /\ InCall(t) /\ call.at = "loop" /\ call.next <= call.end
      /\ UNCHANGED <<connVars, acceptVars, m_deqConns, overlapped, nCalls>>
  BY DEF Loop, At
<1>3. /\ call \in Call /\ CallFacts(call)
      /\ Met(t) \in approved \cup {NoClient}
      /\ (Inside(call.next) => call.next \in 1..Len(m_deqConns)
                               /\ Met(t) = m_deqConns[call.next])
  BY <1>1, <1>2, MetFacts
<1>4. ASSUME QuietInv
      PROVE  /\ LoopOK(call, m_deqConns, reported, socket)
             /\ Met(t) = m_deqConns[call.next]
             /\ \/ m_deqConns[call.next] = call.was[call.next]
                \/ m_deqConns[call.next] = NoClient /\ call.was[call.next] \in reported
             /\ \A c \in reported : c \in connected /\ socket[c] = "closed"
             /\ (t = Context => ~Moved)
             /\ \A c \in approved : socket[c] # "open" => c \in connected
  <2>1. /\ LoopOK(call, m_deqConns, reported, socket)
        /\ call.next \in 1..call.end /\ Inside(call.next)
    BY <1>1, <1>2, <1>4, AtElement DEF InLoop
  <2>2. t = Context => ~Moved
    BY <1>2 DEF Moved, At
  <2>3. \A c \in approved : socket[c] # "open" => c \in connected
    BY <1>4 DEF QuietInv, AcceptInv
  <2> QED
    BY <1>1, <1>3, <1>4, <2>1, <2>2, <2>3, QuietFacts DEF LoopOK, WasThere
<1>5. nCalls' \in 0..MaxCalls /\ UNCHANGED accept
  BY <1>1, <1>2 DEF TypeOK, acceptVars
<1>6. Len(calls[t]) - 1 \in Nat
  BY <1>1, <1>2, TopCall
<1> HIDE DEF call
<1>7. /\ next \in Call /\ SameLoop(call, next) /\ next.next = call.next + 1
      /\ next.at = "loop" /\ next.sentTo = call.sentTo
  BY <1>2, <1>3, SMTT(20) DEF Advance, Call, SameLoop
<1>8. CASE /\ Met(t) = NoClient \/ (socket[Met(t)] = "open" /\ Met(t) = call.ignore)
           /\ Continue(t, next) /\ UNCHANGED reported /\ lost' \in BOOLEAN
  <2> HIDE DEF next
  <2>1. CallsAre(t, Len(calls[t]) - 1, next)
    BY <1>1, <1>2, <1>7, <1>8, Continued
  <2>2. Nested'
    BY <1>1, <1>2, <1>5, <1>6, <2>1, NestedCall
  <2>3. ASSUME QuietInv PROVE LoopOK(next, m_deqConns, reported, socket)
    <3>1. Met(t) \notin call.dead
      BY <1>3, <1>4, <1>8, <2>3, ServerAssumption DEF LoopOK, Swept, CallFacts
    <3>2. call.was[call.next] \in Clients =>
             \/ socket[call.was[call.next]] # "open"
             \/ call.was[call.next] = call.ignore
      BY <1>4, <1>8, <2>3, ServerAssumption
    <3> QED
      BY <1>1, <1>2, <1>3, <1>4, <1>7, <2>3, <3>1, <3>2, Advanced
  <2> QED
    BY <1>1, <1>2, <1>4, <1>5, <1>6, <1>7, <1>8, <2>1, <2>2, <2>3, CallStep
<1>9. CASE /\ Met(t) # NoClient /\ socket[Met(t)] = "open" /\ Met(t) # call.ignore
           /\ Continue(t, [next EXCEPT !.sentTo = Append(@, Met(t))])
           /\ UNCHANGED <<reported, lost>>
  <2> DEFINE sent == [next EXCEPT !.sentTo = Append(@, Met(t))]
  <2>1. Met(t) \in Clients
    BY <1>1, <1>3, <1>9
  <2>2. /\ sent \in Call /\ SameLoop(call, sent) /\ sent.next = call.next + 1
        /\ sent.at = "loop" /\ sent.sentTo = Append(call.sentTo, Met(t))
        /\ Continue(t, sent)
    <3>1. Append(call.sentTo, Met(t)) \in Seq(Clients)
      BY <1>3, <2>1, AppendProperties DEF CallFacts
    <3> HIDE DEF next
    <3>2. sent \in Call /\ sent.sentTo = Append(call.sentTo, Met(t))
      BY <1>7, <3>1 DEF Call
    <3> QED
      BY <1>7, <1>9, <3>2 DEF Call, SameLoop
  <2> HIDE DEF sent, next
  <2>3. CallsAre(t, Len(calls[t]) - 1, sent)
    BY <1>1, <1>2, <2>2, Continued
  <2>4. Nested'
    BY <1>1, <1>2, <1>5, <1>6, <2>3, NestedCall
  <2>5. QuietInv => LoopOK(sent, m_deqConns, reported, socket)
    BY <1>1, <1>2, <1>3, <1>4, <1>9, <2>1, <2>2, Messaged
  <2>6. lost' \in BOOLEAN
    BY <1>1, <1>9 DEF TypeOK
  <2> QED
    BY <1>1, <1>2, <1>4, <1>5, <1>6, <1>9, <2>2, <2>3, <2>4, <2>5, <2>6, CallStep
<1>10. CASE /\ Met(t) # NoClient /\ socket[Met(t)] # "open"
            /\ Continue(t, [call EXCEPT !.at = "hook"])
            /\ reported' = reported \cup {Met(t)} /\ UNCHANGED lost
  <2> DEFINE hook == [call EXCEPT !.at = "hook"]
  <2>1. Met(t) \in approved /\ socket[Met(t)] = "closed"
    BY <1>1, <1>3, <1>10 DEF AcceptBase
  <2>2. /\ hook \in Call /\ SameLoop(call, hook) /\ hook.next = call.next
        /\ hook.at = "hook" /\ hook.sentTo = call.sentTo /\ Continue(t, hook)
    BY <1>3, <1>10 DEF Call, SameLoop
  <2> HIDE DEF hook, next
  <2>3. CallsAre(t, Len(calls[t]) - 1, hook)
    BY <1>1, <1>2, <2>2, Continued
  <2>4. Nested'
    BY <1>1, <1>2, <1>5, <1>6, <2>3, NestedCall
  <2>5. reported \subseteq reported' /\ reported' \subseteq approved
    BY <1>1, <1>10, <2>1
  <2>6. ASSUME QuietInv PROVE LoopOK(hook, m_deqConns, reported', socket)
    <3>1. LoopOK(call, m_deqConns, reported', socket)
      BY <1>1, <1>3, <1>4, <2>5, <2>6, ReportedMore
    <3> QED
      BY <1>2, <1>3, <1>4, <1>10, <2>2, <2>6, <3>1, HookCalled
  <2>7. QuietInv => \A c \in reported' : c \in connected /\ socket[c] = "closed"
    BY <1>4, <1>10, <2>1
  <2>8. lost' \in BOOLEAN
    BY <1>1, <1>10 DEF TypeOK
  <2> QED
    BY <1>2, <1>4, <1>5, <1>6, <2>2, <2>3, <2>4, <2>5, <2>6, <2>7, <2>8, CallStep
<1>11. ASSUME Risk(~Inside(call.next)) PROVE lost' \in BOOLEAN
  BY <1>11, Risked
<1>12. \/ /\ Met(t) = NoClient /\ Continue(t, next)
          /\ Risk(~Inside(call.next)) /\ UNCHANGED reported
       \/ /\ Met(t) # NoClient /\ socket[Met(t)] = "open"
          /\ Continue(t, IF Met(t) = call.ignore THEN next
                         ELSE [next EXCEPT !.sentTo = Append(@, Met(t))])
          /\ UNCHANGED <<reported, lost>>
       \/ /\ Met(t) # NoClient /\ socket[Met(t)] # "open"
          /\ Continue(t, [call EXCEPT !.at = "hook"])
          /\ reported' = reported \cup {Met(t)} /\ UNCHANGED lost
  BY DEF Loop, call
<1> HIDE DEF next
<1>13. lost \in BOOLEAN
  BY <1>1 DEF TypeOK
<1>14. CASE /\ Met(t) # NoClient /\ socket[Met(t)] = "open"
            /\ Continue(t, IF Met(t) = call.ignore THEN next
                           ELSE [next EXCEPT !.sentTo = Append(@, Met(t))])
            /\ UNCHANGED <<reported, lost>>
  BY <1>8, <1>9, <1>13, <1>14
<1> QED
  BY <1>8, <1>10, <1>11, <1>12, <1>14

LEMMA ResetInv ==
  ASSUME ServerInv, NEW t \in Threads, Reset(t)
  PROVE  ServerInv'
<1> DEFINE call == Top(t)
           q == m_deqConns
           next == [Advance(call) EXCEPT !.bInvalidClientExists = TRUE, !.at = "loop"]
<1>1. /\ BaseInv /\ TypeOK /\ q \in Seq(Pointers) /\ Len(q) \in Nat /\ DOMAIN q = 1..Len(q)
      /\ reported \subseteq approved /\ NoClient \notin approved
  BY BaseFacts DEF ServerInv
<1>2. /\ InCall(t) /\ call.name = "all" /\ call.at = "hook"
      /\ Becomes(t, Nulled(q, call.next), ~Inside(call.next))
      /\ Continue(t, next)
      /\ UNCHANGED <<closing, aborted, acceptVars, reported, nCalls, overlapped>>
  BY DEF Reset, At, Nulled
<1>3. call \in Call /\ CallFacts(call) /\ Len(calls[t]) - 1 \in Nat
  BY <1>1, <1>2, MetFacts, TopCall
<1>4. /\ next \in Call /\ SameLoop(call, next) /\ next.next = call.next + 1
      /\ next.at = "loop" /\ next.sentTo = call.sentTo
  <2> DEFINE past == Advance(call)
  <2>1. /\ past \in Call /\ SameLoop(call, past) /\ past.next = call.next + 1
        /\ past.sentTo = call.sentTo
    BY <1>3, SMTT(30) DEF Advance, Call, SameLoop
  <2> HIDE DEF past
  <2>2. next = [past EXCEPT !.bInvalidClientExists = TRUE, !.at = "loop"]
    BY DEF past
  <2> QED
    BY <2>1, <2>2 DEF Call, SameLoop
<1> HIDE DEF next
<1>5. CallsAre(t, Len(calls[t]) - 1, next)
  BY <1>1, <1>2, <1>4, Continued
<1>6. /\ Nulled(q, call.next) \in Seq(Pointers) /\ Len(Nulled(q, call.next)) = Len(q)
      /\ DOMAIN Nulled(q, call.next) = 1..Len(q)
      /\ \A i \in 1..Len(q) : Nulled(q, call.next)[i] = IF i = call.next THEN NoClient ELSE q[i]
      /\ \A S : \A f : OwnedBy(f, q, S) => OwnedBy(f, Nulled(q, call.next), S)
  BY <1>1, NulledSeq
<1>7. /\ m_deqConns' = Nulled(q, call.next) /\ lost' \in BOOLEAN
      /\ socket' \in [Clients -> {"none", "knocking", "open", "closed"}]
      /\ \A c \in Clients : c \notin approved => socket'[c] = socket[c]
      /\ \A c \in approved : socket'[c] \in {"open", "closed"}
      /\ (\A c \in Range(q) : c \in Range(Nulled(q, call.next)) \cup {NoClient}
                                \/ socket[c] = "closed")
            => socket' = socket
  <2>1. (~Inside(call.next)) \in BOOLEAN
    OBVIOUS
  <2> QED
    BY <1>1, <1>2, <2>1, Dropped
<1>8. UNCHANGED <<accept, approved, connected, reported, overlapped>>
  BY <1>2 DEF acceptVars
<1> HIDE DEF call
<1>9. BaseInv'
  <2>1. Owned'
    BY <1>1, <1>6, <1>7, <1>8 DEF BaseInv, Owned
  <2>2. Nested'
    BY <1>1, <1>2, <1>3, <1>5, <1>8, NestedCall
  <2>3. calls' \in [Threads -> Seq(Call)] /\ nCalls' \in 0..MaxCalls /\ overlapped' \in BOOLEAN
    BY <1>1, <1>2, <1>5, <1>8 DEF TypeOK, CallsAre
  <2> QED
    BY <1>1, <1>2, <1>6, <1>7, <1>8, <2>1, <2>2, <2>3, RosterBase
<1>10. ASSUME QuietInv PROVE QuietInv'
  <2>1. LoopOK(call, q, reported, socket)
    BY <1>1, <1>2, <1>10, TopCall DEF QuietInv, LoopsOK, InLoop, call
  <2>2. call.next \in 1..call.end /\ call.next \in 1..Len(q)
    BY <1>1, <1>2, <1>3, <2>1 DEF LoopOK, InRange, CallFacts
  <2>3. q[call.next] \in reported \cup {NoClient}
    BY <1>2, <2>1 DEF LoopOK, Reported
  <2>4. /\ \A c \in reported : c \in connected /\ socket[c] = "closed"
        /\ accept.at # "idle" => accept.conn \notin reported /\ accept.conn # NoClient
    BY <1>1, <1>10, QuietFacts
  <2> DEFINE r == Nulled(q, call.next)
  <2> HIDE DEF r
  <2>5. /\ m_deqConns' = r /\ Len(r) = Len(q) /\ DOMAIN r = 1..Len(q)
        /\ \A i \in 1..Len(q) : r[i] = IF i = call.next THEN NoClient ELSE q[i]
    BY <1>6, <1>7 DEF r
  <2>6. socket' = socket
    <3>1. ASSUME NEW c \in Range(q) PROVE c \in Range(r) \cup {NoClient} \/ socket[c] = "closed"
      BY <1>1, <2>3, <2>4, <2>5 DEF Range
    <3> QED
      BY <1>7, <3>1 DEF r
  <2>7. AcceptInv'
    BY <1>2, <1>8, <1>10, <2>4, <2>6, AcceptKept DEF QuietInv
  <2>8. Listed'
    <3> SUFFICES ASSUME NEW c \in approved, c \notin reported
                 PROVE  \E i \in 1..Len(r) : r[i] = c
      BY <1>8, <2>5 DEF Listed
    <3>1. PICK i \in 1..Len(q) : q[i] = c
      BY <1>10 DEF QuietInv, Listed
    <3> QED
      BY <1>1, <2>3, <2>5, <3>1
  <2>9. LoopsOK'
    <3>1. \A other \in Call : LoopOK(other, q, reported, socket)
                                 => LoopOK(other, r, reported, socket)
      BY <1>1, <2>2, <2>3, OneReset DEF r
    <3>2. r[call.next] \notin call.dead
      BY <1>3, <2>2, <2>5, ServerAssumption DEF CallFacts
    <3>3. call.was[call.next] \in Clients => socket[call.was[call.next]] # "open"
      <4>1. call.was[call.next] \in reported \cup {NoClient}
        BY <2>1, <2>2, <2>3 DEF LoopOK, WasThere
      <4> QED
        BY <2>4, <4>1, ServerAssumption
    <3>4. LoopOK(next, r, reported, socket)
      <4>1. r \in Seq(Pointers) /\ call.next <= call.end /\ LoopOK(call, r, reported, socket)
        BY <1>3, <1>6, <2>1, <2>2, <3>1 DEF r
      <4> QED
        BY <1>3, <1>4, <3>2, <3>3, <4>1, Advanced
    <3> QED
      BY <1>1, <1>3, <1>5, <1>8, <1>10, <2>5, <2>6, <3>1, <3>4, LoopsStep DEF QuietInv
  <2>10. RemovesOK'
    <3>1. ASSUME NEW other \in Call, RemoveOK(other, q) PROVE RemoveOK(other, r)
      <4>1. NoClient \notin other.dead /\ CallFacts(other)
        BY CallTyped, ServerAssumption DEF CallFacts
      <4>2. \A i \in other.result..other.next - 1 : i \in 1..Len(q)
        BY <1>1, <3>1, <4>1 DEF RemoveOK, CallFacts
      <4> QED
        BY <2>5, <3>1, <4>1, <4>2 DEF RemoveOK
    <3>2. next.at # "remove"
      BY <1>4
    <3> QED
      BY <1>1, <1>3, <1>5, <1>10, <2>5, <3>1, <3>2, RemovesStep DEF QuietInv
  <2>11. BackOK'
    <3> SUFFICES ASSUME accept.at \in {"pushed", "named", "hook"} PROVE BackOK'
      BY <1>8 DEF BackOK
    <3>1. /\ InCall(t)' /\ Top(t)' = next
          /\ \A u \in Threads : u # t => InCall(u)' = InCall(u) /\ Top(u)' = Top(u)
      BY <1>1, <1>3, <1>5, CallsTops
    <3>2. accept.conn \notin reported \cup {NoClient}
      BY <2>4
    <3>3. Back1(q) => Back1(r)
      <4>1. q # <<>> => Len(q) \in 1..Len(q)
        BY <1>1
      <4> QED
        BY <1>1, <2>3, <2>5, <3>2, <4>1 DEF Back1
    <3>4. CASE t = Context
      <4>1. ~Moved /\ ~Moved'
        BY <1>2, <1>4, <3>1, <3>4 DEF Moved, At, call
      <4> QED
        BY <1>8, <1>10, <2>5, <3>3, <4>1 DEF QuietInv, BackOK, Back1
    <3>5. CASE t # Context
      <4>1. Moved' = Moved /\ Top(Context)' = Top(Context) /\ Context \in Threads
        BY <3>1, <3>5 DEF Moved, At, Threads
      <4>2. CASE Moved
        <5> DEFINE k == Top(Context).result - 1
        <5>1. Top(Context).result > 1 /\ q[k] = accept.conn
          BY <1>10, <4>2 DEF QuietInv, BackOK
        <5>2. k \in 1..Len(q)
          <6>1. RemoveOK(Top(Context), q) /\ CallFacts(Top(Context))
            BY <1>1, <1>10, <4>1, <4>2, MetFacts DEF QuietInv, RemovesOK, Moved, At
          <6> QED
            BY <1>1, <5>1, <6>1 DEF RemoveOK, CallFacts
        <5>3. r[k] = accept.conn
          BY <2>3, <2>5, <3>2, <5>1, <5>2
        <5> QED
          BY <1>8, <2>5, <4>1, <4>2, <5>1, <5>3 DEF BackOK
      <4>3. CASE ~Moved
        BY <1>8, <1>10, <2>5, <3>3, <4>1, <4>3 DEF QuietInv, BackOK, Back1
      <4> QED
        BY <4>2, <4>3
    <3> QED
      BY <3>4, <3>5
  <2> QED
    BY <2>7, <2>8, <2>9, <2>10, <2>11 DEF QuietInv
<1> QED
  BY <1>8, <1>9, <1>10 DEF ServerInv

\* The loop is over, or the hook of MessageClient has returned.
LEMMA BeginRemoveInv ==
  ASSUME ServerInv, NEW t \in Threads, InCall(t), BeginRemove(t), Top(t).at # "remove",
         UNCHANGED <<connVars, acceptVars, m_deqConns, reported, nCalls, endVars>>,
         QuietInv /\ Top(t).name = "all" =>
             \A i \in 1..Len(m_deqConns) : m_deqConns[i] \notin Top(t).dead
  PROVE  ServerInv'
<1> DEFINE call == Top(t)
           next == [call EXCEPT !.at = "remove", !.next = 1, !.result = 1,
                                !.end = Len(m_deqConns)]
<1>1. BaseInv /\ TypeOK /\ Len(m_deqConns) \in Nat /\ reported \subseteq approved
  BY BaseFacts DEF ServerInv
<1>2. call \in Call /\ Len(calls[t]) - 1 \in Nat
  BY <1>1, TopCall
<1>3. Continue(t, next)
  BY DEF BeginRemove
<1> HIDE DEF call
<1>4. /\ next \in Call /\ next.at = "remove" /\ next.next = 1 /\ next.result = 1
      /\ next.end = Len(m_deqConns) /\ next.name = call.name /\ next.dead = call.dead
  <2>1. /\ next \in Call /\ SameCall(call, next) /\ next.at = "remove"
        /\ next.next = 1 /\ next.result = 1 /\ next.end = Len(m_deqConns)
    BY <1>1, <1>2, RemoveBegun, Zenon
  <2> HIDE DEF next
  <2> QED
    BY <2>1 DEF SameCall
<1> HIDE DEF next
<1>5. CallsAre(t, Len(calls[t]) - 1, next)
  BY <1>1, <1>3, <1>4, Continued
<1>6. UNCHANGED <<accept, overlapped, lost>>
  BY DEF acceptVars, endVars
<1>7. Nested'
  BY <1>1, <1>2, <1>5, <1>6, NestedCall
<1>8. ASSUME QuietInv
      PROVE  /\ \A c \in reported : c \in connected /\ socket[c] = "closed"
             /\ ~InLoop(next) /\ RemoveOK(next, m_deqConns)
             /\ (t = Context => ~Moved)
             /\ (t = Context /\ accept.at \in {"pushed", "named", "hook"}
                    => next.next <= next.end)
  <2>1. t = Context => ~Moved
    BY DEF Moved, At
  <2>2. t = Context /\ accept.at \in {"pushed", "named", "hook"} => 1 <= Len(m_deqConns)
    BY <1>1, <1>8, <2>1, BaseFacts DEF QuietInv, BackOK, Back1
  <2>3. RemoveOK(next, m_deqConns)
    BY <1>1, <1>4, <1>8 DEF RemoveOK, call
  <2> QED
    BY <1>1, <1>4, <1>8, <2>1, <2>2, <2>3, QuietFacts DEF InLoop
<1>9. nCalls' \in 0..MaxCalls /\ lost' \in BOOLEAN
  BY <1>1, <1>6 DEF TypeOK
<1> QED
  BY <1>1, <1>2, <1>5, <1>6, <1>7, <1>8, <1>9, CallStep

\* The call returns, and m_deqConns stays as it is.
LEMMA LeaveInv ==
  ASSUME ServerInv, NEW t \in Threads, InCall(t), Leave(t),
         UNCHANGED <<connVars, acceptVars, m_deqConns, reported, nCalls, overlapped>>,
         lost' \in BOOLEAN, QuietInv /\ t = Context => ~Moved
  PROVE  ServerInv'
<1>1. BaseInv /\ TypeOK /\ AcceptBase /\ m_deqConns \in Seq(Pointers)
      /\ reported \subseteq approved
  BY BaseFacts DEF ServerInv, BaseInv
<1>2. UNCHANGED <<socket, closing, aborted, accept, approved, connected, m_deqConns,
                  reported, overlapped>>
  BY DEF connVars, acceptVars
<1>3. CallsLeft(t)
  BY <1>1, Left
<1>4. BaseInv'
  <2>1. Owned' /\ Nested'
    BY <1>1, <1>2, <1>3, NestedLeft DEF BaseInv, Owned
  <2>2. /\ calls' \in [Threads -> Seq(Call)] /\ overlapped' \in BOOLEAN
        /\ nCalls' \in 0..MaxCalls
        /\ socket' \in [Clients -> {"none", "knocking", "open", "closed"}]
    BY <1>1, <1>2, <1>3 DEF CallsLeft, TypeOK
  <2>3. \A c \in approved : socket'[c] \in {"open", "closed"}
    BY <1>1, <1>2 DEF AcceptBase
  <2> QED
    BY <1>1, <1>2, <2>1, <2>2, <2>3, RosterBase
<1>5. ASSUME QuietInv PROVE QuietInv'
  <2>1. AcceptInv' /\ Listed'
    BY <1>1, <1>2, <1>5, QuietFacts, AcceptKept DEF QuietInv, Listed
  <2>2. LoopsOK' /\ RemovesOK'
    BY <1>1, <1>2, <1>3, <1>5, LoopsLeft, RemovesLeft DEF QuietInv
  <2>3. BackOK'
    <3>1. /\ InCall(t)' => Top(t)'.at = "hook"
          /\ \A u \in Threads : u # t => InCall(u)' = InCall(u) /\ Top(u)' = Top(u)
      BY <1>1, <1>3, LeftTops DEF BaseInv
    <3>2. CASE t = Context
      <4>1. ~Moved /\ ~Moved'
        BY <1>5, <3>1, <3>2 DEF Moved, At
      <4> QED
        BY <1>2, <1>5, <4>1 DEF QuietInv, BackOK, Back1
    <3>3. CASE t # Context
      <4>1. Moved' = Moved /\ Top(Context)' = Top(Context)
        BY <3>1, <3>3 DEF Moved, At, Threads
      <4> QED
        BY <1>2, <1>5, <4>1 DEF QuietInv, BackOK, Back1
    <3> QED
      BY <3>2, <3>3
  <2> QED
    BY <2>1, <2>2, <2>3 DEF QuietInv
<1> QED
  BY <1>2, <1>4, <1>5 DEF ServerInv

LEMMA EndLoopInv ==
  ASSUME ServerInv, NEW t \in Threads, EndLoop(t)
  PROVE  /\ ServerInv'
         /\ QuietInv => \A i \in 1..Len(m_deqConns) : m_deqConns[i] \notin Top(t).dead
<1>1. /\ InCall(t) /\ Top(t).at = "loop" /\ Top(t).next > Top(t).end
      /\ UNCHANGED <<connVars, acceptVars, m_deqConns, reported, nCalls, endVars>>
  BY DEF EndLoop, At
<1>2. BaseInv /\ TypeOK
  BY DEF ServerInv, BaseInv
<1>3. ASSUME QuietInv
      PROVE  \A i \in 1..Len(m_deqConns) : m_deqConns[i] \notin Top(t).dead
  <2>1. LoopOK(Top(t), m_deqConns, reported, socket) /\ CallFacts(Top(t))
    BY <1>1, <1>2, <1>3, TopCall, MetFacts DEF QuietInv, LoopsOK, InLoop
  <2>2. \A i \in Int : i < Top(t).next \/ i > Top(t).end
    BY <1>1, <2>1 DEF CallFacts
  <2> QED
    BY <2>1, <2>2 DEF LoopOK, Swept
<1>4. CASE Top(t).bInvalidClientExists
  BY <1>1, <1>3, <1>4, BeginRemoveInv DEF EndLoop
<1>5. CASE ~Top(t).bInvalidClientExists
  <2>1. Leave(t) /\ UNCHANGED <<overlapped, lost>>
    BY <1>1, <1>5 DEF EndLoop, endVars
  <2>2. t = Context => ~Moved
    BY <1>1 DEF Moved, At
  <2>3. lost' \in BOOLEAN
    BY <1>2, <2>1 DEF TypeOK
  <2> QED
    BY <1>1, <1>3, <2>1, <2>2, <2>3, LeaveInv
<1> QED
  BY <1>3, <1>4, <1>5

LEMMA EndOneInv ==
  ASSUME ServerInv, NEW t \in Threads, EndOne(t)
  PROVE  ServerInv'
BY BeginRemoveInv DEF EndOne, At

LEMMA RemoveNullInv ==
  ASSUME ServerInv, NEW t \in Threads, RemoveNull(t)
  PROVE  ServerInv'
<1> DEFINE call == Top(t)
           q == m_deqConns
           past == Advance(call)
           next == [past EXCEPT !.result = @ + 1]
<1>1. /\ BaseInv /\ TypeOK /\ q \in Seq(Pointers) /\ Len(q) \in Nat /\ DOMAIN q = 1..Len(q)
      /\ reported \subseteq approved /\ NoClient \notin approved
  BY BaseFacts DEF ServerInv
<1>2. /\ InCall(t) /\ call.at = "remove" /\ call.next <= call.end
      /\ UNCHANGED <<closing, aborted, acceptVars, reported, nCalls>>
  BY DEF RemoveNull, At
<1>3. /\ call \in Call /\ CallFacts(call) /\ Len(calls[t]) - 1 \in Nat
      /\ (Inside(call.next) => call.next \in 1..Len(q) /\ Met(t) = q[call.next])
      /\ (~Inside(call.next) => Met(t) = NoClient)
      /\ Met(t) \in approved \cup {NoClient}
  BY <1>1, <1>2, MetFacts, TopCall
<1>4. UNCHANGED <<accept, approved, connected, reported>>
  BY <1>2 DEF acceptVars
<1>5. ASSUME QuietInv PROVE RemoveOK(call, q) /\ Inside(call.next)
  <2>1. RemoveOK(call, q)
    BY <1>2, <1>5 DEF QuietInv, RemovesOK, At
  <2> QED
    BY <1>2, <1>3, <2>1 DEF RemoveOK, CallFacts, Inside
<1>6. \/ /\ Met(t) = NoClient /\ Continue(t, past)
         /\ Risk(~Inside(call.next)) /\ UNCHANGED <<socket, q, overlapped>>
      \/ /\ Met(t) # NoClient /\ Continue(t, next)
         /\ Becomes(t, Shifted(q, call.result, call.next), FALSE)
         /\ overlapped' = (overlapped \/ (q' # q /\ InUse(t)))
  <2>1. Met(t) # NoClient =>
           [i \in DOMAIN q |-> IF i = call.result THEN Met(t)
                               ELSE IF i = call.next THEN NoClient ELSE q[i]]
              = Shifted(q, call.result, call.next)
    BY <1>3 DEF Shifted
  <2> QED
    BY <2>1 DEF RemoveNull
<1>7. /\ past \in Call /\ past.next = call.next + 1 /\ past.at = "remove"
      /\ past.end = call.end /\ past.result = call.result
      /\ past.name = call.name /\ past.dead = call.dead
  <2>1. past = [call EXCEPT !.next = call.next + 1] /\ call.next + 1 \in Nat \ {0}
    BY <1>3 DEF Advance, CallFacts
  <2> HIDE DEF past, call
  <2> QED
    BY <1>2, <1>3, <2>1, NextSet DEF SameCall, call
<1> HIDE DEF call, past
<1>8. /\ next \in Call /\ next.next = call.next + 1 /\ next.at = "remove"
      /\ next.end = call.end /\ next.result = call.result + 1
      /\ next.name = call.name /\ next.dead = call.dead
  <2>1. next = [past EXCEPT !.result = past.result + 1] /\ past.result + 1 \in Nat \ {0}
    BY <1>3, <1>7 DEF CallFacts
  <2> HIDE DEF next
  <2> QED
    BY <1>7, <2>1, ResultSet DEF SameCall
<1> HIDE DEF next
<1>9. CASE /\ Met(t) = NoClient /\ Continue(t, past)
           /\ Risk(~Inside(call.next)) /\ UNCHANGED <<socket, q, overlapped>>
  <2>1. CallsAre(t, Len(calls[t]) - 1, past)
    BY <1>1, <1>2, <1>7, <1>9, Continued
  <2>2. Nested'
    BY <1>1, <1>2, <1>3, <1>4, <2>1, NestedCall
  <2>3. nCalls' \in 0..MaxCalls /\ lost' \in BOOLEAN /\ UNCHANGED connVars
    <3>1. (~Inside(call.next)) \in BOOLEAN
      OBVIOUS
    <3>2. lost' \in BOOLEAN
      BY <1>9, <3>1, Risked
    <3> QED
      BY <1>1, <1>2, <1>9, <3>2 DEF TypeOK, connVars
  <2>4. ASSUME QuietInv
        PROVE  /\ \A c \in reported : c \in connected /\ socket[c] = "closed"
               /\ ~InLoop(past) /\ RemoveOK(past, q)
               /\ (t = Context => ~Moved)
               /\ (t = Context /\ accept.at \in {"pushed", "named", "hook"}
                      => past.next <= past.end)
    <3>1. RemoveOK(call, q) /\ q[call.next] = NoClient /\ call.next \in 1..Len(q)
      BY <1>3, <1>5, <1>9, <2>4
    <3>2. RemoveOK(past, q)
      <4>1. ASSUME NEW i \in past.result..past.next - 1 PROVE q[i] = NoClient
        <5>1. i \in call.result..call.next - 1 \/ i = call.next
          BY <1>3, <1>7, <4>1 DEF CallFacts
        <5> QED
          BY <3>1, <5>1 DEF RemoveOK
      <4>2. past.next \in 1..past.end + 1 /\ past.result \in 1..past.next
        BY <1>2, <1>3, <1>7, <3>1 DEF RemoveOK, CallFacts
      <4> QED
        BY <1>7, <3>1, <4>1, <4>2 DEF RemoveOK
    <3>3. t = Context => ~Moved
      BY <1>2, <1>3 DEF Moved, call, CallFacts
    <3>4. t = Context /\ accept.at \in {"pushed", "named", "hook"} => past.next <= past.end
      <4> SUFFICES ASSUME t = Context, accept.at \in {"pushed", "named", "hook"},
                          ~(past.next <= past.end)
                   PROVE  FALSE
        OBVIOUS
      <4>1. q[Len(q)] = accept.conn
        BY <2>4, <3>3 DEF QuietInv, BackOK, Back1
      <4>2. call.next = Len(q)
        BY <1>1, <1>2, <1>3, <1>7, <3>1 DEF RemoveOK, CallFacts
      <4> QED
        BY <1>1, <2>4, <3>1, <4>1, <4>2, QuietFacts
    <3> QED
      BY <1>1, <1>7, <2>4, <3>2, <3>3, <3>4, QuietFacts DEF InLoop
  <2> QED
    BY <1>1, <1>2, <1>3, <1>4, <1>7, <1>9, <2>1, <2>2, <2>3, <2>4, CallStep
<1>10. CASE /\ Met(t) # NoClient /\ Continue(t, next)
            /\ Becomes(t, Shifted(q, call.result, call.next), FALSE)
            /\ overlapped' = (overlapped \/ (q' # q /\ InUse(t)))
  <2> DEFINE r == Shifted(q, call.result, call.next)
             k == call.result
             n == call.next
  <2>1. n \in 1..Len(q) /\ Met(t) = q[n] /\ q[n] # NoClient
    BY <1>3, <1>10
  <2>2. /\ r \in Seq(Pointers) /\ Len(r) = Len(q) /\ DOMAIN r = 1..Len(q)
        /\ \A i \in 1..Len(q) : r[i] = IF i = k THEN q[n] ELSE IF i = n THEN NoClient ELSE q[i]
    BY <1>1, <2>1, ShiftedSeq
  <2>3. \A S : \A f : OwnedBy(f, q, S) => \E g : OwnedBy(g, r, S)
    BY <1>1, <2>1, ShiftedOwned
  <2> HIDE DEF r
  <2>4. /\ q' = r /\ lost' \in BOOLEAN
        /\ socket' \in [Clients -> {"none", "knocking", "open", "closed"}]
        /\ \A c \in Clients : c \notin approved => socket'[c] = socket[c]
        /\ \A c \in approved : socket'[c] \in {"open", "closed"}
        /\ (\A c \in Range(q) : c \in Range(r) \cup {NoClient} \/ socket[c] = "closed")
              => socket' = socket
    <3>1. Becomes(t, r, FALSE) /\ FALSE \in BOOLEAN
      BY <1>10 DEF r
    <3> QED
      BY <1>1, <3>1, Dropped
  <2>5. CallsAre(t, Len(calls[t]) - 1, next)
    BY <1>1, <1>2, <1>8, <1>10, Continued
  <2>6. BaseInv'
    <3>1. Owned'
      BY <1>1, <1>4, <2>3, <2>4 DEF BaseInv, Owned
    <3>2. Nested'
      BY <1>1, <1>2, <1>3, <1>4, <2>5, NestedCall
    <3>3. /\ calls' \in [Threads -> Seq(Call)] /\ nCalls' \in 0..MaxCalls
          /\ overlapped' \in BOOLEAN
      BY <1>1, <1>2, <1>10, <2>5 DEF TypeOK, CallsAre
    <3> QED
      BY <1>1, <1>2, <1>4, <2>2, <2>4, <3>1, <3>2, <3>3, RosterBase
  <2>7. ASSUME ~overlapped' PROVE QuietInv'
    <3>1. QuietInv /\ (q' = q \/ ~InUse(t))
      BY <1>10, <2>7 DEF ServerInv
    <3>2. RemoveOK(call, q)
      BY <1>5, <3>1
    <3>3. /\ k \in 1..n /\ call.end = Len(q) /\ n \in 1..call.end
          /\ \A i \in k..n - 1 : q[i] = NoClient
      BY <1>2, <1>3, <2>1, <3>2 DEF RemoveOK, CallFacts
    \* What is moved was not there before, and what it is moved over is null.
    <3>4. \A i \in 1..Len(q) : q[i] # NoClient =>
             \/ i # k /\ i # n /\ r[i] = q[i]
             \/ i = n /\ r[k] = q[i]
      <4>1. k # n => q[k] = NoClient
        BY <1>1, <3>3
      <4> QED
        BY <2>2, <3>3, <4>1
    <3>5. socket' = socket
      <4>1. ASSUME NEW c \in Range(q) PROVE c \in Range(r) \cup {NoClient}
        <5>1. PICK i \in 1..Len(q) : q[i] = c
          BY <1>1, <4>1 DEF Range
        <5>2. k \in 1..Len(q)
          BY <1>1, <3>3
        <5> QED
          BY <2>2, <3>4, <5>1, <5>2 DEF Range
      <4> QED
        BY <2>4, <4>1
    <3>6. AcceptInv'
      BY <1>1, <1>2, <1>4, <3>1, <3>5, QuietFacts, AcceptKept DEF QuietInv
    <3>7. Listed'
      <4> SUFFICES ASSUME NEW c \in approved, c \notin reported
                   PROVE  \E i \in 1..Len(r) : r[i] = c
        BY <1>4, <2>4 DEF Listed
      <4>1. PICK i \in 1..Len(q) : q[i] = c
        BY <3>1 DEF QuietInv, Listed
      <4>2. k \in 1..Len(q)
        BY <1>1, <3>3
      <4> QED
        BY <1>1, <2>2, <3>4, <4>1, <4>2
    <3>8. RemoveOK(next, r)
      <4>1. next.next \in 1..next.end + 1 /\ next.result \in 1..next.next /\ next.end = Len(r)
        BY <1>1, <1>8, <2>2, <3>3
      <4>2. ASSUME NEW i \in next.result..next.next - 1 PROVE r[i] = NoClient
        <5>1. i \in k + 1..n /\ i \in 1..Len(q) /\ i # k
          BY <1>1, <1>8, <3>3, <4>2
        <5>2. i = n \/ q[i] = NoClient
          BY <3>3, <5>1
        <5> QED
          BY <2>2, <5>1, <5>2
      <4>3. ASSUME next.name = "all", NEW i \in 1..Len(r) PROVE r[i] \notin next.dead
        <5>1. \A j \in 1..Len(q) : q[j] \notin next.dead
          BY <1>8, <3>2, <4>3 DEF RemoveOK
        <5>2. NoClient \notin next.dead
          BY <1>3, <1>8, ServerAssumption DEF CallFacts
        <5> QED
          BY <2>1, <2>2, <5>1, <5>2
      <4> QED
        BY <4>1, <4>2, <4>3 DEF RemoveOK
    <3>9. LoopsOK' /\ RemovesOK'
      <4>1. CASE q' = q
        <5>1. \A other \in Call : LoopOK(other, q, reported, socket)
                                     => LoopOK(other, q', reported', socket')
          BY <1>4, <3>5, <4>1
        <5>2. ~InLoop(next)
          BY <1>8 DEF InLoop
        <5>3. RemoveOK(next, q')
          BY <2>4, <3>8
        <5> QED
          BY <1>1, <1>3, <2>5, <3>1, <4>1, <5>1, <5>2, <5>3, LoopsStep, RemovesStep
          DEF QuietInv
      <4>2. CASE ~InUse(t)
        BY <1>1, <1>2, <1>8, <2>4, <2>5, <3>8, <4>2, OnlyOne
      <4> QED
        BY <3>1, <4>1, <4>2
    <3>10. BackOK'
      <4> SUFFICES ASSUME accept.at \in {"pushed", "named", "hook"} PROVE BackOK'
        BY <1>4 DEF BackOK
      <4>1. /\ InCall(t)' /\ Top(t)' = next
            /\ \A u \in Threads : u # t => InCall(u)' = InCall(u) /\ Top(u)' = Top(u)
        BY <1>1, <1>3, <2>5, CallsTops
      <4>2. CASE t = Context
        <5>1. ~Moved
          BY <1>2, <1>3, <4>2 DEF Moved, call, CallFacts
        <5>2. q # <<>> /\ q[Len(q)] = accept.conn
          BY <3>1, <5>1 DEF QuietInv, BackOK, Back1
        <5>3. Moved' <=> next.next > next.end
          BY <1>8, <4>1, <4>2 DEF Moved, At
        <5>4. Top(Context)' = next
          BY <4>1, <4>2
        <5>5. CASE n = Len(q)
          <6>1. k \in 1..Len(q) /\ k + 1 > 1 /\ k + 1 - 1 = k
            BY <1>1, <3>3, <5>5
          <6>2. r[k] = accept.conn
            BY <2>2, <5>2, <5>5, <6>1
          <6>3. next.result = k + 1 /\ next.next > next.end
            BY <1>1, <1>8, <3>3, <5>5
          <6>4. next.result > 1 /\ r[next.result - 1] = accept.conn
            BY <6>1, <6>2, <6>3
          <6> QED
            BY <1>4, <2>4, <5>3, <5>4, <6>3, <6>4 DEF BackOK
        <5>6. CASE n # Len(q)
          <6>1. Len(q) \in 1..Len(q) /\ Len(q) # k /\ Len(q) # n /\ ~(next.next > next.end)
            BY <1>1, <1>8, <3>3, <5>6
          <6>2. Back1(r)
            <7>1. r[Len(r)] = accept.conn /\ Len(r) # 0
              BY <2>2, <5>2, <6>1
            <7>2. r # <<>>
              BY <7>1
            <7> QED
              BY <7>1, <7>2 DEF Back1
          <6> QED
            BY <1>4, <2>4, <5>3, <6>1, <6>2 DEF BackOK, Back1
        <5> QED
          BY <5>5, <5>6
      <4>3. CASE t # Context
        <5>1. q' = q
          BY <1>1, <3>1, <4>3, NotInUse
        <5>2. Moved' = Moved /\ Top(Context)' = Top(Context)
          BY <4>1, <4>3 DEF Moved, At, Threads
        <5> QED
          BY <1>4, <3>1, <5>1, <5>2 DEF QuietInv, BackOK, Back1
      <4> QED
        BY <4>2, <4>3
    <3> QED
      BY <3>6, <3>7, <3>9, <3>10 DEF QuietInv
  <2> QED
    BY <2>6, <2>7 DEF ServerInv
<1> QED
  BY <1>6, <1>9, <1>10

LEMMA EraseInv ==
  ASSUME ServerInv, NEW t \in Threads, Erase(t)
  PROVE  /\ ServerInv'
         /\ ~overlapped' => /\ \A i \in 1..Len(m_deqConns) :
                                   Top(t).name = "all" => m_deqConns[i] \notin Top(t).dead
                            /\ Range(m_deqConns') \subseteq Range(m_deqConns)
<1> DEFINE call == Top(t)
           q == m_deqConns
           a == call.result - 1
<1>1. /\ BaseInv /\ TypeOK /\ q \in Seq(Pointers) /\ Len(q) \in Nat /\ DOMAIN q = 1..Len(q)
      /\ reported \subseteq approved /\ NoClient \notin approved
  BY BaseFacts DEF ServerInv
<1>2. /\ InCall(t) /\ call.at = "remove" /\ call.next > call.end /\ Leave(t)
      /\ UNCHANGED <<closing, aborted, acceptVars, reported, nCalls>>
  BY DEF Erase, At
<1>3. call \in Call /\ CallFacts(call)
  BY <1>1, <1>2, MetFacts
<1>4. UNCHANGED <<accept, approved, connected, reported>>
  BY <1>2 DEF acceptVars
<1>5. PICK last \in {call.end, Len(q)} :
         IF call.result <= last + 1 /\ Inside(last)
         THEN /\ Becomes(t, SubSeq(q, 1, a) \o SubSeq(q, last + 1, Len(q)), FALSE)
              /\ overlapped' = (overlapped \/ (q' # q /\ InUse(t)))
         ELSE lost' = TRUE /\ UNCHANGED <<socket, q, overlapped>>
  BY DEF Erase
<1>6. ASSUME QuietInv
      PROVE  RemoveOK(call, q) /\ last = Len(q) /\ call.result <= last + 1 /\ Inside(last)
  <2>1. RemoveOK(call, q)
    BY <1>2, <1>6 DEF QuietInv, RemovesOK, At
  <2> QED
    BY <1>1, <1>2, <1>3, <2>1 DEF RemoveOK, CallFacts, Inside
<1>7. last \in Nat /\ a \in Nat
  BY <1>1, <1>3 DEF CallFacts
<1>8. ASSUME ~overlapped'
      PROVE  \A i \in 1..Len(q) : call.name = "all" => q[i] \notin call.dead
  <2>1. QuietInv
    BY <1>5, <1>8 DEF ServerInv
  <2> QED
    BY <1>6, <2>1 DEF RemoveOK
<1> HIDE DEF call
<1>9. CASE ~(call.result <= last + 1 /\ Inside(last))
  <2>1. lost' = TRUE /\ UNCHANGED <<connVars, q, overlapped>> /\ ~QuietInv
    BY <1>2, <1>5, <1>6, <1>9 DEF connVars
  <2>2. lost' \in BOOLEAN
    BY <2>1
  <2>3. ServerInv'
    BY <1>2, <2>1, <2>2, LeaveInv
  <2> QED
    BY <1>8, <2>1, <2>3 DEF call
<1>10. CASE call.result <= last + 1 /\ Inside(last)
  <2> DEFINE r == Without(q, a, last)
  <2>1. a <= last /\ last <= Len(q)
    BY <1>3, <1>7, <1>10 DEF Inside, CallFacts
  <2>2. /\ r \in Seq(Pointers) /\ Len(r) = Len(q) - (last - a)
        /\ DOMAIN r = 1..Len(q) - (last - a)
        /\ \A i \in 1..Len(q) - (last - a) :
              r[i] = IF i <= a THEN q[i] ELSE q[i + (last - a)]
    <3> HIDE DEF a, q, r
    <3>1. q \in Seq(Pointers) /\ a \in Nat /\ last \in Nat /\ a <= last /\ last <= Len(q)
      BY <1>1, <1>7, <2>1, Zenon DEF q
    <3>2. LeavesOut(Without(q, a, last), q, a, last)
      BY <3>1, WithoutLeaves, Zenon
    <3>3. LeavesOut(r, q, a, last)
      BY <3>2, Zenon DEF r
    <3> QED
      BY <3>3 DEF LeavesOut
  <2>3. \A S : \A f : OwnedBy(f, q, S) => \E g : OwnedBy(g, r, S)
    BY <1>1, <1>7, <2>1, WithoutOwned, Zenon
  <2>4. /\ Becomes(t, r, FALSE) /\ FALSE \in BOOLEAN
        /\ overlapped' = (overlapped \/ (q' # q /\ InUse(t)))
    BY <1>5, <1>10 DEF Without
  <2> HIDE DEF r, a
  <2>5. /\ q' = r /\ lost' \in BOOLEAN
        /\ socket' \in [Clients -> {"none", "knocking", "open", "closed"}]
        /\ \A c \in Clients : c \notin approved => socket'[c] = socket[c]
        /\ \A c \in approved : socket'[c] \in {"open", "closed"}
        /\ (\A c \in Range(q) : c \in Range(r) \cup {NoClient} \/ socket[c] = "closed")
              => socket' = socket
    BY <1>1, <2>4, Dropped
  <2>6. CallsLeft(t)
    BY <1>1, <1>2, Left
  <2>7. BaseInv'
    <3>1. Owned'
      BY <1>1, <1>4, <2>3, <2>5 DEF BaseInv, Owned
    <3>2. Nested'
      BY <1>1, <1>2, <1>4, <2>6, NestedLeft
    <3>3. /\ calls' \in [Threads -> Seq(Call)] /\ nCalls' \in 0..MaxCalls
          /\ overlapped' \in BOOLEAN
      BY <1>1, <1>2, <2>4, <2>6 DEF TypeOK, CallsLeft
    <3> QED
      BY <1>1, <1>2, <1>4, <2>2, <2>5, <3>1, <3>2, <3>3, RosterBase
  <2>8. ASSUME ~overlapped' PROVE QuietInv' /\ Range(q') \subseteq Range(q)
    <3>1. QuietInv /\ (q' = q \/ ~InUse(t))
      BY <2>4, <2>8 DEF ServerInv
    <3>2. RemoveOK(call, q) /\ last = Len(q)
      BY <1>6, <3>1
    <3>3. /\ Len(r) = a /\ DOMAIN r = 1..a /\ a <= Len(q)
          /\ \A i \in 1..a : r[i] = q[i]
      BY <1>1, <1>7, <2>1, <2>2, <3>2
    <3>4. \A i \in 1..Len(q) : i \in 1..a \/ q[i] = NoClient
      <4>1. \A i \in 1..Len(q) : i \in 1..a \/ i \in call.result..call.next - 1
        BY <1>1, <1>2, <1>3, <3>2 DEF RemoveOK, CallFacts, a, call
      <4> QED
        BY <3>2, <4>1 DEF RemoveOK
    <3>5. Range(q') \subseteq Range(q)
      <4>1. \A i \in 1..a : i \in 1..Len(q)
        <5>1. \A m, n \in Nat : m <= n => \A i \in 1..m : i \in 1..n
          OBVIOUS
        <5> QED
          BY <1>1, <1>7, <3>3, <5>1
      <4> QED
        BY <1>1, <2>5, <3>3, <4>1 DEF Range
    <3>6. socket' = socket
      <4>1. ASSUME NEW c \in Range(q) PROVE c \in Range(r) \cup {NoClient}
        BY <1>1, <3>3, <3>4, <4>1 DEF Range
      <4> QED
        BY <2>5, <4>1
    <3>7. AcceptInv'
      BY <1>1, <1>2, <1>4, <3>1, <3>6, QuietFacts, AcceptKept DEF QuietInv
    <3>8. Listed'
      <4> SUFFICES ASSUME NEW c \in approved, c \notin reported
                   PROVE  \E i \in 1..Len(r) : r[i] = c
        BY <1>4, <2>5 DEF Listed
      <4>1. PICK i \in 1..Len(q) : q[i] = c
        BY <3>1 DEF QuietInv, Listed
      <4> QED
        BY <1>1, <3>3, <3>4, <4>1
    <3>9. LoopsOK' /\ RemovesOK'
      <4>1. CASE q' = q
        BY <1>1, <1>2, <1>4, <2>6, <3>1, <3>6, <4>1, LoopsLeft, RemovesLeft DEF QuietInv
      <4>2. CASE ~InUse(t)
        BY <1>1, <1>2, <2>6, <4>2, NoneLeft
      <4> QED
        BY <3>1, <4>1, <4>2
    <3>10. BackOK'
      <4> SUFFICES ASSUME accept.at \in {"pushed", "named", "hook"} PROVE BackOK'
        BY <1>4 DEF BackOK
      <4>1. /\ InCall(t)' => Top(t)'.at = "hook"
            /\ \A u \in Threads : u # t => InCall(u)' = InCall(u) /\ Top(u)' = Top(u)
        BY <1>1, <1>2, <2>6, LeftTops DEF BaseInv
      <4>2. CASE t = Context
        <5>1. call.result > 1 /\ q[a] = accept.conn
          BY <1>2, <3>1, <4>2 DEF QuietInv, BackOK, Moved, At, call, a
        <5>2. ~Moved'
          BY <4>1, <4>2 DEF Moved, At
        <5>3. a \in 1..a
          BY <1>3, <1>7, <5>1 DEF a, CallFacts
        <5>4. r[Len(r)] = accept.conn /\ r # <<>>
          BY <1>7, <2>2, <3>3, <5>1, <5>3
        <5> QED
          BY <1>4, <2>5, <5>2, <5>4 DEF BackOK, Back1
      <4>3. CASE t # Context
        <5>1. q' = q
          BY <1>1, <3>1, <4>3, NotInUse
        <5>2. Moved' = Moved /\ Top(Context)' = Top(Context)
          BY <4>1, <4>3 DEF Moved, At, Threads
        <5> QED
          BY <1>4, <3>1, <5>1, <5>2 DEF QuietInv, BackOK, Back1
      <4> QED
        BY <4>2, <4>3
    <3> QED
      BY <3>5, <3>7, <3>8, <3>9, <3>10 DEF QuietInv
  <2> QED
    BY <1>8, <2>7, <2>8 DEF ServerInv, call
<1> QED
  BY <1>9, <1>10

-----------------------------------------------------------------------------
LEMMA ServerInvStep == ServerInv /\ [Next]_vars => ServerInv'
<1> SUFFICES ASSUME ServerInv, [Next]_vars PROVE ServerInv'
    OBVIOUS
<1>1. CASE Environment
  <2>1. CASE \E c \in Clients : Knock(c) \/ ConnectionLost(c) \/ Disconnect(c)
    BY <2>1, HandlerStepInv DEF HandlerStep
  <2>2. ASSUME NEW t \in Threads, NEW p \in Pointers, BeginAll(t, p) PROVE ServerInv'
    BY <2>2, BeginAllInv
  <2>3. ASSUME NEW t \in Threads, NEW c \in Clients, BeginOne(t, c) PROVE ServerInv'
    BY <2>3, BeginOneInv
  <2> QED
    BY <1>1, <2>1, <2>2, <2>3 DEF Environment
<1>2. ASSUME NEW t \in Threads, Step(t)
      PROVE  ServerInv'
  <2>1. CASE Loop(t)
    BY <2>1, LoopInv
  <2>2. CASE Reset(t)
    BY <2>2, ResetInv
  <2>3. CASE EndLoop(t) \/ EndOne(t)
    BY <2>3, EndLoopInv, EndOneInv
  <2>4. CASE RemoveNull(t)
    BY <2>4, RemoveNullInv
  <2>5. CASE Erase(t)
    BY <2>5, EraseInv
  <2>6. CASE Approve
    BY <2>6, ApproveInv
  <2>7. CASE Deny \/ ConnectToClient \/ OnClientConnected \/ WaitForClientConnection
    BY <2>7, HandlerStepInv DEF HandlerStep
  <2>8. CASE \E c \in Clients :
                Accept(c) \/ AcceptThrows(c) \/ AcceptFails(c)
                    \/ RunClose(c) \/ AbortedHandlers(c)
    BY <2>8, HandlerStepInv DEF HandlerStep
  <2> QED
    BY <1>2, <2>1, <2>2, <2>3, <2>4, <2>5, <2>6, <2>7, <2>8 DEF Step
<1>3. CASE UNCHANGED vars
  <2>1. /\ UNCHANGED <<socket, closing, aborted, armed, accept, approved, m_idCounter, id,
                       connected>>
        /\ UNCHANGED <<m_deqConns, calls, nCalls, reported, overlapped, lost>>
    BY <1>3 DEF vars, connVars, acceptVars, rosterVars, endVars
  <2>2. BaseInv'
    BY <2>1 DEF ServerInv, BaseInv, TypeOK, AcceptBase, Owned, Nested, InCall
  <2>3. QuietInv => AcceptInv' /\ Listed' /\ LoopsOK'
    BY <2>1 DEF QuietInv, AcceptInv, Listed, LoopsOK
  <2>4. QuietInv => BackOK' /\ RemovesOK'
    BY <2>1 DEF QuietInv, BackOK, Moved, Back1, RemovesOK, At, InCall, Top
  <2> QED
    BY <2>1, <2>2, <2>3, <2>4 DEF ServerInv, QuietInv
<1> QED
  BY <1>1, <1>2, <1>3 DEF Next

\* TCPServer: the inductive invariant.
THEOREM ServerInvariant == Spec => []ServerInv
<1>1. Init => ServerInv
  BY ServerInit
<1>2. ServerInv /\ [Next]_vars => ServerInv'
  BY ServerInvStep
<1> QED
  BY <1>1, <1>2, PTL DEF Spec

\* TCPServer: every variable keeps its type, and m_deqConns never holds more
\* elements than there are clients, however many nulls loops have left in it
\* and however removes and erases have overlapped.
THEOREM TypeCorrect == Spec => []TypeOK
<1>1. ServerInv => TypeOK
  BY DEF ServerInv, BaseInv
<1> QED
  BY <1>1, ServerInvariant, PTL

\* MessageClient and MessageAllClients: a connection leaves m_deqConns only
\* after OnClientDisconnected was called for it, for any number of threads in
\* loops, calls inside hooks and push_backs, up to the first remove or erase
\* that changes m_deqConns under somebody else.
THEOREM NothingDropped == Spec => []NoSilentDrop
<1>1. ServerInv => NoSilentDrop
  <2> SUFFICES ASSUME ServerInv, ~overlapped, NEW c \in approved \ reported
               PROVE  c \in Range(m_deqConns)
    BY DEF NoSilentDrop
  <2>1. PICK i \in 1..Len(m_deqConns) : m_deqConns[i] = c
    BY DEF ServerInv, QuietInv, Listed
  <2> QED
    BY <2>1, BaseFacts DEF ServerInv, Range
<1> QED
  BY <1>1, ServerInvariant, PTL

\* WaitForClientConnection: after its push_back the accept handler finds its
\* own connection at m_deqConns.back(), also after a hook of its own that has
\* removed and erased, as long as no other thread's remove or erase was beside.
THEOREM BackIsAccepted == Spec => []BackIsNew
<1>1. ServerInv => BackIsNew
  BY BackFacts DEF ServerInv, BackIsNew
<1> QED
  BY <1>1, ServerInvariant, PTL

\* OnClientDisconnected comes after OnClientConnected of the same connection,
\* under the same condition.
THEOREM HooksOrdered == Spec => []HooksInOrder
<1>1. ServerInv => HooksInOrder
  BY DEF ServerInv, QuietInv, AcceptInv, HooksInOrder
<1> QED
  BY <1>1, ServerInvariant, PTL

\* m_deqConns: a client that is still connected is in it, and once, under the
\* same condition.
THEOREM RosterKept == Spec => []RosterKeepsLive
<1>1. ServerInv => RosterKeepsLive
  <2> SUFFICES ASSUME ServerInv, ~overlapped, NEW c \in approved, socket[c] = "open"
               PROVE  Cardinality({i \in DOMAIN m_deqConns : m_deqConns[i] = c}) = 1
    BY DEF RosterKeepsLive
  <2>1. c \notin reported /\ c # NoClient /\ DOMAIN m_deqConns = 1..Len(m_deqConns)
    BY BaseFacts, QuietFacts DEF ServerInv
  <2>2. PICK k \in DOMAIN m_deqConns : m_deqConns[k] = c
    BY <2>1 DEF ServerInv, QuietInv, Listed
  <2>3. ASSUME NEW i \in DOMAIN m_deqConns, m_deqConns[i] = c
        PROVE  i = k
    <3>1. PICK f : OwnedBy(f, m_deqConns, approved)
      BY DEF ServerInv, BaseInv, Owned
    <3>2. f[i] = c /\ f[k] = c
      BY <3>1, <2>1, <2>2, <2>3 DEF OwnedBy
    <3> QED
      BY <3>1, <3>2 DEF OwnedBy
  <2>4. {i \in DOMAIN m_deqConns : m_deqConns[i] = c} = {k}
    BY <2>2, <2>3
  <2> QED
    BY <2>4, FS_Singleton
<1> QED
  BY <1>1, ServerInvariant, PTL

\* MessageAllClients: when its loop is over, every client that was in
\* m_deqConns when it began and is still connected has been sent the message,
\* once, and the client to ignore not at all, whatever other threads have
\* appended and their loops and hooks have reset meanwhile.  A remove or an
\* erase that changed m_deqConns under it is what the condition leaves out.
THEOREM EveryoneMessaged == Spec => []BroadcastReaches
<1>1. ServerInv => BroadcastReaches
  <2> SUFFICES ASSUME ServerInv, ~overlapped, NEW t \in Threads,
                      At(t, "loop"), Top(t).next > Top(t).end,
                      NEW c \in Clients, c \in Range(Top(t).was), socket[c] = "open"
               PROVE  Cardinality({i \in DOMAIN Top(t).sentTo : Top(t).sentTo[i] = c})
                         = IF c = Top(t).ignore THEN 0 ELSE 1
    BY DEF BroadcastReaches, Reaches
  <2> DEFINE call == Top(t)
  <2>1. call \in Call /\ LoopOK(call, m_deqConns, reported, socket)
    <3>1. /\ Len(calls[t]) \in 1..Len(calls[t])
          /\ call = calls[t][Len(calls[t])] /\ call \in Call
      BY TopCall DEF ServerInv, BaseInv, At
    <3>2. InLoop(call)
      BY DEF At, InLoop
    <3> QED
      BY <3>1, <3>2 DEF ServerInv, QuietInv, LoopsOK
  <2>2. call.next > call.end /\ c \in Range(call.was)
    OBVIOUS
  <2> HIDE DEF call
  <2>3. CallFacts(call) /\ call.end = Len(call.was)
    BY <2>1, CallTyped DEF LoopOK, InRange
  <2>4. PICK i \in 1..call.end : call.was[i] = c
    BY <2>2, <2>3 DEF Range, CallFacts
  <2>5. i < call.next
    BY <2>2, <2>3, <2>4 DEF CallFacts
  <2>6. IF c # call.ignore THEN \E k : SentTo(call, c) = {k} ELSE SentTo(call, c) = {}
    BY <2>1, <2>4, <2>5 DEF LoopOK, Sent
  <2>7. Cardinality(SentTo(call, c)) = IF c = call.ignore THEN 0 ELSE 1
    BY <2>6, FS_Singleton, FS_EmptySet
  <2> QED
    BY <2>7 DEF SentTo, call
<1> QED
  BY <1>1, ServerInvariant, PTL

\* MessageAllClients: when it returns, no client that was disconnected before
\* it began is left in m_deqConns, unless a remove or an erase has overlapped.
THEOREM DeadSweptOut == Spec => BroadcastSweeps
<1> DEFINE Sweeps(t) ==
             /\ InCall(t) /\ Top(t).name = "all" /\ Len(calls'[t]) < Len(calls[t])
             /\ ~overlapped'
             => Range(m_deqConns') \cap Top(t).dead = {}
<1>1. ServerInv /\ [Next]_vars => [\A t \in Threads : Sweeps(t)]_vars
  <2> SUFFICES ASSUME ServerInv, Next, NEW t \in Threads, InCall(t), Top(t).name = "all",
                      Len(calls'[t]) < Len(calls[t]), ~overlapped'
               PROVE  Range(m_deqConns') \cap Top(t).dead = {}
    OBVIOUS
  <2>1. BaseInv /\ TypeOK /\ DOMAIN m_deqConns = 1..Len(m_deqConns)
    BY BaseFacts DEF ServerInv
  <2>2. ASSUME NEW u \in Threads, NEW call, Enter(u, call) PROVE FALSE
    <3>1. CASE u = t
      <4>1. calls[t] \in Seq(Call) /\ calls'[t] = Append(calls[t], call)
        BY <2>1, <2>2, <3>1 DEF TypeOK, Enter
      <4> QED
        BY <4>1
    <3>2. CASE u # t
      BY <2>1, <2>2, <3>2 DEF TypeOK, Enter
    <3> QED
      BY <3>1, <3>2
  <2>3. ASSUME NEW u \in Threads, NEW call, InCall(u), Continue(u, call) PROVE FALSE
    <3>1. CASE u = t
      <4>1. /\ Front(calls[t]) \in Seq(Call) /\ Len(calls[t]) \in Nat
            /\ Len(Front(calls[t])) = Len(calls[t]) - 1
        BY <2>1, <2>3, <3>1, TopCall
      <4>2. calls'[t] = Append(Front(calls[t]), call)
        BY <2>1, <2>3, <3>1 DEF TypeOK, Continue
      <4> QED
        BY <4>1, <4>2
    <3>2. CASE u # t
      BY <2>1, <2>3, <3>2 DEF TypeOK, Continue
    <3> QED
      BY <3>1, <3>2
  <2>4. ASSUME NEW u \in Threads, u # t, Leave(u) PROVE FALSE
    BY <2>1, <2>4 DEF TypeOK, Leave
  <2>5. calls' # calls
    BY <2>1 DEF TypeOK
  <2>6. ~HandlerStep /\ ~Approve
    BY <2>5 DEF HandlerStep, Knock, Accept, AcceptThrows, AcceptFails, ConnectionLost,
                AbortedHandlers, Disconnect, RunClose, Deny, ConnectToClient,
                OnClientConnected, WaitForClientConnection, Approve, rosterVars
  <2>7. ASSUME NEW u \in Threads
        PROVE  /\ ~Loop(u) /\ ~Reset(u) /\ ~RemoveNull(u) /\ ~EndOne(u)
               /\ \A p \in Pointers : ~BeginAll(u, p)
               /\ \A c \in Clients : ~BeginOne(u, c)
               /\ EndLoop(u) \/ Erase(u) => u = t
    BY <2>2, <2>3, <2>4
    DEF Loop, At, Reset, RemoveNull, BeginAll, BeginOne, BeginRemove, EndLoop, EndOne, Erase
  <2>8. EndLoop(t) \/ Erase(t)
    BY <2>6, <2>7 DEF Next, Environment, Step, HandlerStep
  <2>9. CASE EndLoop(t)
    <3>1. UNCHANGED <<m_deqConns, overlapped>>
      BY <2>9 DEF EndLoop, endVars
    <3>2. \A i \in 1..Len(m_deqConns) : m_deqConns[i] \notin Top(t).dead
      BY <2>9, <3>1, EndLoopInv DEF ServerInv
    <3> QED
      BY <2>1, <3>1, <3>2 DEF Range
  <2>10. CASE Erase(t)
    <3>1. /\ \A i \in 1..Len(m_deqConns) : m_deqConns[i] \notin Top(t).dead
          /\ Range(m_deqConns') \subseteq Range(m_deqConns)
      BY <2>10, EraseInv
    <3> QED
      BY <2>1, <3>1 DEF Range
  <2> QED
    BY <2>8, <2>9, <2>10
<1> QED
  BY <1>1, ServerInvariant, PTL DEF Spec, BroadcastSweeps
=============================================================================
