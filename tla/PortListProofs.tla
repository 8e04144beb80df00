----------------------------- MODULE PortListProofs -----------------------------
(***************************************************************************)
(* Theorems about the port table, for any set of scanned ports and any     *)
(* scans that the options can ask for.                                     *)
(***************************************************************************)
EXTENDS PortList, FiniteSetTheorems, SequenceTheorems, TLAPS

--------------------------------------------------------------------------------
(* The table of one protocol.                                               *)

\* The values of the operations' argument L for a protocol.
Table(proto) ==
  [list : UNION {[D -> PortRecord] : D \in SUBSET Scanned[proto]},
   default_port_state : States, counts : [States -> Int]]

\* Its counts are those of its ports.
Exact(proto, L) ==
  \A s \in States :
    L.counts[s] = Cardinality({n \in Scanned[proto] : getPortState(L, n) = s})

\* The states a port may be given are states.
LEMMA StateTypes ==
  /\ LegalStates \subseteq States /\ PORT_TESTING \notin LegalStates /\ PORT_UNKNOWN \in States
  BY DEF LegalStates, States, PORT_UNKNOWN, PORT_CLOSED, PORT_OPEN, PORT_FILTERED, PORT_TESTING,
         PORT_UNFILTERED, PORT_OPENFILTERED, PORT_CLOSEDFILTERED

\* The scanned ports of a protocol are finitely many numbers.
LEMMA ScannedType ==
  ASSUME NEW proto \in Protos
  PROVE  Scanned[proto] \subseteq Nat /\ IsFiniteSet(Scanned[proto])
  BY ConstantsAssumption

\* What a record of the table is.
LEMMA TableFields ==
  ASSUME NEW proto \in Protos, NEW L \in Table(proto)
  PROVE  /\ DOMAIN L.list \subseteq Scanned[proto] /\ L.list \in [DOMAIN L.list -> PortRecord]
         /\ L.default_port_state \in States /\ L.counts \in [States -> Int]
         /\ \A n \in DOMAIN L.list : L.list[n] \in PortRecord /\ L.list[n].state \in LegalStates
                                     /\ L.list[n].reason \in Reasons
         /\ \A n : getPortState(L, n) \in States
<1>1. PICK D \in SUBSET Scanned[proto] : L.list \in [D -> PortRecord]
  BY DEF Table
<1>2. L.default_port_state \in States /\ L.counts \in [States -> Int]
  BY DEF Table
<1>3. \A n \in DOMAIN L.list : L.list[n] \in PortRecord
  BY <1>1
<1>4. \A n \in DOMAIN L.list : L.list[n].state \in LegalStates /\ L.list[n].reason \in Reasons
  BY <1>3 DEF PortRecord
<1> QED
  BY <1>1, <1>2, <1>3, <1>4, StateTypes DEF getPortState, Created

\* What the count of state s gains when k ports change from one state to another.
Gain(k, s, from, to) == (IF s = to THEN k ELSE 0) - (IF s = from THEN k ELSE 0)

\* Move() takes k from one count and adds it to another.
LEMMA MoveValue ==
  ASSUME NEW c \in [States -> Int], NEW from \in States, NEW to \in States, NEW k \in Int
  PROVE  /\ Move(c, from, to, k) \in [States -> Int]
         /\ \A s \in States : Move(c, from, to, k)[s] = c[s] + Gain(k, s, from, to)
<1> DEFINE b == [c EXCEPT ![from] = c[from] - k]
           d == [b EXCEPT ![to] = b[to] + k]
<1>1. b \in [States -> Int] /\ \A s \in States : b[s] = c[s] - (IF s = from THEN k ELSE 0)
  OBVIOUS
<1> HIDE DEF b
<1>2. d \in [States -> Int] /\ \A s \in States : d[s] = b[s] + (IF s = to THEN k ELSE 0)
  BY <1>1
<1>3. Move(c, from, to, k) = d
  BY DEF Move, b
<1> HIDE DEF d
<1>4. \A s \in States : d[s] = c[s] + Gain(k, s, from, to)
  BY <1>1, <1>2 DEF Gain
<1> QED
  BY <1>2, <1>3, <1>4

\* How many elements have which value, when those of D change from one value to another.
LEMMA CountsMove ==
  ASSUME NEW S, IsFiniteSet(S), NEW D \in SUBSET S, NEW f, NEW g, NEW from, NEW to, NEW s,
         \A n \in D : f[n] = from /\ g[n] = to, \A n \in S \ D : g[n] = f[n]
  PROVE  Cardinality({n \in S : g[n] = s}) =
           Cardinality({n \in S : f[n] = s}) + Gain(Cardinality(D), s, from, to)
<1> DEFINE F == {n \in S : f[n] = s}
           G == {n \in S : g[n] = s}
           R == {n \in S \ D : f[n] = s}
<1>1. IsFiniteSet(D) /\ IsFiniteSet(R)
  <2>1. R \in SUBSET S
    OBVIOUS
  <2> HIDE DEF R
  <2> QED
    BY <2>1, FS_Subset
<1>2. F = IF s = from THEN R \cup D ELSE R
  OBVIOUS
<1>3. G = IF s = to THEN R \cup D ELSE R
  OBVIOUS
<1>4. R \cap D = {}
  OBVIOUS
<1> HIDE DEF F, G, R
<1>5. Cardinality(R \cup D) = Cardinality(R) + Cardinality(D)
  <2>1. Cardinality(R \cup D) = Cardinality(R) + Cardinality(D) - Cardinality(R \cap D)
    BY <1>1, FS_Union
  <2>2. Cardinality(R \cap D) = 0
    BY <1>4, FS_EmptySet
  <2>3. Cardinality(R) \in Nat /\ Cardinality(D) \in Nat
    BY <1>1, FS_CardinalityType
  <2> QED
    BY <2>1, <2>2, <2>3
<1>6. Cardinality(R) \in Nat /\ Cardinality(D) \in Nat
  BY <1>1, FS_CardinalityType
<1>7. Cardinality(G) = Cardinality(F) + Gain(Cardinality(D), s, from, to)
  BY <1>2, <1>3, <1>5, <1>6 DEF Gain
<1> QED
  BY <1>7 DEF F, G

\* The counts stay exact when the ports of D change from one state to another and so
\* many are moved in the counts.
LEMMA Recount ==
  ASSUME NEW proto \in Protos, NEW L \in Table(proto), NEW M \in Table(proto),
         NEW D \in SUBSET Scanned[proto], NEW from \in States, NEW to \in States,
         \A n \in D : getPortState(L, n) = from /\ getPortState(M, n) = to,
         \A n \in Scanned[proto] \ D : getPortState(M, n) = getPortState(L, n),
         M.counts = Move(L.counts, from, to, Cardinality(D)), Exact(proto, L)
  PROVE  Exact(proto, M)
<1> DEFINE S == Scanned[proto]
           f == [n \in S |-> getPortState(L, n)]
           g == [n \in S |-> getPortState(M, n)]
<1>1. IsFiniteSet(S) /\ IsFiniteSet(D) /\ Cardinality(D) \in Int
  BY ScannedType, FS_Subset, FS_CardinalityType
<1>2. /\ \A n \in D : f[n] = from /\ g[n] = to
      /\ \A n \in S \ D : g[n] = f[n]
  OBVIOUS
<1>3. /\ \A s : {n \in S : getPortState(L, n) = s} = {n \in S : f[n] = s}
      /\ \A s : {n \in S : getPortState(M, n) = s} = {n \in S : g[n] = s}
  OBVIOUS
<1> HIDE DEF f, g
<1>4. ASSUME NEW s
      PROVE  Cardinality({n \in S : g[n] = s}) =
               Cardinality({n \in S : f[n] = s}) + Gain(Cardinality(D), s, from, to)
  <2>1. D \in SUBSET S
    OBVIOUS
  <2> HIDE DEF S
  <2> QED
    BY <1>1, <1>2, <2>1, CountsMove
<1>5. L.counts \in [States -> Int]
  BY TableFields
<1>6. \A s \in States : M.counts[s] = L.counts[s] + Gain(Cardinality(D), s, from, to)
  BY <1>1, <1>5, MoveValue
<1>7. \A s \in States : L.counts[s] = Cardinality({n \in S : f[n] = s})
  BY <1>3 DEF Exact
<1>8. \A s \in States : M.counts[s] = Cardinality({n \in S : g[n] = s})
  BY <1>4, <1>6, <1>7
<1> QED
  BY <1>3, <1>8 DEF Exact

--------------------------------------------------------------------------------
(* The operations.                                                          *)

\* The table that the constructor leaves has exact counts.
LEMMA NewTable ==
  ASSUME NEW proto \in Protos
  PROVE  /\ NewPortList(proto) \in Table(proto) /\ Exact(proto, NewPortList(proto))
         /\ DOMAIN NewPortList(proto).list = {}
<1> DEFINE none == [n \in {} |-> 0]
           k == Cardinality(Scanned[proto])
           c == [s \in States |-> IF s = PORT_UNKNOWN THEN k ELSE 0]
           N == [list |-> none, default_port_state |-> PORT_UNKNOWN, counts |-> c]
<1>1. k \in Int
  BY ScannedType, FS_CardinalityType
<1>2. c \in [States -> Int]
  <2> HIDE DEF k
  <2> QED
    BY <1>1
<1>3. none \in [{} -> PortRecord] /\ {} \in SUBSET Scanned[proto] /\ DOMAIN none = {}
  OBVIOUS
<1>4. none \in UNION {[D -> PortRecord] : D \in SUBSET Scanned[proto]}
  BY <1>3
<1>5. N \in Table(proto)
  <2> HIDE DEF none, c
  <2> QED
    BY <1>2, <1>4, StateTypes DEF Table
<1>6. NewPortList(proto) = N
  BY DEF NewPortList
<1>7. \A n : getPortState(N, n) = PORT_UNKNOWN
  BY DEF getPortState, Created
<1>8. /\ {n \in Scanned[proto] : getPortState(N, n) = PORT_UNKNOWN} = Scanned[proto]
      /\ \A s \in States : s # PORT_UNKNOWN =>
           {n \in Scanned[proto] : getPortState(N, n) = s} = {}
  BY <1>7
<1>9. Exact(proto, N)
  BY <1>8, FS_EmptySet DEF Exact
<1> QED
  BY <1>3, <1>5, <1>6, <1>9

\* A port record is stored in place of another one, or a new one.
Stored(L, n, p, c) ==
  [L EXCEPT !.list = [m \in DOMAIN L.list \cup {n} |-> IF m = n THEN p ELSE L.list[m]],
            !.counts = c]

\* One port record is stored.
LEMMA PutStep ==
  ASSUME NEW proto \in Protos, NEW L \in Table(proto), NEW n \in Scanned[proto],
         NEW p \in PortRecord, NEW c \in [States -> Int]
  PROVE  LET M == Stored(L, n, p, c)
         IN  /\ M \in Table(proto) /\ M.counts = c
             /\ M.default_port_state = L.default_port_state
             /\ DOMAIN M.list = DOMAIN L.list \cup {n} /\ M.list[n] = p
             /\ \A m \in DOMAIN L.list : m # n => M.list[m] = L.list[m]
             /\ \A m : m # n => getPortState(M, m) = getPortState(L, m)
             /\ getPortState(M, n) = p.state
<1> DEFINE D == DOMAIN L.list \cup {n}
           f == [m \in D |-> IF m = n THEN p ELSE L.list[m]]
           M == [L EXCEPT !.list = f, !.counts = c]
<1>1. D \in SUBSET Scanned[proto] /\ \A m \in DOMAIN L.list : L.list[m] \in PortRecord
  BY TableFields
<1>2. f \in [D -> PortRecord] /\ DOMAIN f = D /\ f[n] = p
      /\ \A m \in DOMAIN L.list : m # n => f[m] = L.list[m]
  BY <1>1
<1>3. f \in UNION {[E -> PortRecord] : E \in SUBSET Scanned[proto]}
  BY <1>1, <1>2
<1>4. M \in Table(proto) /\ M.list = f /\ M.counts = c
      /\ M.default_port_state = L.default_port_state
  <2> HIDE DEF f
  <2> QED
    BY <1>3 DEF Table
<1> HIDE DEF f, M
<1>5. /\ \A m : m # n => getPortState(M, m) = getPortState(L, m)
      /\ getPortState(M, n) = p.state
  BY <1>2, <1>4 DEF getPortState, Created
<1>6. Stored(L, n, p, c) = M
  BY DEF Stored, M, f
<1> QED
  BY <1>2, <1>4, <1>5, <1>6

\* setPortState() as one change of the table.
LEMMA SetPortStateIs ==
  ASSUME NEW proto \in Protos, NEW L \in Table(proto), NEW n \in Scanned[proto],
         NEW state \in LegalStates
  PROVE  \E p \in PortRecord :
           /\ p.state = state
           /\ setPortState(L, n, state) =
                Stored(L, n, p, Move(L.counts, getPortState(L, n), state, 1))
<1> DEFINE C == createPort(L, n)
           old == C.list[n]
           r == IF state \in {PORT_FILTERED, PORT_OPENFILTERED} THEN ER_NORESPONSE ELSE old.reason
           p == [state |-> state, reason |-> r]
           q == [state |-> L.default_port_state, reason |-> ER_NORESPONSE]
           D == DOMAIN L.list \cup {n}
           fC == [m \in D |-> IF m = n THEN q ELSE L.list[m]]
<1>1. /\ old.reason \in Reasons /\ old.state = getPortState(L, n) /\ DOMAIN C.list = D
      /\ \A m \in DOMAIN L.list : m # n => C.list[m] = L.list[m]
      /\ \E f : C = [L EXCEPT !.list = f]
  <2>1. CASE Created(L, n)
    <3>1. C = L
      BY <2>1 DEF createPort
    <3>2. L = [L EXCEPT !.list = L.list]
      BY DEF Table
    <3>3. D = DOMAIN L.list
      BY <2>1 DEF Created
    <3> QED
      BY <2>1, <3>1, <3>2, <3>3, TableFields DEF Created, getPortState
  <2>2. CASE ~Created(L, n)
    <3>1. C = [L EXCEPT !.list = fC]
      BY <2>2 DEF createPort, Put
    <3>2. C.list = fC
      <4> HIDE DEF C, fC
      <4> QED
        BY <3>1 DEF Table
    <3>3. C.list[n] = q /\ DOMAIN C.list = D /\ \A m \in DOMAIN L.list : m # n => C.list[m] = L.list[m]
      BY <3>2
    <3>4. q.reason \in Reasons /\ q.state = L.default_port_state
      BY DEF Reasons, ER_NORESPONSE
    <3> QED
      BY <2>2, <3>1, <3>3, <3>4 DEF getPortState
  <2> QED
    BY <2>1, <2>2
<1> HIDE DEF C, old
<1>2. p \in PortRecord /\ p.state = state
  BY <1>1 DEF PortRecord, Reasons, ER_NORESPONSE
<1> HIDE DEF p
<1> DEFINE fM == [m \in D |-> IF m = n THEN p ELSE L.list[m]]
           fP == [m \in DOMAIN C.list \cup {n} |-> IF m = n THEN p ELSE C.list[m]]
           c == Move(L.counts, getPortState(L, n), state, 1)
<1>3. fP = fM
  BY <1>1
<1>4. setPortState(L, n, state) = [[C EXCEPT !.list = fP] EXCEPT !.counts = c]
  BY <1>1 DEF setPortState, Put, C, old, p
<1>5. PICK f : C = [L EXCEPT !.list = f]
  BY <1>1
<1> HIDE DEF fP, fM, c
<1>6. [[C EXCEPT !.list = fP] EXCEPT !.counts = c] = [L EXCEPT !.list = fM, !.counts = c]
  BY <1>3, <1>5 DEF Table
<1> QED
  BY <1>2, <1>4, <1>6 DEF fM, c, Stored

\* setPortState() moves a port from one count to another.
LEMMA SetPortStateStep ==
  ASSUME NEW proto \in Protos, NEW L \in Table(proto), NEW n \in Scanned[proto],
         NEW state \in LegalStates
  PROVE  LET M == setPortState(L, n, state)
         IN  /\ M \in Table(proto) /\ M.default_port_state = L.default_port_state
             /\ DOMAIN M.list = DOMAIN L.list \cup {n} /\ M.list[n].state = state
             /\ \A m : m # n => getPortState(M, m) = getPortState(L, m)
             /\ Exact(proto, L) => Exact(proto, M)
<1> DEFINE M == setPortState(L, n, state)
           c == Move(L.counts, getPortState(L, n), state, 1)
<1>1. PICK p \in PortRecord : p.state = state /\ M = Stored(L, n, p, c)
  BY SetPortStateIs
<1>2. c \in [States -> Int] /\ getPortState(L, n) \in States /\ state \in States
  <2>1. getPortState(L, n) \in States /\ state \in States /\ L.counts \in [States -> Int] /\ 1 \in Int
    BY TableFields, StateTypes
  <2>2. Move(L.counts, getPortState(L, n), state, 1) \in [States -> Int]
    BY <2>1, MoveValue
  <2> QED
    BY <2>1, <2>2
<1> HIDE DEF M, c
<1>3. /\ M \in Table(proto) /\ M.counts = c
      /\ M.default_port_state = L.default_port_state
      /\ DOMAIN M.list = DOMAIN L.list \cup {n} /\ M.list[n] = p
      /\ \A m : m # n => getPortState(M, m) = getPortState(L, m)
      /\ getPortState(M, n) = p.state
  BY <1>1, <1>2, PutStep
<1>4. ASSUME Exact(proto, L) PROVE Exact(proto, M)
  <2> DEFINE D == {n}
  <2>1. Cardinality(D) = 1 /\ D \in SUBSET Scanned[proto]
    BY FS_Singleton
  <2>2. \A m \in D : getPortState(L, m) = getPortState(L, n) /\ getPortState(M, m) = state
    BY <1>1, <1>3
  <2>3. \A m \in Scanned[proto] \ D : getPortState(M, m) = getPortState(L, m)
    BY <1>3
  <2> HIDE DEF D
  <2>4. M.counts = Move(L.counts, getPortState(L, n), state, Cardinality(D))
    BY <1>3, <2>1 DEF c
  <2> QED
    BY <1>2, <1>3, <1>4, <2>1, <2>2, <2>3, <2>4, Recount
<1> QED
  BY <1>1, <1>3, <1>4 DEF M

\* setStateReason() of a port that is in the list changes no state.
LEMMA SetReasonStep ==
  ASSUME NEW proto \in Protos, NEW L \in Table(proto), NEW n \in DOMAIN L.list,
         NEW reason \in Reasons
  PROVE  LET M == setStateReason(L, n, reason)
         IN  /\ M \in Table(proto) /\ M.default_port_state = L.default_port_state
             /\ DOMAIN M.list = DOMAIN L.list
             /\ \A m \in DOMAIN L.list : M.list[m].state = L.list[m].state
             /\ \A m : getPortState(M, m) = getPortState(L, m)
             /\ Exact(proto, L) => Exact(proto, M)
<1> DEFINE p == [L.list[n] EXCEPT !.reason = reason]
           f == [m \in DOMAIN L.list \cup {n} |-> IF m = n THEN p ELSE L.list[m]]
           M == setStateReason(L, n, reason)
           c == L.counts
<1>1. n \in Scanned[proto] /\ L.list[n] \in PortRecord /\ c \in [States -> Int]
  BY TableFields
<1>2. p \in PortRecord /\ p.state = L.list[n].state
  BY <1>1 DEF PortRecord
<1>3. M = [L EXCEPT !.list = f]
  BY DEF setStateReason, createPort, Created, Put
<1> HIDE DEF p
<1>4. M = Stored(L, n, p, c)
  <2>1. M = [L EXCEPT !.list = f, !.counts = c]
    <3> HIDE DEF f, M
    <3> QED
      BY <1>3 DEF Table
  <2> QED
    BY <2>1 DEF Stored
<1> HIDE DEF c, M
<1>5. /\ M \in Table(proto) /\ M.counts = c
      /\ M.default_port_state = L.default_port_state
      /\ DOMAIN M.list = DOMAIN L.list \cup {n} /\ M.list[n] = p
      /\ \A m \in DOMAIN L.list : m # n => M.list[m] = L.list[m]
      /\ \A m : m # n => getPortState(M, m) = getPortState(L, m)
      /\ getPortState(M, n) = p.state
  BY <1>1, <1>2, <1>4, PutStep
<1>6. \A m : getPortState(M, m) = getPortState(L, m)
  BY <1>2, <1>5 DEF getPortState, Created
<1>7. Exact(proto, L) => Exact(proto, M)
  BY <1>5, <1>6 DEF Exact, c
<1> QED
  BY <1>2, <1>5, <1>6, <1>7 DEF M

\* setDefaultPortState() moves the ports without a record.
LEMMA SetDefaultStep ==
  ASSUME NEW proto \in Protos, NEW L \in Table(proto), NEW state \in States
  PROVE  LET M == setDefaultPortState(proto, L, state)
         IN  /\ M \in Table(proto) /\ M.default_port_state = state /\ M.list = L.list
             /\ Exact(proto, L) => Exact(proto, M)
<1> DEFINE M == setDefaultPortState(proto, L, state)
           D == Scanned[proto] \ DOMAIN L.list
           from == L.default_port_state
           k == Cardinality(D)
           c == Move(L.counts, from, state, k)
<1>1. D \in SUBSET Scanned[proto] /\ IsFiniteSet(D) /\ k \in Int
  <2>1. D \in SUBSET Scanned[proto]
    OBVIOUS
  <2> HIDE DEF D
  <2> QED
    BY <2>1, ScannedType, FS_Subset, FS_CardinalityType
<1>2. M = [L EXCEPT !.default_port_state = state, !.counts = c]
  BY DEF setDefaultPortState
<1>3. from \in States /\ L.counts \in [States -> Int]
  BY TableFields
<1>4. c \in [States -> Int]
  <2> HIDE DEF k, from
  <2> QED
    BY <1>1, <1>3, MoveValue
<1> HIDE DEF c, M
<1>5. M \in Table(proto) /\ M.default_port_state = state /\ M.list = L.list /\ M.counts = c
  BY <1>2, <1>4 DEF Table
<1>6. /\ \A n \in D : getPortState(L, n) = from /\ getPortState(M, n) = state
      /\ \A n \in Scanned[proto] \ D : getPortState(M, n) = getPortState(L, n)
  BY <1>5 DEF getPortState, Created
<1>7. M.counts = Move(L.counts, from, state, Cardinality(D))
  BY <1>5 DEF c
<1> HIDE DEF D, from
<1>8. Exact(proto, L) => Exact(proto, M)
  BY <1>1, <1>3, <1>5, <1>6, <1>7, Recount
<1> QED
  BY <1>5, <1>8 DEF M

\* forgetPort() returns a port to the default state.
LEMMA ForgetStep ==
  ASSUME NEW proto \in Protos, NEW L \in Table(proto), NEW n \in Scanned[proto]
  PROVE  LET M == forgetPort(L, n)
         IN  /\ M \in Table(proto)
             /\ Exact(proto, L) => Exact(proto, M)
<1> DEFINE M == forgetPort(L, n)
<1>1. CASE ~Created(L, n)
  BY <1>1 DEF forgetPort
<1>2. CASE Created(L, n)
  <2> DEFINE E == DOMAIN L.list \ {n}
             f == [m \in E |-> L.list[m]]
             from == L.list[n].state
             to == L.default_port_state
             c == Move(L.counts, from, to, 1)
             D == {n}
  <2>1. n \in DOMAIN L.list
    BY <1>2 DEF Created
  <2>2. /\ from \in States /\ to \in States /\ L.counts \in [States -> Int]
        /\ E \in SUBSET Scanned[proto] /\ \A m \in E : L.list[m] \in PortRecord
    BY <2>1, TableFields, StateTypes
  <2>3. M = [L EXCEPT !.list = f, !.counts = c]
    BY <1>2 DEF forgetPort
  <2>4. f \in [E -> PortRecord] /\ DOMAIN f = E /\ \A m \in E : f[m] = L.list[m]
    BY <2>2
  <2>5. f \in UNION {[F -> PortRecord] : F \in SUBSET Scanned[proto]}
    BY <2>2, <2>4
  <2>6. c \in [States -> Int]
    <3> HIDE DEF from, to
    <3> QED
      BY <2>2, MoveValue
  <2> HIDE DEF f, c, M
  <2>7. M \in Table(proto) /\ M.list = f /\ M.counts = c /\ M.default_port_state = to
    BY <2>3, <2>5, <2>6 DEF Table
  <2>8. /\ \A m \in D : getPortState(L, m) = from /\ getPortState(M, m) = to
        /\ \A m \in Scanned[proto] \ D : getPortState(M, m) = getPortState(L, m)
    BY <2>1, <2>4, <2>7 DEF getPortState, Created
  <2>9. Cardinality(D) = 1 /\ D \in SUBSET Scanned[proto]
    BY FS_Singleton
  <2>10. M.counts = Move(L.counts, from, to, Cardinality(D))
    BY <2>7, <2>9 DEF c
  <2> HIDE DEF D, from, to
  <2>11. Exact(proto, L) => Exact(proto, M)
    BY <2>2, <2>7, <2>8, <2>9, <2>10, Recount
  <2> QED
    BY <2>7, <2>11 DEF M
<1> QED
  BY <1>1, <1>2

--------------------------------------------------------------------------------
(* Going through a set in an order, one call after the other, as the loops  *)
(* over nextPort() and nextIgnoredState() do.                               *)

\* A set of natural numbers that is not empty has a least element.
LEMMA LeastNat ==
  ASSUME NEW S \in SUBSET Nat, S # {}
  PROVE  \E n \in S : \A m \in S : n <= m
<1>1. PICK n \in S : \A m \in S : ~ (<<m, n>> \in OpToRel(<, Nat))
  BY WFMin, NatLessThanWellFounded, Zenon
<1>2. \A m \in S : ~ (m < n)
  BY <1>1, Zenon DEF OpToRel
<1> QED
  BY <1>2

\* A function that is defined by recursion exists.
IsRecursion(f, N, T, base, G) ==
  /\ f \in [0 .. N -> T] /\ f[0] = base
  /\ \A k \in 1 .. N : f[k] = G[<<k, f[k - 1]>>]

\* A recursion over 1..N has a solution.
LEMMA RecursionExists ==
  ASSUME NEW N \in Nat, NEW T, NEW base \in T, NEW G \in [(1 .. N) \X T -> T]
  PROVE  \E f : IsRecursion(f, N, T, base, G)
<1> DEFINE Upto(n, f) == IsRecursion(f, n, T, base, G)
           bad == {n \in 0 .. N : ~ \E f : Upto(n, f)}
<1> SUFFICES ASSUME bad # {} PROVE FALSE
  <2>1. N \in 0 .. N
    OBVIOUS
  <2> QED
    BY <2>1
<1>1. PICK n \in bad : \A m \in bad : n <= m
  <2>1. bad \in SUBSET Nat
    OBVIOUS
  <2> HIDE DEF bad
  <2> QED
    BY <2>1, LeastNat
<1>2. CASE n = 0
  <2> DEFINE f == [k \in 0 .. 0 |-> base]
  <2>1. Upto(0, f)
    BY DEF IsRecursion
  <2> QED
    BY <1>1, <1>2, <2>1
<1>3. CASE n # 0
  <2>1. n \in 1 .. N /\ n - 1 \in 0 .. N /\ n - 1 \notin bad
    <3>1. n \in 0 .. N
      BY <1>1
    <3>2. n - 1 \in bad => n <= n - 1
      BY <1>1
    <3> HIDE DEF bad
    <3> QED
      BY <1>3, <3>1, <3>2
  <2>2. PICK f : Upto(n - 1, f)
    BY <2>1
  <2> DEFINE v == G[<<n, f[n - 1]>>]
             g == [k \in 0 .. n |-> IF k = n THEN v ELSE f[k]]
  <2>3. v \in T
    BY <2>1, <2>2 DEF IsRecursion
  <2> HIDE DEF v
  <2>4. g \in [0 .. n -> T] /\ g[0] = base /\ g[n] = v /\ \A k \in 0 .. n - 1 : g[k] = f[k]
    BY <2>1, <2>2, <2>3 DEF IsRecursion
  <2> HIDE DEF g
  <2>5. ASSUME NEW k \in 1 .. n PROVE g[k] = G[<<k, g[k - 1]>>]
    <3>1. k - 1 \in 0 .. n - 1 /\ g[k - 1] = f[k - 1]
      BY <2>1, <2>4
    <3>2. CASE k = n
      BY <2>4, <3>1, <3>2 DEF v
    <3>3. CASE k # n
      <4>1. k \in 1 .. n - 1 /\ k \in 0 .. n - 1
        BY <2>1, <3>3
      <4>2. f[k] = G[<<k, f[k - 1]>>]
        BY <2>2, <4>1 DEF IsRecursion
      <4> QED
        BY <2>4, <3>1, <4>1, <4>2
    <3> QED
      BY <3>2, <3>3
  <2>6. Upto(n, g)
    BY <2>4, <2>5 DEF IsRecursion
  <2> HIDE DEF Upto
  <2> QED
    BY <1>1, <2>6
<1> QED
  BY <1>2, <1>3

\* lt is a strict total order on S.
Orders(lt, S) ==
  /\ \A x \in S : <<x, x>> \notin lt
  /\ \A x, y, z \in S : <<x, y>> \in lt /\ <<y, z>> \in lt => <<x, z>> \in lt
  /\ \A x, y \in S : x = y \/ <<x, y>> \in lt \/ <<y, x>> \in lt

\* The elements that come after x, which start does not restrict.
Later(S, lt, start, x) == {y \in S : x = start \/ <<x, y>> \in lt}

\* nxt gives the first of them, or start if there is none.
GivesNext(nxt, S, lt, start) ==
  \A x \in S \cup {start} :
    IF Later(S, lt, start, x) = {} THEN nxt[x] = start
    ELSE /\ nxt[x] \in Later(S, lt, start, x)
         /\ \A y \in Later(S, lt, start, x) : y = nxt[x] \/ <<nxt[x], y>> \in lt

\* Turn k of the loop, which has seen some elements.
Turn(nxt, start, k, seen) ==
  LET cur == IF k = 1 THEN start ELSE seen[Len(seen)]
  IN  IF Len(seen) < k - 1 \/ nxt[cur] = start THEN seen ELSE Append(seen, nxt[cur])

\* v[k] is what the loop has seen after k turns.
IsLoop(v, N, S, nxt, start) ==
  /\ v[0] = <<>>
  /\ \A k \in 1 .. N : v[k - 1] \in Seq(S) => v[k] = Turn(nxt, start, k, v[k - 1])

\* One turn of a loop gives a sequence of S.
LEMMA TurnType ==
  ASSUME NEW S, NEW start, start \notin S, NEW nxt \in [S \cup {start} -> S \cup {start}],
         NEW k \in Nat \ {0}, NEW seen \in Seq(S)
  PROVE  /\ Turn(nxt, start, k, seen) \in Seq(S)
         /\ k = 1 \/ Len(seen) < k - 1 \/ seen[Len(seen)] \in S
<1> DEFINE cur == IF k = 1 THEN start ELSE seen[Len(seen)]
<1>1. k = 1 \/ Len(seen) < k - 1 \/ seen[Len(seen)] \in S
  <2> SUFFICES ASSUME k # 1, ~ (Len(seen) < k - 1) PROVE seen[Len(seen)] \in S
    OBVIOUS
  <2>1. Len(seen) \in Nat /\ Len(seen) \in 1 .. Len(seen)
    BY LenProperties
  <2> QED
    BY <2>1, ElementOfSeq
<1>2. CASE Len(seen) < k - 1 \/ nxt[cur] = start
  BY <1>1, <1>2 DEF Turn
<1>3. CASE ~ (Len(seen) < k - 1) /\ nxt[cur] # start
  <2>1. nxt[cur] \in S
    BY <1>1, <1>3
  <2>2. Append(seen, nxt[cur]) \in Seq(S)
    <3> HIDE DEF cur
    <3> QED
      BY <2>1, AppendProperties
  <2>3. Turn(nxt, start, k, seen) = Append(seen, nxt[cur])
    BY <1>3 DEF Turn
  <2> QED
    BY <1>1, <2>2, <2>3
<1> QED
  BY <1>2, <1>3

\* There is such a loop, and whatever satisfies the equations has seen elements of S.
LEMMA LoopExists ==
  ASSUME NEW S, NEW start, start \notin S, NEW nxt \in [S \cup {start} -> S \cup {start}],
         NEW N \in Nat
  PROVE  \E v \in [0 .. N -> Seq(S)] : IsLoop(v, N, S, nxt, start)
<1> DEFINE G == [a \in (1 .. N) \X Seq(S) |-> Turn(nxt, start, a[1], a[2])]
<1>1. \A a \in (1 .. N) \X Seq(S) : Turn(nxt, start, a[1], a[2]) \in Seq(S)
  <2> SUFFICES ASSUME NEW k \in 1 .. N, NEW seen \in Seq(S)
               PROVE  Turn(nxt, start, k, seen) \in Seq(S)
    OBVIOUS
  <2>1. k \in Nat \ {0}
    OBVIOUS
  <2> QED
    BY <2>1, TurnType, Zenon
<1>2. G \in [(1 .. N) \X Seq(S) -> Seq(S)] /\ <<>> \in Seq(S)
  BY <1>1
<1> HIDE DEF G
<1>3. PICK v \in [0 .. N -> Seq(S)] : v[0] = <<>> /\ \A k \in 1 .. N : v[k] = G[<<k, v[k - 1]>>]
  <2> DEFINE T == Seq(S)
             base == <<>>
  <2>1. base \in T /\ G \in [(1 .. N) \X T -> T]
    BY <1>2
  <2> HIDE DEF T, base
  <2>2. \E f : IsRecursion(f, N, T, base, G)
    BY <2>1, RecursionExists, Zenon
  <2> QED
    BY <2>2 DEF IsRecursion, T, base
<1>4. ASSUME NEW k \in 1 .. N, v[k - 1] \in Seq(S)
      PROVE  v[k] = Turn(nxt, start, k, v[k - 1])
  <2>1. v[k] = G[<<k, v[k - 1]>>] /\ <<k, v[k - 1]>> \in (1 .. N) \X Seq(S)
    BY <1>3, <1>4
  <2> QED
    BY <2>1 DEF G
<1> QED
  BY <1>3, <1>4 DEF IsLoop

\* So do all of them.
LEMMA LoopType ==
  ASSUME NEW S, NEW start, start \notin S, NEW nxt \in [S \cup {start} -> S \cup {start}],
         NEW N \in Nat, NEW v, IsLoop(v, N, S, nxt, start)
  PROVE  \A k \in 0 .. N : v[k] \in Seq(S)
<1> DEFINE bad == {k \in 0 .. N : v[k] \notin Seq(S)}
<1> SUFFICES ASSUME bad # {} PROVE FALSE
  OBVIOUS
<1>1. PICK k \in bad : \A l \in bad : k <= l
  <2>1. bad \in SUBSET Nat
    OBVIOUS
  <2> HIDE DEF bad
  <2> QED
    BY <2>1, LeastNat
<1>2. k # 0
  <2>1. v[0] = <<>> /\ <<>> \in Seq(S)
    BY DEF IsLoop
  <2> QED
    BY <1>1, <2>1
<1>3. k \in 1 .. N /\ k - 1 \in 0 .. N /\ k - 1 \notin bad /\ k \in Nat \ {0}
  BY <1>1, <1>2
<1>4. v[k - 1] \in Seq(S)
  BY <1>3
<1>5. v[k] = Turn(nxt, start, k, v[k - 1])
  BY <1>3, <1>4 DEF IsLoop
<1>6. v[k] \in Seq(S)
  <2>1. PICK seen \in Seq(S) : seen = v[k - 1]
    BY <1>4
  <2>2. Turn(nxt, start, k, seen) \in Seq(S)
    BY <1>3, TurnType, Zenon
  <2> QED
    BY <1>5, <2>1, <2>2
<1> QED
  BY <1>1, <1>6

\* What the loop has seen after k turns: the first k elements in their order, or all
\* of them when there are fewer.
Seen(S, lt, k, seen) ==
  /\ seen \in Seq(S) /\ Len(seen) <= k
  /\ \A j, l \in 1 .. Len(seen) : j < l => <<seen[j], seen[l]>> \in lt
  /\ \A y \in S : \/ \E j \in 1 .. Len(seen) : seen[j] = y
                  \/ Len(seen) = k /\ (k = 0 \/ <<seen[k], y>> \in lt)

\* One turn adds the next element in the order.
LEMMA TurnSeen ==
  ASSUME NEW S, NEW start, start \notin S, NEW nxt \in [S \cup {start} -> S \cup {start}],
         NEW lt, Orders(lt, S), GivesNext(nxt, S, lt, start),
         NEW k \in Nat \ {0}, NEW seen, Seen(S, lt, k - 1, seen)
  PROVE  Seen(S, lt, k, Turn(nxt, start, k, seen))
<1> DEFINE cur == IF k = 1 THEN start ELSE seen[Len(seen)]
           above == Later(S, lt, start, cur)
           t == Turn(nxt, start, k, seen)
           m == nxt[cur]
<1>1. /\ seen \in Seq(S) /\ Len(seen) \in Nat /\ Len(seen) <= k - 1
      /\ \A j \in 1 .. Len(seen) : seen[j] \in S
  BY LenProperties, ElementOfSeq DEF Seen
<1>2. CASE Len(seen) < k - 1
  <2>1. t = seen
    BY <1>2 DEF Turn
  <2> HIDE DEF t
  <2>2. Seen(S, lt, k, seen)
    <3>1. Len(seen) # k - 1 /\ Len(seen) <= k
      BY <1>1, <1>2
    <3>2. ASSUME NEW y \in S PROVE \E j \in 1 .. Len(seen) : seen[j] = y
      BY <3>1 DEF Seen
    <3>3. \A j, l \in 1 .. Len(seen) : j < l => <<seen[j], seen[l]>> \in lt
      BY DEF Seen
    <3> QED
      BY <1>1, <3>1, <3>2, <3>3 DEF Seen
  <2> QED
    BY <2>1, <2>2 DEF t
<1>3. CASE Len(seen) = k - 1
  <2>1. cur \in S \cup {start} /\ (k # 1 => cur \in S)
    BY <1>1, <1>3
  <2>2. \A y \in S : (\E j \in 1 .. Len(seen) : seen[j] = y) \/ y \in above
    <3> SUFFICES ASSUME NEW y \in S, ~ \E j \in 1 .. Len(seen) : seen[j] = y PROVE y \in above
      OBVIOUS
    <3>1. k - 1 = 0 \/ <<seen[k - 1], y>> \in lt
      BY DEF Seen
    <3> QED
      BY <1>3, <3>1 DEF Later
  <2>3. IF above = {} THEN m = start
        ELSE m \in above /\ \A y \in above : y = m \/ <<m, y>> \in lt
    BY <2>1 DEF GivesNext
  <2> HIDE DEF cur
  <2>4. above \subseteq S /\ start \notin above
    BY DEF Later
  <2>5. t = IF m = start THEN seen ELSE Append(seen, m)
    <3>1. ~ (Len(seen) < k - 1)
      BY <1>1, <1>3
    <3> QED
      BY <3>1 DEF Turn, cur
  <2>6. CASE above = {}
    <3>1. t = seen
      BY <2>3, <2>5, <2>6
    <3> HIDE DEF t
    <3>2. Seen(S, lt, k, seen)
      <4> HIDE DEF above
      <4> QED
        BY <1>1, <2>2, <2>6 DEF Seen
    <3> QED
      BY <3>1, <3>2 DEF t
  <2>7. CASE above # {}
    <3>1. m \in above /\ m \in S /\ \A y \in above : y = m \/ <<m, y>> \in lt
      BY <2>3, <2>4, <2>7
    <3>2. t = Append(seen, m)
      BY <2>4, <2>5, <3>1
    <3> HIDE DEF t, m
    <3>3. /\ t \in Seq(S) /\ Len(t) = k /\ t[k] = m
          /\ \A j \in 1 .. k - 1 : t[j] = seen[j]
      BY <1>1, <1>3, <3>1, <3>2, AppendProperties
    <3>4. ASSUME NEW j \in 1 .. k - 1 PROVE <<seen[j], m>> \in lt
      <4>1. k # 1 /\ cur = seen[k - 1] /\ k - 1 \in 1 .. Len(seen)
        BY <1>3, <3>4 DEF cur
      <4>2. <<cur, m>> \in lt
        BY <2>1, <3>1, <4>1 DEF Later
      <4>3. j = k - 1 \/ <<seen[j], cur>> \in lt
        BY <1>3, <3>4, <4>1 DEF Seen
      <4>4. seen[j] \in S /\ cur \in S
        BY <1>1, <1>3, <2>1, <3>4, <4>1
      <4> QED
        BY <3>1, <4>1, <4>2, <4>3, <4>4 DEF Orders
    <3>5. ASSUME NEW j \in 1 .. k, NEW l \in 1 .. k, j < l PROVE <<t[j], t[l]>> \in lt
      <4>1. CASE l = k
        BY <3>3, <3>4, <3>5, <4>1
      <4>2. CASE l # k
        <5>1. j \in 1 .. Len(seen) /\ l \in 1 .. Len(seen)
          BY <1>3, <3>5, <4>2
        <5>2. <<seen[j], seen[l]>> \in lt
          BY <3>5, <5>1 DEF Seen
        <5> QED
          BY <1>3, <3>3, <5>1, <5>2
      <4> QED
        BY <4>1, <4>2
    <3>6. ASSUME NEW y \in S
          PROVE  (\E j \in 1 .. k : t[j] = y) \/ <<t[k], y>> \in lt
      <4>1. CASE y \in above
        BY <3>1, <3>3, <4>1
      <4>2. CASE \E j \in 1 .. Len(seen) : seen[j] = y
        BY <1>3, <3>3, <4>2
      <4> QED
        BY <2>2, <4>1, <4>2
    <3>7. Seen(S, lt, k, t)
      BY <3>3, <3>5, <3>6 DEF Seen
    <3> QED
      BY <3>7 DEF t
  <2> QED
    BY <2>6, <2>7
<1> QED
  BY <1>1, <1>2, <1>3

\* All of S and nothing else, in the order and so each element once.
Complete(S, lt, seen) ==
  /\ seen \in Seq(S)
  /\ \A j, l \in 1 .. Len(seen) : j < l => <<seen[j], seen[l]>> \in lt
  /\ \A y \in S : \E j \in 1 .. Len(seen) : seen[j] = y

\* After as many turns as S has elements the loop has seen them all, in their order.
LEMMA LoopComplete ==
  ASSUME NEW S, NEW start, start \notin S, NEW nxt \in [S \cup {start} -> S \cup {start}],
         NEW lt, Orders(lt, S), GivesNext(nxt, S, lt, start), IsFiniteSet(S),
         NEW N \in Nat, Cardinality(S) <= N, NEW v, IsLoop(v, N, S, nxt, start)
  PROVE  Complete(S, lt, v[N])
<1> DEFINE bad == {k \in 0 .. N : ~Seen(S, lt, k, v[k])}
<1>1. bad = {}
  <2> SUFFICES ASSUME bad # {} PROVE FALSE
    OBVIOUS
  <2>1. PICK k \in bad : \A l \in bad : k <= l
    <3>1. bad \in SUBSET Nat
      OBVIOUS
    <3> HIDE DEF bad
    <3> QED
      BY <3>1, LeastNat
  <2>2. k # 0
    <3>1. v[0] = <<>> /\ <<>> \in Seq(S) /\ Len(<<>>) = 0
      BY DEF IsLoop
    <3>2. Seen(S, lt, 0, v[0])
      BY <3>1 DEF Seen
    <3> QED
      BY <2>1, <3>2
  <2>3. k \in 1 .. N /\ k - 1 \in 0 .. N /\ k - 1 \notin bad /\ k \in Nat \ {0}
    <3>1. k \in 0 .. N
      BY <2>1
    <3>2. k - 1 \in bad => k <= k - 1
      BY <2>1
    <3> HIDE DEF bad
    <3> QED
      BY <2>2, <3>1, <3>2
  <2>4. PICK seen : seen = v[k - 1]
    OBVIOUS
  <2>5. Seen(S, lt, k - 1, seen)
    BY <2>3, <2>4
  <2>6. v[k] = Turn(nxt, start, k, seen)
    BY <2>3, <2>4, <2>5 DEF IsLoop, Seen
  <2>7. Seen(S, lt, k, Turn(nxt, start, k, seen))
    BY <2>3, <2>5, TurnSeen
  <2> QED
    BY <2>1, <2>6, <2>7
<1>2. PICK seen : seen = v[N]
  OBVIOUS
<1>3. Seen(S, lt, N, seen)
  <2>1. N \in 0 .. N
    OBVIOUS
  <2> QED
    BY <1>1, <1>2, <2>1
<1>4. /\ seen \in Seq(S) /\ Len(seen) \in Nat /\ \A j \in 1 .. Len(seen) : seen[j] \in S
      /\ seen \in [1 .. Len(seen) -> S]
  BY <1>3, LenProperties, ElementOfSeq, SMTT(30) DEF Seen
<1>5. \A y \in S : \E j \in 1 .. Len(seen) : seen[j] = y
  <2>1. CASE Len(seen) < N
    <3>1. Len(seen) # N
      <4>1. Len(seen) \in Nat
        BY <1>4
      <4> QED
        BY <2>1, <4>1
    <3>2. ASSUME NEW y \in S PROVE \E j \in 1 .. Len(seen) : seen[j] = y
      BY <1>3, <3>1 DEF Seen
    <3> QED
      BY <3>2
  <2>2. CASE Len(seen) = N
    <3>1. \A j, l \in 1 .. N : j # l => seen[j] # seen[l]
      <4> SUFFICES ASSUME NEW j \in 1 .. N, NEW l \in 1 .. N, j # l, seen[j] = seen[l] PROVE FALSE
        OBVIOUS
      <4>1. j < l \/ l < j
        OBVIOUS
      <4>2. <<seen[j], seen[l]>> \in lt \/ <<seen[l], seen[j]>> \in lt
        BY <1>3, <2>2, <4>1 DEF Seen
      <4>3. seen[j] \in S /\ seen[l] \in S
        BY <1>4, <2>2
      <4> QED
        BY <4>2, <4>3 DEF Orders
    <3>2. seen \in Injection(1 .. N, S)
      BY <1>4, <2>2, <3>1 DEF Injection, IsInjective
    <3>3. Cardinality(1 .. N) = N
      BY FS_Interval
    <3>4. Cardinality(1 .. N) <= Cardinality(S)
      BY <3>2, FS_Injection
    <3>5. Cardinality(1 .. N) = Cardinality(S)
      BY <3>3, <3>4, FS_CardinalityType
    <3>6. seen \in Surjection(1 .. N, S)
      BY <3>2, <3>5, FS_Injection
    <3> QED
      BY <2>2, <3>6 DEF Surjection
  <2> QED
    BY <1>3, <1>4, <2>1, <2>2 DEF Seen
<1>6. \A j, l \in 1 .. Len(seen) : j < l => <<seen[j], seen[l]>> \in lt
  BY <1>3 DEF Seen
<1> QED
  BY <1>2, <1>4, <1>5, <1>6 DEF Complete

\* A finite set that is not empty has a first element in the order.
LEMMA FirstExists ==
  ASSUME NEW S, NEW lt, Orders(lt, S), NEW A \in SUBSET S, A # {}, IsFiniteSet(A)
  PROVE  \E x \in A : \A y \in A : y = x \/ <<x, y>> \in lt
<1> DEFINE before(x) == {y \in A : <<y, x>> \in lt}
           D == {Cardinality(before(x)) : x \in A}
<1>1. \A x \in A : before(x) \in SUBSET A
  OBVIOUS
<1>2. \A x \in A : IsFiniteSet(before(x)) /\ Cardinality(before(x)) \in Nat
  <2> HIDE DEF before
  <2> QED
    BY <1>1, FS_Subset, FS_CardinalityType
<1>3. PICK d \in D : \A e \in D : d <= e
  <2>1. D \in SUBSET Nat /\ D # {}
    BY <1>2
  <2> HIDE DEF D
  <2> QED
    BY <2>1, LeastNat
<1>4. PICK x \in A : d = Cardinality(before(x))
  BY <1>3
<1>5. ASSUME NEW y \in A, <<y, x>> \in lt PROVE FALSE
  <2>1. before(y) \subseteq before(x) /\ y \in before(x) /\ y \notin before(y)
    BY <1>5 DEF Orders
  <2>2. Cardinality(before(x)) <= Cardinality(before(y))
    BY <1>3, <1>4
  <2>3. IsFiniteSet(before(x)) /\ before(y) \in SUBSET before(x)
    BY <1>2, <2>1
  <2>4. PICK B, C : B = before(x) /\ C = before(y)
    OBVIOUS
  <2>5. IsFiniteSet(B) /\ C \in SUBSET B /\ Cardinality(B) <= Cardinality(C) /\ B # C
        /\ Cardinality(B) \in Nat /\ Cardinality(C) \in Nat
    BY <1>2, <2>1, <2>2, <2>3, <2>4
  <2> HIDE DEF before
  <2>6. Cardinality(C) <= Cardinality(B) /\ (Cardinality(B) = Cardinality(C) => B = C)
    BY <2>5, FS_Subset
  <2> QED
    BY <2>5, <2>6
<1> QED
  BY <1>4, <1>5 DEF Orders

--------------------------------------------------------------------------------
(* The loops over nextPort().                                               *)

\* The ports that a loop is to give, and their order.
Match(proto, st) == {n \in Scanned[proto] : st \in {0, getPortState(ports[proto], n)}}
Wanted(st) == UNION {{proto} \X Match(proto, st) : proto \in Protos}
Rank(p) == CASE p[1] = "tcp" -> 1 [] p[1] = "udp" -> 2 [] p[1] = "sctp" -> 3
PortOrder(S) ==
  {pq \in S \X S : \/ Rank(pq[1]) < Rank(pq[2])
                   \/ pq[1][1] = pq[2][1] /\ pq[1][2] < pq[2][2]}
NextPorts(ap, st) == [x \in Wanted(st) \cup {NoPort} |-> nextPort(x, ap, st)]

\* Ports as pairs of protocol and number.
LEMMA PortPairs ==
  ASSUME NEW st
  PROVE  /\ \A proto \in Protos : Match(proto, st) \subseteq Nat
         /\ \A proto \in Protos : \A n \in Match(proto, st) : <<proto, n>> \in Wanted(st)
         /\ \A y \in Wanted(st) : /\ y[1] \in Protos /\ y[2] \in Match(y[1], st) /\ y[2] \in Nat
                                  /\ y = <<y[1], y[2]>>
         /\ NoPort \notin Wanted(st)
         /\ \A proto \in Protos : \A n : <<proto, n>> # NoPort
<1>1. \A proto \in Protos : Match(proto, st) \subseteq Nat
  BY ScannedType DEF Match
<1>2. \A proto \in Protos : \A n \in Match(proto, st) : <<proto, n>> \in Wanted(st)
  BY DEF Wanted
<1>3. \A y \in Wanted(st) : y[1] \in Protos /\ y[2] \in Match(y[1], st) /\ y = <<y[1], y[2]>>
  BY DEF Wanted
<1>4. "none" \notin Protos
  BY DEF Protos
<1>5. \A proto \in Protos : \A n : <<proto, n>> # NoPort
  BY <1>4 DEF NoPort
<1>6. NoPort \notin Wanted(st)
  BY <1>3, <1>5
<1> QED
  BY <1>1, <1>2, <1>3, <1>5, <1>6

\* The protocols and numbers order the ports.
LEMMA RankOrder ==
  ASSUME NEW st
  PROVE  /\ \A y \in Wanted(st) : Rank(y) \in 1 .. 3
         /\ Orders(PortOrder(Wanted(st)), Wanted(st))
<1> DEFINE S == Wanted(st)
           lt == PortOrder(S)
<1>1. \A y \in S : /\ y[1] \in {"tcp", "udp", "sctp"} /\ y[2] \in Nat /\ y = <<y[1], y[2]>>
  BY PortPairs DEF Protos
<1>2. \A y \in S : Rank(y) = IF y[1] = "tcp" THEN 1 ELSE IF y[1] = "udp" THEN 2 ELSE 3
  BY <1>1 DEF Rank
<1>3. \A y \in S : Rank(y) \in 1 .. 3
  BY <1>2
<1>4. \A x, y \in S : <<x, y>> \in lt <=> Rank(x) < Rank(y) \/ (x[1] = y[1] /\ x[2] < y[2])
  BY DEF PortOrder
<1>5. \A x, y \in S : Rank(x) = Rank(y) <=> x[1] = y[1]
  BY <1>1, <1>2
<1> HIDE DEF S, lt
<1>6. \A x \in S : <<x, x>> \notin lt
  BY <1>1, <1>3, <1>4
<1>7. \A x, y, z \in S : <<x, y>> \in lt /\ <<y, z>> \in lt => <<x, z>> \in lt
  <2> SUFFICES ASSUME NEW x \in S, NEW y \in S, NEW z \in S, <<x, y>> \in lt, <<y, z>> \in lt
               PROVE  <<x, z>> \in lt
    OBVIOUS
  <2>1. /\ Rank(x) < Rank(y) \/ (x[1] = y[1] /\ x[2] < y[2])
        /\ Rank(y) < Rank(z) \/ (y[1] = z[1] /\ y[2] < z[2])
    BY <1>4
  <2>2. Rank(x) \in Nat /\ Rank(y) \in Nat /\ Rank(z) \in Nat /\ x[2] \in Nat /\ y[2] \in Nat
        /\ z[2] \in Nat /\ (x[1] = y[1] => Rank(x) = Rank(y)) /\ (y[1] = z[1] => Rank(y) = Rank(z))
    BY <1>1, <1>3, <1>5
  <2>3. Rank(x) < Rank(z) \/ (x[1] = z[1] /\ x[2] < z[2])
    BY <2>1, <2>2
  <2> QED
    BY <1>4, <2>3
<1>8. \A x, y \in S : x = y \/ <<x, y>> \in lt \/ <<y, x>> \in lt
  <2> SUFFICES ASSUME NEW x \in S, NEW y \in S, x # y PROVE <<x, y>> \in lt \/ <<y, x>> \in lt
    OBVIOUS
  <2>1. Rank(x) \in Nat /\ Rank(y) \in Nat /\ x[2] \in Nat /\ y[2] \in Nat
        /\ (Rank(x) = Rank(y) => x[1] = y[1]) /\ (x[1] # y[1] \/ x[2] # y[2])
    BY <1>1, <1>3, <1>5
  <2>2. \/ Rank(x) < Rank(y) \/ (x[1] = y[1] /\ x[2] < y[2])
        \/ Rank(y) < Rank(x) \/ (y[1] = x[1] /\ y[2] < x[2])
    BY <2>1
  <2> QED
    BY <1>4, <2>2
<1> QED
  BY <1>3, <1>6, <1>7, <1>8 DEF Orders, S, lt

\* Search() gives the first port of the protocol after a number, if there is one.
LEMMA SearchIs ==
  ASSUME NEW proto \in Protos, NEW above \in Int, NEW st
  PROVE  \/ /\ Search(proto, above, st) = NoPort
            /\ \A n \in Match(proto, st) : ~ (n > above)
         \/ \E n \in Match(proto, st) :
              /\ Search(proto, above, st) = <<proto, n>> /\ n > above
              /\ \A m \in Match(proto, st) : m > above => n <= m
<1> DEFINE match == {n \in Scanned[proto] :
                       n > above /\ st \in {0, getPortState(ports[proto], n)}}
<1>0. \A n : n \in match <=> n \in Match(proto, st) /\ n > above
  BY DEF Match
<1>1. Search(proto, above, st) =
        IF match = {} THEN NoPort ELSE <<proto, CHOOSE n \in match : \A m \in match : n <= m>>
  BY DEF Search
<1> HIDE DEF match
<1>2. CASE match = {}
  BY <1>0, <1>1, <1>2
<1>3. CASE match # {}
  <2>1. match \in SUBSET Nat
    BY <1>0, PortPairs
  <2>2. PICK n \in match : n = CHOOSE l \in match : \A m \in match : l <= m
    BY <1>3, <2>1, LeastNat
  <2>3. \A m \in match : n <= m
    BY <1>3, <2>1, <2>2, LeastNat
  <2>4. Search(proto, above, st) = <<proto, n>>
    BY <1>1, <1>3, <2>2
  <2>5. n \in Match(proto, st) /\ n > above /\ \A m \in Match(proto, st) : m > above => n <= m
    BY <1>0, <2>3
  <2> QED
    BY <2>4, <2>5
<1> QED
  BY <1>2, <1>3

\* A search gives a port that is wanted, or none.
LEMMA SearchType ==
  ASSUME NEW proto \in Protos, NEW above \in Int, NEW st
  PROVE  Search(proto, above, st) \in Wanted(st) \cup {NoPort}
  BY SearchIs, PortPairs

\* So does nextPort().
LEMMA NextPortType ==
  ASSUME NEW st, NEW ap \in Protos \cup {"all"}, NEW x \in Wanted(st) \cup {NoPort}
  PROVE  nextPort(x, ap, st) \in Wanted(st) \cup {NoPort}
<1> DEFINE proto == IF x # NoPort THEN x[1] ELSE IF ap = "all" THEN "tcp" ELSE ap
           above == IF x = NoPort THEN -1 ELSE x[2]
           here == Search(proto, above, st)
<1>1. proto \in Protos /\ above \in Int
  BY PortPairs DEF Protos
<1>2. here \in Wanted(st) \cup {NoPort}
  <2> HIDE DEF proto, above
  <2> QED
    BY <1>1, SearchType
<1>3. Search("udp", -1, st) \in Wanted(st) \cup {NoPort} /\ Search("sctp", -1, st) \in Wanted(st) \cup {NoPort}
  <2>1. "udp" \in Protos /\ "sctp" \in Protos /\ -1 \in Int
    BY DEF Protos
  <2> QED
    BY <2>1, SearchType
<1>4. FirstOfUdpAndSctp(st) \in Wanted(st) \cup {NoPort}
  BY <1>3 DEF FirstOfUdpAndSctp
<1>5. nextPort(x, ap, st) \in {here, FirstOfUdpAndSctp(st), Search("sctp", -1, st), NoPort}
  BY DEF nextPort
<1> QED
  BY <1>2, <1>3, <1>4, <1>5

\* Visit() is such a loop.
IsVisit(v, ap, st) ==
  v = [k \in 0 .. numPorts |->
         IF k = 0 THEN <<>>
         ELSE LET seen == v[k - 1]
                  cur  == IF k = 1 THEN NoPort ELSE seen[Len(seen)]
                  next == nextPort(cur, ap, st)
              IN IF Len(seen) < k - 1 \/ next = NoPort THEN seen
                 ELSE Append(seen, next)]

\* numPorts() bounds the number of turns.
LEMMA PortsFinite ==
  ASSUME NEW st
  PROVE  numPorts \in Nat /\ IsFiniteSet(Wanted(st)) /\ Cardinality(Wanted(st)) <= numPorts
<1> DEFINE P(proto) == {proto} \X Scanned[proto]
           A == UNION {P(proto) : proto \in Protos}
<1>1. ASSUME NEW proto \in Protos PROVE IsFiniteSet(P(proto))
  <2>1. IsFiniteSet({proto}) /\ IsFiniteSet(Scanned[proto])
    BY ScannedType, FS_Singleton
  <2> QED
    BY <2>1, FS_Product
<1>2. A = P("tcp") \cup P("udp") \cup P("sctp") /\ {"tcp", "udp", "sctp"} \subseteq Protos
  BY DEF Protos
<1>3. IsFiniteSet(A)
  <2> HIDE DEF P, A
  <2>1. IsFiniteSet(P("tcp")) /\ IsFiniteSet(P("udp")) /\ IsFiniteSet(P("sctp"))
    BY <1>1, <1>2
  <2>2. IsFiniteSet(P("tcp") \cup P("udp"))
    BY <2>1, FS_Union
  <2>3. IsFiniteSet(P("tcp") \cup P("udp") \cup P("sctp"))
    BY <2>1, <2>2, FS_Union
  <2> QED
    BY <1>2, <2>3
<1>4. numPorts = Cardinality(A)
  BY DEF numPorts
<1>5. Wanted(st) \in SUBSET A
  BY DEF Wanted, Match
<1> HIDE DEF A
<1> QED
  BY <1>3, <1>4, <1>5, FS_Subset, FS_CardinalityType

\* The loop over nextPort() as a recursion.
LEMMA VisitIsLoop ==
  ASSUME NEW st, NEW ap \in Protos \cup {"all"}
  PROVE  \E v : /\ IsLoop(v, numPorts, Wanted(st), NextPorts(ap, st), NoPort)
                /\ Visit(ap, st) = v[numPorts]
<1> DEFINE S == Wanted(st)
           nxt == NextPorts(ap, st)
           N == numPorts
<1>1. N \in Nat /\ NoPort \notin S /\ nxt \in [S \cup {NoPort} -> S \cup {NoPort}]
      /\ \A x \in S \cup {NoPort} : nxt[x] = nextPort(x, ap, st)
  BY PortsFinite, PortPairs, NextPortType DEF NextPorts
<1> HIDE DEF S, nxt, N
<1> DEFINE step(k, seen) ==
             LET cur  == IF k = 1 THEN NoPort ELSE seen[Len(seen)]
                 next == nextPort(cur, ap, st)
             IN IF Len(seen) < k - 1 \/ next = NoPort THEN seen ELSE Append(seen, next)
\* With what was seen so far in S it is a turn of the loop.
<1>2. ASSUME NEW k \in 1 .. N, NEW seen \in Seq(S)
      PROVE  step(k, seen) = Turn(nxt, NoPort, k, seen)
  <2> DEFINE cur == IF k = 1 THEN NoPort ELSE seen[Len(seen)]
  <2>1. k \in Nat \ {0}
    BY <1>1
  <2>2. k = 1 \/ Len(seen) < k - 1 \/ seen[Len(seen)] \in S
    BY <1>1, <2>1, TurnType
  <2>3. Len(seen) < k - 1 \/ nxt[cur] = nextPort(cur, ap, st)
    BY <1>1, <2>2
  <2>4. Turn(nxt, NoPort, k, seen) =
          IF Len(seen) < k - 1 \/ nxt[cur] = NoPort THEN seen ELSE Append(seen, nxt[cur])
    BY DEF Turn
  <2>5. step(k, seen) =
          IF Len(seen) < k - 1 \/ nextPort(cur, ap, st) = NoPort THEN seen
          ELSE Append(seen, nextPort(cur, ap, st))
    OBVIOUS
  <2> HIDE DEF cur, step
  <2> QED
    BY <2>3, <2>4, <2>5
<1>3. \A v : IsVisit(v, ap, st) <=> v = [k \in 0 .. N |-> IF k = 0 THEN <<>> ELSE step(k, v[k - 1])]
  BY DEF IsVisit, N
<1> HIDE DEF step
<1>4. \E v : IsVisit(v, ap, st)
  <2>1. PICK v \in [0 .. N -> Seq(S)] : IsLoop(v, N, S, nxt, NoPort)
    BY <1>1, LoopExists
  <2>2. ASSUME NEW k \in 0 .. N PROVE v[k] = IF k = 0 THEN <<>> ELSE step(k, v[k - 1])
    <3>1. CASE k = 0
      BY <2>1, <3>1 DEF IsLoop
    <3>2. CASE k # 0
      <4>1. k \in 1 .. N /\ v[k - 1] \in Seq(S)
        BY <1>1, <2>1, <2>2, <3>2
      <4> QED
        BY <1>2, <2>1, <3>2, <4>1 DEF IsLoop
    <3> QED
      BY <3>1, <3>2
  <2>3. v = [k \in 0 .. N |-> v[k]]
    BY <2>1
  <2>4. [k \in 0 .. N |-> v[k]] = [k \in 0 .. N |-> IF k = 0 THEN <<>> ELSE step(k, v[k - 1])]
    BY <2>2
  <2>5. v = [k \in 0 .. N |-> IF k = 0 THEN <<>> ELSE step(k, v[k - 1])]
    BY <2>3, <2>4
  <2> QED
    BY <1>3, <2>5
<1> DEFINE v == CHOOSE f : IsVisit(f, ap, st)
<1>5. IsVisit(v, ap, st)
  BY <1>4
<1>6. Visit(ap, st) = v[N]
  BY DEF Visit, IsVisit, N
<1> HIDE DEF v
<1>7. v = [k \in 0 .. N |-> IF k = 0 THEN <<>> ELSE step(k, v[k - 1])]
  BY <1>3, <1>5
<1>8. IsLoop(v, N, S, nxt, NoPort)
  <2>1. v[0] = <<>>
    BY <1>1, <1>7
  <2>2. ASSUME NEW k \in 1 .. N, v[k - 1] \in Seq(S) PROVE v[k] = Turn(nxt, NoPort, k, v[k - 1])
    <3>1. v[k] = step(k, v[k - 1])
      BY <1>1, <1>7
    <3> QED
      BY <1>2, <2>2, <3>1
  <2> QED
    BY <2>1, <2>2 DEF IsLoop
<1> QED
  BY <1>6, <1>8 DEF S, nxt, N

\* nextPort() gives the next of all the ports.
LEMMA NextPortGivesNext ==
  ASSUME NEW st
  PROVE  GivesNext(NextPorts("all", st), Wanted(st), PortOrder(Wanted(st)), NoPort)
<1> DEFINE S == Wanted(st)
           lt == PortOrder(S)
           nxt == NextPorts("all", st)
<1> SUFFICES ASSUME NEW x \in S \cup {NoPort}
             PROVE  IF Later(S, lt, NoPort, x) = {} THEN nxt[x] = NoPort
                    ELSE /\ nxt[x] \in Later(S, lt, NoPort, x)
                         /\ \A y \in Later(S, lt, NoPort, x) : y = nxt[x] \/ <<nxt[x], y>> \in lt
  BY DEF GivesNext
<1> DEFINE proto == IF x # NoPort THEN x[1] ELSE "tcp"
           above == IF x = NoPort THEN -1 ELSE x[2]
           here == Search(proto, above, st)
           udp == Search("udp", -1, st)
           sctp == Search("sctp", -1, st)
           q == nextPort(x, "all", st)
           later(y) == \/ x = NoPort \/ Rank(x) < Rank(y) \/ (x[1] = y[1] /\ x[2] < y[2])
<1>1. /\ \A y \in S : /\ y[1] \in {"tcp", "udp", "sctp"} /\ y[2] \in Match(y[1], st) /\ y[2] \in Nat
                      /\ y = <<y[1], y[2]>>
      /\ \A p \in {"tcp", "udp", "sctp"} : \A n \in Match(p, st) :
           <<p, n>> \in S /\ n \in Nat /\ <<p, n>> # NoPort
      /\ NoPort \notin S
  BY PortPairs DEF Protos
<1>2. \A y \in S : Rank(y) = IF y[1] = "tcp" THEN 1 ELSE IF y[1] = "udp" THEN 2 ELSE 3
  BY <1>1 DEF Rank
<1>3. /\ \A y : y \in Later(S, lt, NoPort, x) <=> y \in S /\ later(y)
      /\ \A y, z \in S : <<y, z>> \in lt <=> Rank(y) < Rank(z) \/ (y[1] = z[1] /\ y[2] < z[2])
  BY <1>1 DEF Later, PortOrder
<1>4. nxt[x] = q
  BY DEF NextPorts
<1>5. /\ proto \in Protos /\ proto \in {"tcp", "udp", "sctp"} /\ above \in Int /\ -1 \in Int
      /\ "udp" \in Protos /\ "sctp" \in Protos
  BY <1>1 DEF Protos
<1>6. q = IF here # NoPort THEN here
          ELSE IF proto = "tcp" THEN (IF udp # NoPort THEN udp ELSE sctp)
          ELSE IF proto = "udp" THEN sctp ELSE NoPort
  <2>1. q = CASE here # NoPort -> here
       [] here = NoPort /\ (x = NoPort \/ (x # NoPort /\ proto = "tcp"))
            -> FirstOfUdpAndSctp(st)
       [] here = NoPort /\ x # NoPort /\ proto = "udp" -> sctp
       [] OTHER -> NoPort
    BY DEF nextPort
  <2>2. FirstOfUdpAndSctp(st) = IF udp # NoPort THEN udp ELSE sctp
    BY DEF FirstOfUdpAndSctp
  <2>3. x = NoPort => proto = "tcp"
    OBVIOUS
  <2> HIDE DEF q, here, udp, sctp, proto
  <2> QED
    BY <2>1, <2>2, <2>3
<1>7. \/ here = NoPort /\ \A n \in Match(proto, st) : ~ (n > above)
      \/ \E n \in Match(proto, st) : /\ here = <<proto, n>> /\ n > above
                                     /\ \A m \in Match(proto, st) : m > above => n <= m
  <2> HIDE DEF proto, above
  <2> QED
    BY <1>5, SearchIs
<1>8. \/ udp = NoPort /\ \A n \in Match("udp", st) : ~ (n > -1)
      \/ \E n \in Match("udp", st) : /\ udp = <<"udp", n>> /\ n > -1
                                     /\ \A m \in Match("udp", st) : m > -1 => n <= m
  BY <1>5, SearchIs
<1>9. \/ sctp = NoPort /\ \A n \in Match("sctp", st) : ~ (n > -1)
      \/ \E n \in Match("sctp", st) : /\ sctp = <<"sctp", n>> /\ n > -1
                                      /\ \A m \in Match("sctp", st) : m > -1 => n <= m
  BY <1>5, SearchIs
\* The ports that come after x: those of its protocol above it and all those of the
\* protocols that follow.
<1>10. ASSUME NEW y \in S
       PROVE  later(y) <=> \/ y[1] = proto /\ y[2] > above
                           \/ proto = "tcp" /\ y[1] \in {"udp", "sctp"}
                           \/ proto = "udp" /\ y[1] = "sctp"
  <2>1. CASE x = NoPort
    <3>1. y[1] \in {"tcp", "udp", "sctp"} /\ y[2] > above /\ proto = "tcp" /\ later(y)
      BY <1>1, <2>1
    <3> HIDE DEF later, proto, above
    <3> QED
      BY <3>1
  <2>2. CASE x # NoPort
    <3>1. x \in S /\ proto = x[1] /\ above = x[2]
      BY <2>2
    <3>2. /\ x[1] \in {"tcp", "udp", "sctp"} /\ y[1] \in {"tcp", "udp", "sctp"}
          /\ x[2] \in Nat /\ y[2] \in Nat
      BY <1>1, <3>1
    <3>3. /\ Rank(x) = IF x[1] = "tcp" THEN 1 ELSE IF x[1] = "udp" THEN 2 ELSE 3
          /\ Rank(y) = IF y[1] = "tcp" THEN 1 ELSE IF y[1] = "udp" THEN 2 ELSE 3
      BY <1>2, <3>1
    <3>4. Rank(x) < Rank(y) <=> \/ x[1] = "tcp" /\ y[1] \in {"udp", "sctp"}
                                \/ x[1] = "udp" /\ y[1] = "sctp"
      BY <3>2, <3>3
    <3>5. x[2] < y[2] <=> y[2] > x[2]
      BY <3>2
    <3> HIDE DEF proto, above
    <3> QED
      BY <2>2, <3>1, <3>4, <3>5
  <2> QED
    BY <2>1, <2>2
<1>10a. ASSUME NEW y \in S, here = NoPort, later(y) PROVE y[1] # proto
  <2> SUFFICES ASSUME y[1] = proto PROVE FALSE
    OBVIOUS
  <2>1. y[2] \in Match(proto, st)
    BY <1>1
  <2>2. y[2] > above
    <3> HIDE DEF later, proto, above
    <3> QED
      BY <1>10, <1>10a
  <2>3. \A n \in Match(proto, st) : <<proto, n>> # NoPort
    BY <1>1, <1>5
  <2> HIDE DEF later, proto, above, here
  <2> QED
    BY <1>7, <1>10a, <2>1, <2>2, <2>3
<1> HIDE DEF later, proto, above, here, udp, sctp, q, S, lt, nxt
<1> SUFFICES /\ q = NoPort => \A y \in S : ~later(y)
             /\ q # NoPort => /\ q \in S /\ later(q)
                              /\ \A y \in S : later(y) => y = q \/ <<q, y>> \in lt
  <2>1. CASE q = NoPort
    BY <1>3, <1>4, <2>1
  <2>2. CASE q # NoPort
    BY <1>3, <1>4, <2>2
  <2> QED
    BY <2>1, <2>2
<1>11. CASE here # NoPort
  <2>1. q = here
    BY <1>6, <1>11
  <2>2. PICK n \in Match(proto, st) : /\ q = <<proto, n>> /\ n > above
                                      /\ \A m \in Match(proto, st) : m > above => n <= m
    BY <1>7, <1>11, <2>1
  <2>3. q \in S /\ q[1] = proto /\ q[2] = n /\ n \in Nat
    BY <1>1, <1>5, <2>2
  <2>4. later(q)
    BY <1>10, <2>2, <2>3
  <2>5. ASSUME NEW y \in S, later(y) PROVE y = q \/ <<q, y>> \in lt
    <3>1. y[1] \in {"tcp", "udp", "sctp"} /\ y[2] \in Match(y[1], st) /\ y[2] \in Nat /\ y = <<y[1], y[2]>>
      BY <1>1
    <3>2. CASE y[1] = proto /\ y[2] > above
      <4>1. n <= y[2]
        BY <2>2, <3>1, <3>2
      <4>2. n = y[2] => y = q
        BY <2>2, <3>1, <3>2
      <4> QED
        BY <1>3, <2>3, <3>1, <3>2, <4>1, <4>2
    <3>3. CASE (proto = "tcp" /\ y[1] \in {"udp", "sctp"}) \/ (proto = "udp" /\ y[1] = "sctp")
      <4>1. Rank(q) < Rank(y)
        BY <1>2, <2>3, <3>3
      <4> QED
        BY <1>3, <2>3, <4>1
    <3> QED
      BY <1>10, <2>5, <3>2, <3>3
  <2> QED
    BY <1>11, <2>1, <2>3, <2>4, <2>5
<1>12. CASE here = NoPort /\ proto = "tcp" /\ udp # NoPort
  <2>1. q = udp
    BY <1>6, <1>12
  <2>2. PICK n \in Match("udp", st) : /\ q = <<"udp", n>>
                                      /\ \A m \in Match("udp", st) : m > -1 => n <= m
    BY <1>8, <1>12, <2>1
  <2>3. q \in S /\ q[1] = "udp" /\ q[2] = n /\ n \in Nat
    BY <1>1, <2>2
  <2>4. later(q)
    BY <1>10, <1>12, <2>3
  <2>5. ASSUME NEW y \in S, later(y) PROVE y = q \/ <<q, y>> \in lt
    <3>1. y[1] \in {"tcp", "udp", "sctp"} /\ y[2] \in Match(y[1], st) /\ y[2] \in Nat /\ y = <<y[1], y[2]>>
      BY <1>1
    <3>2. y[1] # "tcp"
      BY <1>12, <1>10a, <2>5
    <3>3. CASE y[1] = "udp"
      <4>1. n <= y[2]
        BY <2>2, <3>1, <3>3
      <4>2. n = y[2] => y = q
        BY <2>2, <3>1, <3>3
      <4> QED
        BY <1>3, <2>3, <3>1, <3>3, <4>1, <4>2
    <3>4. CASE y[1] = "sctp"
      <4>1. Rank(q) < Rank(y)
        BY <1>2, <2>3, <3>4
      <4> QED
        BY <1>3, <2>3, <4>1
    <3> QED
      BY <3>1, <3>2, <3>3, <3>4
  <2> QED
    BY <1>12, <2>1, <2>3, <2>4, <2>5
<1>13. CASE here = NoPort /\ sctp # NoPort /\ ((proto = "tcp" /\ udp = NoPort) \/ proto = "udp")
  <2>1. q = sctp
    BY <1>6, <1>13
  <2>2. PICK n \in Match("sctp", st) : /\ q = <<"sctp", n>>
                                       /\ \A m \in Match("sctp", st) : m > -1 => n <= m
    BY <1>9, <1>13, <2>1
  <2>3. q \in S /\ q[1] = "sctp" /\ q[2] = n /\ n \in Nat
    BY <1>1, <2>2
  <2>4. later(q)
    BY <1>10, <1>13, <2>3
  <2>5. ASSUME NEW y \in S, later(y) PROVE y = q \/ <<q, y>> \in lt
    <3>1. y[1] \in {"tcp", "udp", "sctp"} /\ y[2] \in Match(y[1], st) /\ y[2] \in Nat /\ y = <<y[1], y[2]>>
      BY <1>1
    <3>2. y[1] = "sctp"
      <4>1. y[1] # proto
        BY <1>13, <1>10a, <2>5
      <4>2. udp = NoPort => y[1] # "udp"
        BY <1>1, <1>8, <3>1
      <4> QED
        BY <1>10, <1>13, <2>5, <3>1, <4>1, <4>2
    <3>3. n <= y[2]
      BY <2>2, <3>1, <3>2
    <3>4. n = y[2] => y = q
      BY <2>2, <3>1, <3>2
    <3> QED
      BY <1>3, <2>3, <3>1, <3>2, <3>3, <3>4
  <2> QED
    BY <1>13, <2>1, <2>3, <2>4, <2>5
<1>14. CASE /\ here = NoPort
            /\ \/ proto = "tcp" /\ udp = NoPort /\ sctp = NoPort
               \/ proto = "udp" /\ sctp = NoPort
               \/ proto = "sctp"
  <2>1. q = NoPort
    BY <1>6, <1>14
  <2>2. ASSUME NEW y \in S, later(y) PROVE FALSE
    <3>1. y[1] \in {"tcp", "udp", "sctp"} /\ y[2] \in Match(y[1], st) /\ y[2] \in Nat
      BY <1>1
    <3>2. y[1] # proto
      BY <1>14, <1>10a, <2>2
    <3>3. (udp = NoPort => y[1] # "udp") /\ (sctp = NoPort => y[1] # "sctp")
      BY <1>1, <1>8, <1>9, <3>1
    <3> QED
      BY <1>10, <1>14, <2>2, <3>1, <3>2, <3>3
  <2> QED
    BY <2>1, <2>2
<1> QED
  BY <1>5, <1>11, <1>12, <1>13, <1>14

\* A loop over all the ports gives each of those wanted once, in their order.
LEMMA VisitComplete ==
  ASSUME NEW st
  PROVE  Complete(Wanted(st), PortOrder(Wanted(st)), Visit("all", st))
<1> DEFINE S == Wanted(st)
           lt == PortOrder(S)
           nxt == NextPorts("all", st)
           N == numPorts
<1>1. PICK v : IsLoop(v, N, S, nxt, NoPort) /\ Visit("all", st) = v[N]
  BY VisitIsLoop
<1>2. NoPort \notin S /\ nxt \in [S \cup {NoPort} -> S \cup {NoPort}]
  BY PortPairs, NextPortType DEF NextPorts
<1>3. Orders(lt, S) /\ GivesNext(nxt, S, lt, NoPort)
  BY RankOrder, NextPortGivesNext
<1>4. N \in Nat /\ IsFiniteSet(S) /\ Cardinality(S) <= N
  BY PortsFinite
<1> HIDE DEF S, lt, nxt, N
<1>5. Complete(S, lt, v[N])
  BY <1>1, <1>2, <1>3, <1>4, LoopComplete, Zenon
<1> QED
  BY <1>1, <1>5 DEF S, lt

\* A loop over nextPort() gives every port once.
LEMMA LoopsComplete == IterationComplete
<1> SUFFICES ASSUME NEW st \in States
             PROVE  LET loop == Visit("all", st) IN
                    /\ {loop[k] : k \in DOMAIN loop} = Wanted(st)
                    /\ \A k \in 2 .. Len(loop) :
                         \/ Rank(loop[k - 1]) < Rank(loop[k])
                         \/ loop[k - 1][1] = loop[k][1] /\ loop[k - 1][2] < loop[k][2]
  <2>1. \A st : Wanted(st) = UNION {{proto} \X {n \in Scanned[proto] :
                                 st \in {0, getPortState(ports[proto], n)}} : proto \in Protos}
    BY DEF Wanted, Match
  <2> QED
    BY <2>1, Zenon DEF IterationComplete, Rank
<1> DEFINE loop == Visit("all", st)
           S == Wanted(st)
<1>1. /\ loop \in Seq(S)
      /\ \A j, l \in 1 .. Len(loop) : j < l => <<loop[j], loop[l]>> \in PortOrder(S)
      /\ \A y \in S : \E j \in 1 .. Len(loop) : loop[j] = y
  BY VisitComplete DEF Complete
<1> HIDE DEF loop, S
<1>2. /\ Len(loop) \in Nat /\ DOMAIN loop = 1 .. Len(loop)
      /\ \A j \in 1 .. Len(loop) : loop[j] \in S
  BY <1>1, LenProperties, ElementOfSeq
<1>3. {loop[k] : k \in DOMAIN loop} = S
  BY <1>1, <1>2
<1>4. ASSUME NEW k \in 2 .. Len(loop)
      PROVE  \/ Rank(loop[k - 1]) < Rank(loop[k])
             \/ loop[k - 1][1] = loop[k][1] /\ loop[k - 1][2] < loop[k][2]
  <2>1. k - 1 \in 1 .. Len(loop) /\ k \in 1 .. Len(loop) /\ k - 1 < k
    BY <1>2
  <2>2. PICK p, q : p = loop[k - 1] /\ q = loop[k]
    OBVIOUS
  <2>3. <<p, q>> \in PortOrder(S)
    BY <1>1, <2>1, <2>2
  <2>4. Rank(p) < Rank(q) \/ (p[1] = q[1] /\ p[2] < q[2])
    BY <2>3 DEF PortOrder
  <2> QED
    BY <2>2, <2>4
<1> QED
  BY <1>3, <1>4 DEF loop, S

\* Whatever the ports and their states, a loop over nextPort() that asks for a state
\* gives each port in that state once and in order.
THEOREM LoopsGiveEveryPort == Spec => []IterationComplete
  BY LoopsComplete, PTL

--------------------------------------------------------------------------------
(* The states that the output sums up.                                      *)

CountsAreNumbers == \A proto \in Protos : ports[proto].counts \in [States -> Int]

IgnoredStates == {s \in States : isIgnoredState(s)}
StateOrder ==
  {p \in States \X States : \/ getStateCounts(p[1]) > getStateCounts(p[2])
                            \/ getStateCounts(p[1]) = getStateCounts(p[2]) /\ p[1] < p[2]}
NextStates == [s \in IgnoredStates \cup {PORT_UNKNOWN} |-> nextIgnoredState(s)]

\* There are at most nine ignored states.
LEMMA IgnoredFinite ==
  /\ IgnoredStates \subseteq States /\ PORT_UNKNOWN \notin IgnoredStates /\ States \subseteq Int
  /\ IsFiniteSet(IgnoredStates) /\ Cardinality(IgnoredStates) <= 9 /\ 9 \in Nat
<1>1. IgnoredStates \subseteq States /\ PORT_UNKNOWN \notin IgnoredStates /\ States \subseteq Int
  BY DEF IgnoredStates, isIgnoredState, States
<1>2. IsFiniteSet(States) /\ Cardinality(States) = 9
  <2>1. 0 \in Int /\ 8 \in Int /\ 8 - 0 + 1 = 9 /\ ~ (0 > 8)
    OBVIOUS
  <2>2. IsFiniteSet(0 .. 8) /\ Cardinality(0 .. 8) = 8 - 0 + 1
    BY <2>1, FS_Interval
  <2> QED
    BY <2>1, <2>2 DEF States
<1> QED
  BY <1>1, <1>2, FS_Subset

\* Counts, and numbers where they are equal, order the ignored states.
LEMMA StatesOrdered ==
  ASSUME CountsAreNumbers
  PROVE  Orders(StateOrder, IgnoredStates)
<1>1. \A s \in States : getStateCounts(s) \in Int /\ s \in Int
  <2>1. \A proto \in Protos : \A s \in States : ports[proto].counts[s] \in Int
    BY DEF CountsAreNumbers
  <2>2. "tcp" \in Protos /\ "udp" \in Protos /\ "sctp" \in Protos
    BY DEF Protos
  <2> QED
    BY <2>1, <2>2, IgnoredFinite DEF getStateCounts
<1>2. \A x, y \in States : <<x, y>> \in StateOrder <=>
        \/ getStateCounts(x) > getStateCounts(y)
        \/ getStateCounts(x) = getStateCounts(y) /\ x < y
  BY DEF StateOrder
<1>3. \A x \in States : <<x, x>> \notin StateOrder
  BY <1>1, <1>2
<1>4. \A x, y, z \in States : <<x, y>> \in StateOrder /\ <<y, z>> \in StateOrder => <<x, z>> \in StateOrder
  BY <1>1, <1>2
<1>5. ASSUME NEW x \in States, NEW y \in States
      PROVE  x = y \/ <<x, y>> \in StateOrder \/ <<y, x>> \in StateOrder
  <2>1. \/ getStateCounts(x) > getStateCounts(y) \/ getStateCounts(y) > getStateCounts(x)
        \/ getStateCounts(x) = getStateCounts(y) /\ (x < y \/ y < x \/ x = y)
    BY <1>1
  <2> QED
    BY <1>2, <2>1
<1> QED
  BY <1>3, <1>4, <1>5, IgnoredFinite DEF Orders

\* nextIgnoredState() gives the next of the ignored states, the larger count first.
LEMMA NextStateGivesNext ==
  ASSUME CountsAreNumbers
  PROVE  /\ NextStates \in [IgnoredStates \cup {PORT_UNKNOWN} -> IgnoredStates \cup {PORT_UNKNOWN}]
         /\ GivesNext(NextStates, IgnoredStates, StateOrder, PORT_UNKNOWN)
<1> DEFINE S == IgnoredStates
           lt == StateOrder
<1>1. ASSUME NEW x \in S \cup {PORT_UNKNOWN}
      PROVE  IF Later(S, lt, PORT_UNKNOWN, x) = {} THEN nextIgnoredState(x) = PORT_UNKNOWN
             ELSE /\ nextIgnoredState(x) \in Later(S, lt, PORT_UNKNOWN, x)
                  /\ \A y \in Later(S, lt, PORT_UNKNOWN, x) :
                       y = nextIgnoredState(x) \/ <<nextIgnoredState(x), y>> \in lt
  <2> DEFINE left == {s \in States : isIgnoredState(s)
                        /\ (x # PORT_UNKNOWN => MayFollow(s, x))}
             first(s) == \A t \in left : \/ getStateCounts(s) > getStateCounts(t)
                                         \/ getStateCounts(s) = getStateCounts(t) /\ s <= t
  <2>1. /\ x \in States
        /\ \A s \in States : getStateCounts(s) \in Int /\ s \in Int
    <3>1. \A proto \in Protos : \A s \in States : ports[proto].counts[s] \in Int
      BY DEF CountsAreNumbers
    <3>2. "tcp" \in Protos /\ "udp" \in Protos /\ "sctp" \in Protos
      BY DEF Protos
    <3> QED
      BY <3>1, <3>2, IgnoredFinite, StateTypes DEF getStateCounts
  <2>2. \A s, t \in States : <<s, t>> \in lt <=>
          \/ getStateCounts(s) > getStateCounts(t)
          \/ getStateCounts(s) = getStateCounts(t) /\ s < t
    BY DEF StateOrder
  <2>3. left = Later(S, lt, PORT_UNKNOWN, x)
    <3>1. \A s \in States : MayFollow(s, x) <=> <<x, s>> \in lt
      BY <2>1, <2>2 DEF MayFollow
    <3> HIDE DEF lt
    <3> QED
      BY <3>1 DEF Later, IgnoredStates
  <2>4. nextIgnoredState(x) = IF left = {} THEN PORT_UNKNOWN ELSE CHOOSE s \in left : first(s)
    BY DEF nextIgnoredState
  <2>5. left \in SUBSET S /\ left \subseteq States
    BY DEF IgnoredStates
  <2>6. left # {} => \E s \in left : first(s)
    <3>1. IsFiniteSet(left) /\ Orders(lt, S)
      <4> HIDE DEF left
      <4> QED
        BY <2>5, IgnoredFinite, FS_Subset, StatesOrdered
    <3>2. left # {} => \E s \in left : \A t \in left : t = s \/ <<s, t>> \in lt
      <4> HIDE DEF left, S, lt
      <4> SUFFICES ASSUME left # {} PROVE \E s \in left : \A t \in left : t = s \/ <<s, t>> \in lt
        OBVIOUS
      <4> QED
        BY <2>5, <3>1, FirstExists
    <3>3. \A s, t \in left : t = s \/ <<s, t>> \in lt =>
            \/ getStateCounts(s) > getStateCounts(t)
            \/ getStateCounts(s) = getStateCounts(t) /\ s <= t
      <4> HIDE DEF left, lt
      <4> QED
        BY <2>1, <2>2, <2>5
    <3> HIDE DEF left, lt
    <3> QED
      BY <3>2, <3>3
  <2>7. ASSUME left # {}
        PROVE  nextIgnoredState(x) \in left /\ first(nextIgnoredState(x))
    <3> HIDE DEF left, first
    <3> QED
      BY <2>4, <2>6, <2>7
  <2>8. ASSUME NEW s \in left, first(s), NEW t \in left PROVE t = s \/ <<s, t>> \in lt
    <3>1. \/ getStateCounts(s) > getStateCounts(t)
          \/ getStateCounts(s) = getStateCounts(t) /\ s <= t
      BY <2>8
    <3> HIDE DEF left, first, lt
    <3> QED
      BY <2>1, <2>2, <2>5, <3>1
  <2> HIDE DEF left, first, lt, S
  <2> QED
    BY <2>3, <2>4, <2>7, <2>8
<1>2. \A x \in S \cup {PORT_UNKNOWN} : Later(S, lt, PORT_UNKNOWN, x) \subseteq S
  BY DEF Later
<1>3. \A x \in S \cup {PORT_UNKNOWN} : nextIgnoredState(x) \in S \cup {PORT_UNKNOWN}
  <2> HIDE DEF S, lt
  <2> QED
    BY <1>1, <1>2
<1>4. NextStates \in [S \cup {PORT_UNKNOWN} -> S \cup {PORT_UNKNOWN}]
      /\ \A x \in S \cup {PORT_UNKNOWN} : NextStates[x] = nextIgnoredState(x)
  BY <1>3 DEF NextStates
<1> HIDE DEF S, lt
<1>5. GivesNext(NextStates, S, lt, PORT_UNKNOWN)
  BY <1>1, <1>4 DEF GivesNext
<1> QED
  BY <1>4, <1>5 DEF S, lt

\* IgnoredCycle is the loop over them.
IsCycle(v) ==
  v = [k \in 0 .. 9 |->
         IF k = 0 THEN <<>>
         ELSE LET seen == v[k - 1]
                  prev == IF k = 1 THEN PORT_UNKNOWN ELSE seen[Len(seen)]
                  next == nextIgnoredState(prev)
              IN IF Len(seen) < k - 1 \/ next = PORT_UNKNOWN THEN seen
                 ELSE Append(seen, next)]

\* The cycle over the ignored states gives each of them once.
LEMMA CycleComplete ==
  ASSUME CountsAreNumbers
  PROVE  Complete(IgnoredStates, StateOrder, IgnoredCycle)
<1> DEFINE S == IgnoredStates
           nxt == NextStates
           start == PORT_UNKNOWN
           lt == StateOrder
           N == 9
<1>1. /\ N \in Nat /\ start \notin S /\ nxt \in [S \cup {start} -> S \cup {start}]
      /\ IsFiniteSet(S) /\ Cardinality(S) <= N
      /\ Orders(lt, S) /\ GivesNext(nxt, S, lt, start)
  BY IgnoredFinite, StatesOrdered, NextStateGivesNext
<1>2. \A x \in S \cup {start} : nxt[x] = nextIgnoredState(x)
  BY DEF NextStates
<1> HIDE DEF S, nxt, N, lt, start
<1> DEFINE step(k, seen) ==
             LET prev == IF k = 1 THEN start ELSE seen[Len(seen)]
                 next == nextIgnoredState(prev)
             IN IF Len(seen) < k - 1 \/ next = start THEN seen ELSE Append(seen, next)
<1>3. ASSUME NEW k \in 1 .. N, NEW seen \in Seq(S)
      PROVE  step(k, seen) = Turn(nxt, start, k, seen)
  <2> DEFINE cur == IF k = 1 THEN start ELSE seen[Len(seen)]
  <2>1. k \in Nat \ {0}
    BY <1>1
  <2>2. k = 1 \/ Len(seen) < k - 1 \/ seen[Len(seen)] \in S
    BY <1>1, <2>1, TurnType
  <2>3. Len(seen) < k - 1 \/ nxt[cur] = nextIgnoredState(cur)
    BY <1>2, <2>2
  <2>4. Turn(nxt, start, k, seen) =
          IF Len(seen) < k - 1 \/ nxt[cur] = start THEN seen ELSE Append(seen, nxt[cur])
    BY DEF Turn
  <2>5. step(k, seen) =
          IF Len(seen) < k - 1 \/ nextIgnoredState(cur) = start THEN seen
          ELSE Append(seen, nextIgnoredState(cur))
    OBVIOUS
  <2> HIDE DEF cur, step
  <2> QED
    BY <2>3, <2>4, <2>5
<1>4. \A v : IsCycle(v) <=> v = [k \in 0 .. N |-> IF k = 0 THEN <<>> ELSE step(k, v[k - 1])]
  BY DEF IsCycle, N, start
<1> HIDE DEF step
<1>5. \E v : IsCycle(v)
  <2>1. PICK v \in [0 .. N -> Seq(S)] : IsLoop(v, N, S, nxt, start)
    BY <1>1, LoopExists
  <2>2. ASSUME NEW k \in 0 .. N PROVE v[k] = IF k = 0 THEN <<>> ELSE step(k, v[k - 1])
    <3>1. CASE k = 0
      BY <2>1, <3>1 DEF IsLoop
    <3>2. CASE k # 0
      <4>1. k \in 1 .. N /\ v[k - 1] \in Seq(S)
        BY <1>1, <2>1, <2>2, <3>2
      <4> QED
        BY <1>3, <2>1, <3>2, <4>1 DEF IsLoop
    <3> QED
      BY <3>1, <3>2
  <2>3. v = [k \in 0 .. N |-> v[k]]
    BY <2>1
  <2>4. [k \in 0 .. N |-> v[k]] = [k \in 0 .. N |-> IF k = 0 THEN <<>> ELSE step(k, v[k - 1])]
    BY <2>2
  <2>5. v = [k \in 0 .. N |-> IF k = 0 THEN <<>> ELSE step(k, v[k - 1])]
    BY <2>3, <2>4
  <2> QED
    BY <1>4, <2>5
<1> DEFINE v == CHOOSE f : IsCycle(f)
<1>6. IsCycle(v)
  BY <1>5
<1>7. IgnoredCycle = v[N]
  BY DEF IgnoredCycle, IsCycle, N
<1> HIDE DEF v
<1>8. v = [k \in 0 .. N |-> IF k = 0 THEN <<>> ELSE step(k, v[k - 1])]
  BY <1>4, <1>6
<1>9. IsLoop(v, N, S, nxt, start)
  <2>1. v[0] = <<>>
    BY <1>1, <1>8
  <2>2. ASSUME NEW k \in 1 .. N, v[k - 1] \in Seq(S) PROVE v[k] = Turn(nxt, start, k, v[k - 1])
    <3>1. v[k] = step(k, v[k - 1])
      BY <1>1, <1>8
    <3> QED
      BY <1>3, <2>2, <3>1
  <2> QED
    BY <2>1, <2>2 DEF IsLoop
<1>10. Complete(S, lt, v[N])
  BY <1>1, <1>9, LoopComplete, Zenon
<1> QED
  BY <1>7, <1>10 DEF S, lt

\* So every ignored state is summed once.
LEMMA SummedOnce ==
  ASSUME CountsAreNumbers
  PROVE  IgnoredStatesSummedOnce
<1> DEFINE cycle == IgnoredCycle
           at(s) == {k \in DOMAIN cycle : cycle[k] = s}
<1>1. /\ cycle \in Seq(IgnoredStates)
      /\ \A j, l \in 1 .. Len(cycle) : j < l => <<cycle[j], cycle[l]>> \in StateOrder
      /\ \A y \in IgnoredStates : \E j \in 1 .. Len(cycle) : cycle[j] = y
  BY CycleComplete DEF Complete
<1> SUFFICES ASSUME NEW s \in States
             PROVE  Cardinality(at(s)) = (IF isIgnoredState(s) THEN 1 ELSE 0)
  BY DEF IgnoredStatesSummedOnce
<1> HIDE DEF cycle
<1>2. /\ Len(cycle) \in Nat /\ DOMAIN cycle = 1 .. Len(cycle)
      /\ \A j \in 1 .. Len(cycle) : cycle[j] \in IgnoredStates
  BY <1>1, LenProperties, ElementOfSeq
<1>3. CASE isIgnoredState(s)
  <2>1. s \in IgnoredStates
    BY <1>3 DEF IgnoredStates
  <2>2. PICK j \in 1 .. Len(cycle) : cycle[j] = s
    BY <1>1, <2>1
  <2>3. ASSUME NEW l \in 1 .. Len(cycle), cycle[l] = s PROVE l = j
    <3>1. <<s, s>> \notin StateOrder
      BY <2>1, StatesOrdered DEF Orders
    <3>2. j < l \/ l < j \/ l = j
      BY <1>2
    <3> QED
      BY <1>1, <2>2, <2>3, <3>1, <3>2
  <2>4. at(s) = {j}
    BY <1>2, <2>2, <2>3
  <2>5. Cardinality({j}) = 1
    BY FS_Singleton
  <2> QED
    BY <1>3, <2>4, <2>5
<1>4. CASE ~isIgnoredState(s)
  <2>1. at(s) = {}
    BY <1>2, <1>4 DEF IgnoredStates
  <2> QED
    BY <1>4, <2>1, FS_EmptySet
<1> QED
  BY <1>3, <1>4

--------------------------------------------------------------------------------
(* The inductive invariant.                                                 *)

TypeInv ==
  /\ ports = [proto \in Protos |-> ports[proto]]
  /\ \A proto \in Protos : ports[proto] \in Table(proto)
  /\ answers = [proto \in Protos |-> answers[proto]]
  /\ \A proto \in Protos : answers[proto] \in [Scanned[proto] -> SUBSET States]
  /\ scan \in ScanNames \cup {"none"} /\ todo \in Seq(ScanNames)
  /\ stage \in {"scan", "service", "script"}

CountInv == \A proto \in Protos : Exact(proto, ports[proto])

\* Two scans of a plan are for different protocols, or both for SCTP.
Apart(s, t) == ProtoOf(s) = ProtoOf(t) => ProtoOf(s) = "sctp"
PlanInv ==
  /\ \A j, k \in 1 .. Len(todo) : j < k => Apart(todo[j], todo[k])
  /\ scan # "none" => \A j \in 1 .. Len(todo) : Apart(scan, todo[j])

\* The answers that a port may have had when it is scanned in this way, by this scan
\* or by the one before it for the same protocol.
Possible(s) == IF s = "ack" THEN {PORT_UNFILTERED, PORT_FILTERED}
               ELSE {PORT_OPEN, PORT_CLOSED, PORT_FILTERED}

\* The ports a scan is for: in the list are those that have had answers, in the state
\* that prevails among these.
FitsPort(s, list, A, n) ==
  /\ A[n] \subseteq Possible(s)
  /\ n \in DOMAIN list <=> A[n] # {}
  /\ A[n] # {} => list[n].state = Prevailing(s, A[n])
Fits(s, P, A) ==
  \A n \in Scanned[ProtoOf(s)] : FitsPort(s, P[ProtoOf(s)].list, A[ProtoOf(s)], n)
AnswersInv ==
  stage = "scan" =>
    /\ scan \notin {"none", "bounce"} => Fits(scan, ports, answers)
    /\ \A j \in 1 .. Len(todo) : todo[j] # "bounce" => Fits(todo[j], ports, answers)

TableInv == TypeInv /\ CountInv /\ PlanInv /\ AnswersInv

\* M is L with port n in a state, the counts with it.
Wrote(proto, L, M, n, state) ==
  /\ M \in Table(proto) /\ M.default_port_state = L.default_port_state
  /\ DOMAIN M.list = DOMAIN L.list \cup {n} /\ M.list[n].state = state
  /\ \A m \in DOMAIN L.list : m # n => M.list[m].state = L.list[m].state
  /\ Exact(proto, L) => Exact(proto, M)

\* setPortState() writes one port and no other.
LEMMA SetStateWrites ==
  ASSUME NEW proto \in Protos, NEW L \in Table(proto), NEW n \in Scanned[proto],
         NEW state \in LegalStates
  PROVE  Wrote(proto, L, setPortState(L, n, state), n, state)
<1>1. PICK M : M = setPortState(L, n, state)
  OBVIOUS
<1>2. /\ M \in Table(proto) /\ M.default_port_state = L.default_port_state
      /\ DOMAIN M.list = DOMAIN L.list \cup {n} /\ M.list[n].state = state
      /\ \A m : m # n => getPortState(M, m) = getPortState(L, m)
      /\ Exact(proto, L) => Exact(proto, M)
  BY <1>1, SetPortStateStep
<1>3. \A m \in DOMAIN L.list : m # n => M.list[m].state = L.list[m].state
  BY <1>2 DEF getPortState, Created
<1> QED
  BY <1>1, <1>2, <1>3 DEF Wrote

\* Two writes to the same port are as the second alone.
LEMMA WriteTwice ==
  ASSUME NEW proto \in Protos, NEW L, NEW M, NEW N, NEW n, NEW s, NEW t,
         Wrote(proto, L, M, n, s), Wrote(proto, M, N, n, t)
  PROVE  Wrote(proto, L, N, n, t)
  BY DEF Wrote

\* The reason of a port that was written does not touch its state.
LEMMA ReasonWrites ==
  ASSUME NEW proto \in Protos, NEW L, NEW M, NEW n, NEW state, Wrote(proto, L, M, n, state),
         NEW reason \in Reasons
  PROVE  Wrote(proto, L, setStateReason(M, n, reason), n, state)
<1>1. PICK N : N = setStateReason(M, n, reason)
  OBVIOUS
<1>2. M \in Table(proto) /\ n \in DOMAIN M.list
  BY DEF Wrote
<1>3. /\ N \in Table(proto) /\ N.default_port_state = M.default_port_state
      /\ DOMAIN N.list = DOMAIN M.list
      /\ \A m \in DOMAIN M.list : N.list[m].state = M.list[m].state
      /\ Exact(proto, M) => Exact(proto, N)
  BY <1>1, <1>2, SetReasonStep
<1> QED
  BY <1>1, <1>3 DEF Wrote

--------------------------------------------------------------------------------
(* Which of the answers prevails.                                           *)

\* The states that answers give are different.
LEMMA StatesDiffer ==
  /\ PORT_OPEN # PORT_CLOSED /\ PORT_OPEN # PORT_FILTERED /\ PORT_OPEN # PORT_UNFILTERED
  /\ PORT_CLOSED # PORT_FILTERED /\ PORT_CLOSED # PORT_UNFILTERED
  /\ PORT_FILTERED # PORT_UNFILTERED
  BY DEF PORT_CLOSED, PORT_OPEN, PORT_FILTERED, PORT_UNFILTERED

\* The answer that prevails, as a decision.
Strongest(s, A) ==
  IF noresp_open_scan(s)
  THEN IF PORT_CLOSED \in A THEN PORT_CLOSED
       ELSE IF PORT_FILTERED \in A THEN PORT_FILTERED ELSE PORT_OPEN
  ELSE IF PORT_OPEN \in A THEN PORT_OPEN
       ELSE IF PORT_CLOSED \in A THEN PORT_CLOSED
       ELSE IF PORT_UNFILTERED \in A THEN PORT_UNFILTERED ELSE PORT_FILTERED

\* The answer that prevails is one of the answers.
LEMMA PrevailingIs ==
  ASSUME NEW s \in ScanNames, NEW A, A \subseteq Possible(s), A # {}
  PROVE  Prevailing(s, A) = Strongest(s, A) /\ Prevailing(s, A) \in A
<1> DEFINE order == Precedence(s)
           first(i) == order[i] \in A /\ \A j \in 1 .. i - 1 : order[j] \notin A
           i0 == CHOOSE i \in DOMAIN order : first(i)
<1>1. Prevailing(s, A) = order[i0]
  BY DEF Prevailing
<1>2. CASE noresp_open_scan(s)
  <2>1. s # "ack"
    BY <1>2 DEF noresp_open_scan
  <2>2. /\ order = <<PORT_CLOSED, PORT_FILTERED, PORT_OPEN>> /\ DOMAIN order = {1, 2, 3}
        /\ order[1] = PORT_CLOSED /\ order[2] = PORT_FILTERED /\ order[3] = PORT_OPEN
    BY <1>2 DEF Precedence
  <2> HIDE DEF order
  <2>3. PORT_CLOSED \in A \/ PORT_FILTERED \in A \/ PORT_OPEN \in A
    BY <2>1 DEF Possible
  <2>4. \A i \in {1, 2, 3} : first(i) <=>
          \/ i = 1 /\ PORT_CLOSED \in A
          \/ i = 2 /\ PORT_CLOSED \notin A /\ PORT_FILTERED \in A
          \/ i = 3 /\ PORT_CLOSED \notin A /\ PORT_FILTERED \notin A /\ PORT_OPEN \in A
    <3>1. 1 .. 0 = {} /\ 1 .. 1 = {1} /\ 1 .. 2 = {1, 2} /\ 1 - 1 = 0 /\ 2 - 1 = 1 /\ 3 - 1 = 2
      OBVIOUS
    <3> QED
      BY <2>2, <3>1
  <2> HIDE DEF first
  <2>5. \E i \in DOMAIN order : first(i)
    BY <2>2, <2>3, <2>4
  <2>6. i0 \in {1, 2, 3} /\ first(i0)
    BY <2>2, <2>5
  <2> HIDE DEF i0
  <2> QED
    BY <1>1, <1>2, <2>2, <2>4, <2>6 DEF Strongest
<1>3. CASE ~noresp_open_scan(s)
  <2>2. /\ order = <<PORT_OPEN, PORT_CLOSED, PORT_UNFILTERED, PORT_FILTERED>>
        /\ DOMAIN order = {1, 2, 3, 4}
        /\ order[1] = PORT_OPEN /\ order[2] = PORT_CLOSED /\ order[3] = PORT_UNFILTERED
        /\ order[4] = PORT_FILTERED
    BY <1>3 DEF Precedence
  <2> HIDE DEF order
  <2>3. PORT_CLOSED \in A \/ PORT_FILTERED \in A \/ PORT_OPEN \in A \/ PORT_UNFILTERED \in A
    BY DEF Possible
  <2>4. \A i \in {1, 2, 3, 4} : first(i) <=>
          \/ i = 1 /\ PORT_OPEN \in A
          \/ i = 2 /\ PORT_OPEN \notin A /\ PORT_CLOSED \in A
          \/ i = 3 /\ PORT_OPEN \notin A /\ PORT_CLOSED \notin A /\ PORT_UNFILTERED \in A
          \/ i = 4 /\ PORT_OPEN \notin A /\ PORT_CLOSED \notin A /\ PORT_UNFILTERED \notin A
             /\ PORT_FILTERED \in A
    <3>1. /\ 1 .. 0 = {} /\ 1 .. 1 = {1} /\ 1 .. 2 = {1, 2} /\ 1 .. 3 = {1, 2, 3}
          /\ 1 - 1 = 0 /\ 2 - 1 = 1 /\ 3 - 1 = 2 /\ 4 - 1 = 3
      OBVIOUS
    <3> QED
      BY <2>2, <3>1
  <2> HIDE DEF first
  <2>5. \E i \in DOMAIN order : first(i)
    BY <2>2, <2>3, <2>4
  <2>6. i0 \in {1, 2, 3, 4} /\ first(i0)
    BY <2>2, <2>5
  <2> HIDE DEF i0
  <2> QED
    BY <1>1, <1>3, <2>2, <2>4, <2>6 DEF Strongest
<1> QED
  BY <1>2, <1>3

\* The state that ultrascan_port_pspec_update() leaves a port of the list in.
Kept(s, state, new) == IF new # state /\ Ignored(s, state, new) THEN state ELSE new

\* What the rules make of an answer that comes in when there have been answers A.
Decided(s, A, new) ==
  /\ new \in Possible(s) /\ new \in LegalStates /\ new \in Reasons /\ new \in States
  /\ A = {} => Prevailing(s, A \cup {new}) = new
  /\ A # {} => Prevailing(s, A \cup {new}) = Kept(s, Prevailing(s, A), new)
  /\ A # {} => ~Unexpected(Prevailing(s, A)) /\ Prevailing(s, A) \in LegalStates

\* An answer that comes in for answers A leaves the port to the one that prevails then.
LEMMA AnswerPrevails ==
  ASSUME NEW s \in ScanNames, s # "bounce", NEW A, A \subseteq Possible(s), NEW new \in Answers(s)
  PROVE  Decided(s, A, new)
<1>1. new \in Possible(s)
  BY DEF Answers, Possible
<1>2. Possible(s) \subseteq LegalStates /\ Possible(s) \subseteq {PORT_OPEN, PORT_CLOSED, PORT_UNFILTERED, PORT_FILTERED}
  BY DEF Possible, LegalStates
<1>3. new \in Reasons /\ new \in States
  BY <1>1, <1>2 DEF Reasons, States, LegalStates, PORT_OPEN, PORT_CLOSED, PORT_FILTERED,
                    PORT_UNFILTERED, PORT_OPENFILTERED, PORT_CLOSEDFILTERED
<1>4. ASSUME NEW B, B \subseteq Possible(s), B # {}
      PROVE  Prevailing(s, B) = Strongest(s, B) /\ Prevailing(s, B) \in B
  BY <1>4, PrevailingIs
<1>5. PICK B : B = A \cup {new}
  OBVIOUS
<1>6. B \subseteq Possible(s) /\ B # {} /\ new \in B
  BY <1>1, <1>5
<1>7. Prevailing(s, B) = Strongest(s, B) /\ Prevailing(s, B) \in B
  BY <1>4, <1>6
<1>8. A = {} => Prevailing(s, B) = new
  BY <1>5, <1>7
<1>9. ASSUME A # {}
      PROVE  /\ Prevailing(s, B) = IF new # Prevailing(s, A) /\ Ignored(s, Prevailing(s, A), new)
                                   THEN Prevailing(s, A) ELSE new
             /\ ~Unexpected(Prevailing(s, A)) /\ Prevailing(s, A) \in LegalStates
  <2>1. PICK old : old = Prevailing(s, A)
    OBVIOUS
  <2>2. old = Strongest(s, A) /\ old \in A
    BY <1>4, <1>9, <2>1
  <2>3. /\ old \in LegalStates /\ ~Unexpected(old)
        /\ old \in {PORT_OPEN, PORT_CLOSED, PORT_UNFILTERED, PORT_FILTERED}
    BY <1>2, <2>2 DEF Unexpected
  <2>4. CASE noresp_open_scan(s)
    <3>1. s # "ack"
      BY <2>4 DEF noresp_open_scan
    <3>2. Possible(s) = {PORT_OPEN, PORT_CLOSED, PORT_FILTERED}
      BY <3>1 DEF Possible
    <3>3. Ignored(s, old, new) <=> old = PORT_CLOSED \/ (old = PORT_FILTERED /\ new = PORT_OPEN)
      BY <2>2, <2>4, <3>2, StatesDiffer DEF Ignored
    <3>4. Strongest(s, B) = IF new # old /\ Ignored(s, old, new) THEN old ELSE new
      BY <1>1, <1>5, <2>2, <2>4, <3>2, <3>3, StatesDiffer DEF Strongest
    <3> QED
      BY <1>7, <2>1, <2>3, <3>4
  <2>5. CASE ~noresp_open_scan(s)
    <3>1. Ignored(s, old, new) <=> \/ old = PORT_OPEN
                                   \/ old = PORT_CLOSED /\ new = PORT_FILTERED
                                   \/ old = PORT_UNFILTERED /\ new \notin {PORT_OPEN, PORT_CLOSED}
      BY <2>3, <2>5, StatesDiffer DEF Ignored
    <3>2. new \in {PORT_OPEN, PORT_CLOSED, PORT_UNFILTERED, PORT_FILTERED}
      BY <1>1, <1>2
    <3>3. PORT_UNFILTERED \in Possible(s) => PORT_CLOSED \notin Possible(s)
      BY StatesDiffer DEF Possible
    <3>4. Strongest(s, B) = IF new # old /\ Ignored(s, old, new) THEN old ELSE new
      BY <1>1, <1>5, <2>2, <2>3, <2>5, <3>1, <3>2, <3>3, StatesDiffer DEF Strongest
    <3> QED
      BY <1>7, <2>1, <2>3, <3>4
  <2> QED
    BY <2>4, <2>5
<1> QED
  BY <1>1, <1>2, <1>3, <1>5, <1>8, <1>9 DEF Kept, Decided

\* The new state is set, or set and then set back.
LEMMA UpdateWrites ==
  ASSUME NEW proto \in Protos, NEW L \in Table(proto), NEW n \in Scanned[proto], NEW s,
         NEW new \in LegalStates
  PROVE  /\ n \notin DOMAIN L.list =>
              Wrote(proto, L, ultrascan_port_pspec_update(L, s, n, new), n, new)
         /\ n \in DOMAIN L.list =>
              Wrote(proto, L, ultrascan_port_pspec_update(L, s, n, new), n,
                    Kept(s, L.list[n].state, new))
<1>1. PICK M : M = setPortState(L, n, new)
  OBVIOUS
<1>2. Wrote(proto, L, M, n, new) /\ M \in Table(proto)
  <2>1. Wrote(proto, L, setPortState(L, n, new), n, new)
    BY SetStateWrites
  <2> QED
    BY <1>1, <2>1 DEF Wrote
<1>3. CASE n \notin DOMAIN L.list
  <2>1. ~Ignored(s, PORT_TESTING, new)
    BY DEF Ignored, PORT_TESTING, PORT_OPEN, PORT_CLOSED, PORT_FILTERED, PORT_UNFILTERED
  <2>2. ultrascan_port_pspec_update(L, s, n, new) = M
    BY <1>1, <1>3, <2>1 DEF ultrascan_port_pspec_update, Created
  <2> QED
    BY <1>2, <1>3, <2>2
<1>4. CASE n \in DOMAIN L.list
  <2>1. PICK old : old = L.list[n].state
    OBVIOUS
  <2>2. old \in LegalStates
    BY <1>4, <2>1, TableFields
  <2>3. ultrascan_port_pspec_update(L, s, n, new) =
          IF new # old /\ Ignored(s, old, new) THEN setPortState(M, n, old) ELSE M
    BY <1>1, <1>4, <2>1 DEF ultrascan_port_pspec_update, Created
  <2>4. Wrote(proto, M, setPortState(M, n, old), n, old)
    BY <1>2, <2>2, SetStateWrites
  <2>5. Wrote(proto, L, setPortState(M, n, old), n, old)
    <3>1. PICK N : N = setPortState(M, n, old)
      OBVIOUS
    <3> QED
      BY <1>2, <2>4, <3>1, WriteTwice
  <2>6. CASE new # old /\ Ignored(s, old, new)
    BY <1>4, <2>1, <2>3, <2>5, <2>6 DEF Kept
  <2>7. CASE ~ (new # old /\ Ignored(s, old, new))
    BY <1>2, <1>4, <2>1, <2>3, <2>7 DEF Kept
  <2> QED
    BY <2>6, <2>7
<1> QED
  BY <1>3, <1>4

--------------------------------------------------------------------------------
(* Every step keeps the invariant.                                          *)

\* Every scan has a protocol.
LEMMA ProtoTypes ==
  /\ \A s \in ScanNames : ProtoOf(s) \in Protos
  /\ ProtoOf("bounce") = "tcp" /\ "tcp" \in Protos
  BY DEF ProtoOf, Protos, ScanNames

\* The rules are the same for the two SCTP scans.
LEMMA SctpAlike ==
  ASSUME NEW s \in ScanNames, NEW t \in ScanNames, ProtoOf(s) = "sctp", ProtoOf(t) = "sctp",
         NEW list, NEW A, NEW n, FitsPort(s, list, A, n)
  PROVE  FitsPort(t, list, A, n)
<1>1. s \in {"init", "cookie_echo"} /\ t \in {"init", "cookie_echo"}
  BY DEF ProtoOf, ScanNames
<1>2. Possible(s) = Possible(t) /\ ~noresp_open_scan(s) /\ ~noresp_open_scan(t)
  BY <1>1 DEF Possible, noresp_open_scan
<1>3. Precedence(s) = Precedence(t)
  BY <1>2 DEF Precedence
<1>4. Prevailing(s, A[n]) = Prevailing(t, A[n])
  BY <1>3 DEF Prevailing
<1> QED
  BY <1>2, <1>4 DEF FitsPort

\* A step that writes the table of one protocol.
LEMMA WriteTable ==
  ASSUME TypeInv, CountInv, NEW proto \in Protos, NEW M, M \in Table(proto), Exact(proto, M),
         SetPorts(proto, M)
  PROVE  /\ ports' = [p \in Protos |-> ports'[p]]
         /\ ports'[proto] = M /\ \A p \in Protos : p # proto => ports'[p] = ports[p]
         /\ \A p \in Protos : ports'[p] \in Table(p) /\ Exact(p, ports'[p])
<1>1. /\ ports' = [p \in Protos |-> ports'[p]]
      /\ ports'[proto] = M /\ \A p \in Protos : p # proto => ports'[p] = ports[p]
  BY DEF SetPorts, TypeInv
<1>2. ASSUME NEW p \in Protos PROVE ports'[p] \in Table(p) /\ Exact(p, ports'[p])
  BY <1>1 DEF TypeInv, CountInv
<1> QED
  BY <1>1, <1>2

\* The port that a script names is a scanned one.
LEMMA GetPortType ==
  ASSUME NEW proto \in Protos, NEW n
  PROVE  LET p == nseU_getport(proto, n)
         IN  p # NoPort => p[1] \in Protos /\ p[2] \in Scanned[p[1]]
<1> DEFINE st == PORT_UNKNOWN
           S == Wanted(st)
           nxt == NextPorts(proto, st)
           N == numPorts
           loop == Visit(proto, st)
           found == {k \in DOMAIN loop : loop[k][2] = n}
           k0 == CHOOSE k \in found : \A j \in found : k <= j
           p == nseU_getport(proto, n)
<1>1. PICK v : IsLoop(v, N, S, nxt, NoPort) /\ loop = v[N]
  BY VisitIsLoop
<1>2. NoPort \notin S /\ nxt \in [S \cup {NoPort} -> S \cup {NoPort}] /\ N \in Nat
  BY PortPairs, NextPortType, PortsFinite DEF NextPorts
<1>3. loop \in Seq(S)
  <2> HIDE DEF S, nxt, N
  <2>1. \A k \in 0 .. N : v[k] \in Seq(S)
    BY <1>1, <1>2, LoopType
  <2>2. N \in 0 .. N
    BY <1>2
  <2> QED
    BY <1>1, <2>1, <2>2
<1>4. p = IF found = {} THEN NoPort ELSE loop[k0]
  BY DEF nseU_getport
<1> SUFFICES ASSUME p # NoPort PROVE p \in S
  BY PortPairs DEF Match
<1> HIDE DEF loop
<1>5. DOMAIN loop = 1 .. Len(loop) /\ Len(loop) \in Nat /\ \A k \in 1 .. Len(loop) : loop[k] \in S
  BY <1>3, LenProperties, ElementOfSeq
<1>6. found \in SUBSET Nat /\ found \subseteq 1 .. Len(loop)
  BY <1>5
<1> HIDE DEF found, S, p
<1>7. found # {}
  BY <1>4
<1>8. k0 \in found
  BY <1>6, <1>7, LeastNat
<1> QED
  BY <1>4, <1>5, <1>6, <1>7, <1>8

\* The invariant holds for a new table.
LEMMA TableInit == Init => TableInv
<1> SUFFICES ASSUME Init PROVE TableInv
  OBVIOUS
<1>1. \A proto \in Protos : ports[proto] = NewPortList(proto)
  BY DEF Init
<1>2. \A proto \in Protos : ports[proto] \in Table(proto) /\ Exact(proto, ports[proto])
  BY <1>1, NewTable
<1>3. todo \in Plans /\ todo \in Seq(ScanNames) /\ Len(todo) \in Nat /\ DOMAIN todo = 1 .. Len(todo)
  BY ConstantsAssumption, LenProperties DEF Init
<1>4. TypeInv
  BY <1>2, <1>3 DEF Init, TypeInv
<1>5. PlanInv
  BY <1>3, PlansAssumption DEF Init, PlanInv, Apart
<1>6. \A proto \in Protos : DOMAIN ports[proto].list = {}
  BY <1>1, NewTable
<1>7. \A proto \in Protos : \A n \in Scanned[proto] : answers[proto][n] = {}
  BY DEF Init
<1>8. \A j \in 1 .. Len(todo) : todo[j] \in ScanNames
  BY <1>3, ElementOfSeq
<1>9. \A s \in ScanNames : Fits(s, ports, answers)
  BY <1>6, <1>7, ProtoTypes DEF Fits, FitsPort
<1>10. AnswersInv
  BY <1>8, <1>9 DEF Init, AnswersInv
<1> QED
  BY <1>2, <1>4, <1>5, <1>10 DEF TableInv, CountInv

\* The parts that a step outside the scans keeps.
LEMMA LaterStages ==
  ASSUME TableInv, NEW proto \in Protos, NEW M, M \in Table(proto), Exact(proto, M),
         SetPorts(proto, M), stage # "scan", UNCHANGED <<scan, todo, stage, answers>>
  PROVE  TableInv'
<1>1. /\ ports' = [p \in Protos |-> ports'[p]]
      /\ \A p \in Protos : ports'[p] \in Table(p) /\ Exact(p, ports'[p])
  BY WriteTable DEF TableInv
<1>2. TypeInv' /\ CountInv' /\ PlanInv'
  BY <1>1 DEF TableInv, TypeInv, CountInv, PlanInv
<1>3. AnswersInv'
  BY DEF AnswersInv
<1> QED
  BY <1>2, <1>3 DEF TableInv

\* A scan starts.
LEMMA StartScanStep == TableInv /\ StartScan => TableInv'
<1> SUFFICES ASSUME TableInv, StartScan PROVE TableInv'
  OBVIOUS
<1>1. PICK s : s = Head(todo)
  OBVIOUS
<1>2. /\ stage = "scan" /\ todo # <<>> /\ scan' = s /\ todo' = Tail(todo)
      /\ stage' = stage /\ answers' = answers
      /\ s = "bounce" => ports' = ports
      /\ s # "bounce" => SetPorts(ProtoOf(s), setDefaultPortState(ProtoOf(s), ports[ProtoOf(s)], DefaultState(s)))
  BY <1>1 DEF StartScan
<1>3. /\ todo \in Seq(ScanNames) /\ Len(todo) \in Nat \ {0} /\ s = todo[1] /\ s \in ScanNames
      /\ todo' \in Seq(ScanNames) /\ Len(todo') = Len(todo) - 1
      /\ \A j \in 1 .. Len(todo') : todo'[j] = todo[j + 1] /\ j + 1 \in 1 .. Len(todo)
      /\ \A j \in 1 .. Len(todo) : todo[j] \in ScanNames
  <2>1. todo \in Seq(ScanNames)
    BY DEF TableInv, TypeInv
  <2> QED
    BY <1>1, <1>2, <2>1, EmptySeq, LenProperties, HeadTailProperties, ElementOfSeq
<1>4. ProtoOf(s) \in Protos /\ DefaultState(s) \in States
  BY <1>3, ProtoTypes DEF DefaultState, States, PORT_OPENFILTERED, PORT_CLOSEDFILTERED, PORT_FILTERED
<1>5. /\ ports' = [p \in Protos |-> ports'[p]]
      /\ \A p \in Protos : ports'[p] \in Table(p) /\ Exact(p, ports'[p]) /\ ports'[p].list = ports[p].list
  <2>1. CASE s = "bounce"
    <3>1. ports' = ports
      BY <1>2, <2>1
    <3> QED
      BY <3>1 DEF TableInv, TypeInv, CountInv
  <2>2. CASE s # "bounce"
    <3>1. PICK proto \in Protos : proto = ProtoOf(s)
      BY <1>4
    <3>2. PICK L : L = ports[proto]
      OBVIOUS
    <3>3. PICK M : M = setDefaultPortState(proto, L, DefaultState(s))
      OBVIOUS
    <3>4. L \in Table(proto) /\ Exact(proto, L)
      BY <3>2 DEF TableInv, TypeInv, CountInv
    <3>5. M \in Table(proto) /\ M.list = L.list /\ Exact(proto, M)
      BY <1>4, <3>3, <3>4, SetDefaultStep
    <3>6. SetPorts(proto, M)
      BY <1>2, <2>2, <3>1, <3>2, <3>3
    <3>7. /\ ports' = [p \in Protos |-> ports'[p]]
          /\ ports'[proto] = M /\ \A p \in Protos : p # proto => ports'[p] = ports[p]
          /\ \A p \in Protos : ports'[p] \in Table(p) /\ Exact(p, ports'[p])
      BY <3>5, <3>6, WriteTable DEF TableInv
    <3> QED
      BY <3>2, <3>5, <3>7
  <2> QED
    BY <2>1, <2>2
<1>6. TypeInv' /\ CountInv'
  BY <1>2, <1>3, <1>5 DEF TableInv, TypeInv, CountInv
<1>7. PlanInv'
  <2>1. ASSUME NEW j \in 1 .. Len(todo'), NEW k \in 1 .. Len(todo'), j < k
        PROVE  Apart(todo'[j], todo'[k])
    <3>1. j + 1 < k + 1
      BY <1>3, <2>1
    <3> QED
      BY <1>3, <3>1 DEF TableInv, PlanInv
  <2>2. ASSUME NEW j \in 1 .. Len(todo') PROVE Apart(s, todo'[j])
    <3>1. 1 < j + 1 /\ 1 \in 1 .. Len(todo)
      BY <1>3
    <3> QED
      BY <1>3, <3>1 DEF TableInv, PlanInv
  <2> QED
    BY <1>2, <2>1, <2>2 DEF PlanInv, Apart
<1>8. ASSUME NEW j \in 1 .. Len(todo), todo[j] # "bounce" PROVE Fits(todo[j], ports', answers')
  <2>1. Fits(todo[j], ports, answers) /\ ProtoOf(todo[j]) \in Protos
    BY <1>2, <1>3, <1>8, ProtoTypes DEF TableInv, AnswersInv
  <2>2. ports'[ProtoOf(todo[j])].list = ports[ProtoOf(todo[j])].list
    BY <1>5, <2>1
  <2> QED
    BY <1>2, <2>1, <2>2 DEF Fits
<1>9. AnswersInv'
  <2>1. s # "bounce" => Fits(s, ports', answers')
    <3>1. 1 \in 1 .. Len(todo)
      BY <1>3
    <3> QED
      BY <1>3, <1>8, <3>1
  <2>2. \A j \in 1 .. Len(todo') : todo'[j] # "bounce" => Fits(todo'[j], ports', answers')
    BY <1>3, <1>8
  <2> QED
    BY <1>2, <2>1, <2>2 DEF AnswersInv
<1> QED
  BY <1>6, <1>7, <1>9 DEF TableInv

\* ultrascan_port_pspec_update() keeps the invariant.
LEMMA AnswerStep ==
  ASSUME TableInv, NEW n, NEW new, Answer(n, new)
  PROVE  TableInv'
<1>1. PICK s : s = scan
  OBVIOUS
<1>2. PICK proto : proto = ProtoOf(s)
  OBVIOUS
<1>3. PICK L : L = ports[proto]
  OBVIOUS
<1>4. PICK U : U = ultrascan_port_pspec_update(L, s, n, new)
  OBVIOUS
<1>5. PICK M : M = setStateReason(U, n, ReasonOf(new))
  OBVIOUS
<1>6. /\ stage = "scan" /\ s \notin {"none", "bounce"} /\ n \in Scanned[proto] /\ new \in Answers(s)
      /\ SetPorts(proto, M) /\ scan' = scan /\ todo' = todo
      /\ answers' = [answers EXCEPT ![proto][n] = @ \cup {new}]
      /\ stage' = IF Created(L, n) /\ new # L.list[n].state /\ Unexpected(L.list[n].state)
                  THEN "fatal" ELSE stage
  BY <1>1, <1>2, <1>3, <1>4, <1>5 DEF Answer
<1>7. /\ s \in ScanNames /\ proto \in Protos /\ L \in Table(proto) /\ Exact(proto, L)
      /\ todo \in Seq(ScanNames)
      /\ answers = [p \in Protos |-> answers[p]]
      /\ \A p \in Protos : answers[p] \in [Scanned[p] -> SUBSET States]
      /\ ports = [p \in Protos |-> ports[p]]
  BY <1>1, <1>2, <1>3, <1>6, ProtoTypes DEF TableInv, TypeInv, CountInv
<1>8. PICK A : A = answers[proto]
  OBVIOUS
<1>9. \A m \in Scanned[proto] : FitsPort(s, L.list, A, m)
  BY <1>1, <1>2, <1>3, <1>6, <1>8 DEF TableInv, AnswersInv, Fits
<1>10. PICK old : old = A[n]
  OBVIOUS
<1>11. /\ old \subseteq Possible(s) /\ (n \in DOMAIN L.list <=> old # {})
       /\ old # {} => L.list[n].state = Prevailing(s, old)
  BY <1>6, <1>9, <1>10 DEF FitsPort
<1>12. /\ new \in Possible(s) /\ new \in LegalStates /\ new \in Reasons /\ new \in States
       /\ old = {} => Prevailing(s, old \cup {new}) = new
       /\ old # {} => Prevailing(s, old \cup {new}) = Kept(s, Prevailing(s, old), new)
       /\ old # {} => ~Unexpected(Prevailing(s, old))
  <2>1. s # "bounce" /\ s \in ScanNames /\ old \subseteq Possible(s) /\ new \in Answers(s)
    BY <1>6, <1>7, <1>11
  <2>2. Decided(s, old, new)
    BY <2>1, AnswerPrevails
  <2> QED
    BY <2>2 DEF Decided
<1>13. Wrote(proto, L, U, n, Prevailing(s, old \cup {new}))
  <2>1. CASE old = {}
    BY <1>4, <1>6, <1>7, <1>11, <1>12, <2>1, UpdateWrites
  <2>2. CASE old # {}
    <3>1. Wrote(proto, L, U, n, Kept(s, L.list[n].state, new))
      BY <1>4, <1>6, <1>7, <1>11, <1>12, <2>2, UpdateWrites
    <3> QED
      BY <1>11, <1>12, <2>2, <3>1
  <2> QED
    BY <2>1, <2>2
<1>14. Wrote(proto, L, M, n, Prevailing(s, old \cup {new}))
  <2>1. ReasonOf(new) \in Reasons
    BY <1>12 DEF ReasonOf
  <2>2. PICK r \in Reasons : r = ReasonOf(new)
    BY <2>1
  <2>3. PICK w : w = Prevailing(s, old \cup {new})
    OBVIOUS
  <2> QED
    BY <1>5, <1>7, <1>13, <2>2, <2>3, ReasonWrites
<1>15. /\ ports' = [p \in Protos |-> ports'[p]]
       /\ ports'[proto] = M /\ \A p \in Protos : p # proto => ports'[p] = ports[p]
       /\ \A p \in Protos : ports'[p] \in Table(p) /\ Exact(p, ports'[p])
  BY <1>6, <1>7, <1>14, WriteTable DEF TableInv, Wrote
<1>16. /\ answers' = [p \in Protos |-> answers'[p]]
       /\ answers'[proto] = [A EXCEPT ![n] = old \cup {new}]
       /\ \A p \in Protos : p # proto => answers'[p] = answers[p]
  <2> DEFINE B == [A EXCEPT ![n] = old \cup {new}]
  <2>1. answers' = [answers EXCEPT ![proto] = B]
    BY <1>6, <1>8, <1>10
  <2> HIDE DEF B
  <2>2. /\ answers' = [p \in Protos |-> answers'[p]] /\ answers'[proto] = B
        /\ \A p \in Protos : p # proto => answers'[p] = answers[p]
    BY <1>7, <2>1
  <2> QED
    BY <2>2 DEF B
<1>17. stage' = "scan"
  BY <1>6, <1>11, <1>12 DEF Created
<1>18. TypeInv' /\ CountInv' /\ PlanInv'
  <2>1. answers'[proto] \in [Scanned[proto] -> SUBSET States]
    BY <1>6, <1>7, <1>8, <1>10, <1>12, <1>16
  <2>2. \A p \in Protos : answers'[p] \in [Scanned[p] -> SUBSET States]
    BY <1>7, <1>16, <2>1
  <2>3. TypeInv'
    BY <1>6, <1>15, <1>16, <1>17, <2>2 DEF TableInv, TypeInv
  <2> QED
    BY <1>6, <1>15, <2>3 DEF TableInv, CountInv, PlanInv
<1>19. \A m \in Scanned[proto] : FitsPort(s, M.list, answers'[proto], m)
  <2> SUFFICES ASSUME NEW m \in Scanned[proto] PROVE FitsPort(s, M.list, answers'[proto], m)
    OBVIOUS
  <2>1. answers'[proto][n] = old \cup {new} /\ (m # n => answers'[proto][m] = A[m])
    BY <1>6, <1>7, <1>8, <1>16
  <2>2. DOMAIN M.list = DOMAIN L.list \cup {n} /\ M.list[n].state = Prevailing(s, old \cup {new})
        /\ (m \in DOMAIN L.list /\ m # n => M.list[m].state = L.list[m].state)
    BY <1>14 DEF Wrote
  <2>3. CASE m = n
    BY <1>11, <1>12, <2>1, <2>2, <2>3 DEF FitsPort
  <2>4. CASE m # n
    <3>1. FitsPort(s, L.list, A, m)
      BY <1>9
    <3> QED
      BY <2>1, <2>2, <2>4, <3>1 DEF FitsPort
  <2> QED
    BY <2>3, <2>4
<1>20. Fits(s, ports', answers')
  BY <1>2, <1>15, <1>19 DEF Fits
<1>21. ASSUME NEW j \in 1 .. Len(todo), todo[j] # "bounce" PROVE Fits(todo[j], ports', answers')
  <2>1. PICK t \in ScanNames : t = todo[j]
    BY <1>7, ElementOfSeq
  <2>2. ProtoOf(t) \in Protos /\ Apart(s, t) /\ Fits(t, ports, answers)
    BY <1>1, <1>6, <1>21, <2>1, ProtoTypes DEF TableInv, PlanInv, AnswersInv
  <2>3. CASE ProtoOf(t) = proto
    <3>1. ProtoOf(s) = "sctp" /\ ProtoOf(t) = "sctp"
      BY <1>2, <2>2, <2>3 DEF Apart
    <3>2. \A m \in Scanned[proto] : FitsPort(t, M.list, answers'[proto], m)
      <4>1. PICK list, B : list = M.list /\ B = answers'[proto]
        OBVIOUS
      <4>2. ASSUME NEW m \in Scanned[proto] PROVE FitsPort(t, list, B, m)
        <5>1. FitsPort(s, list, B, m)
          BY <1>19, <4>1
        <5> QED
          BY <1>7, <3>1, <5>1, SctpAlike
      <4> QED
        BY <4>1, <4>2
    <3> QED
      BY <1>15, <2>1, <2>3, <3>2 DEF Fits
  <2>4. CASE ProtoOf(t) # proto
    BY <1>15, <1>16, <2>1, <2>2, <2>4 DEF Fits
  <2> QED
    BY <2>3, <2>4
<1>22. AnswersInv'
  BY <1>1, <1>6, <1>20, <1>21 DEF AnswersInv
<1> QED
  BY <1>18, <1>22 DEF TableInv

\* The result of the FTP bounce scan keeps it.
LEMMA BounceStep ==
  ASSUME TableInv, NEW n, NEW new, NEW forget \in BOOLEAN, BounceResult(n, new, forget)
  PROVE  TableInv'
<1>1. PICK K : K = ports["tcp"]
  OBVIOUS
<1>2. PICK L : L = IF forget THEN forgetPort(K, n) ELSE K
  OBVIOUS
<1>3. PICK M : M = setPortState(L, n, new)
  OBVIOUS
<1>4. /\ stage = "scan" /\ scan = "bounce" /\ n \in Scanned["tcp"] /\ new \in Answers("bounce")
      /\ SetPorts("tcp", M) /\ scan' = scan /\ todo' = todo /\ stage' = stage /\ answers' = answers
  BY <1>1, <1>2, <1>3 DEF BounceResult
<1>5. "tcp" \in Protos /\ K \in Table("tcp") /\ Exact("tcp", K)
  BY <1>1, ProtoTypes DEF TableInv, TypeInv, CountInv
<1>6. L \in Table("tcp") /\ Exact("tcp", L)
  BY <1>2, <1>4, <1>5, ForgetStep
<1>7. new \in LegalStates
  BY <1>4 DEF Answers, LegalStates
<1>8. M \in Table("tcp") /\ Exact("tcp", M)
  BY <1>3, <1>4, <1>5, <1>6, <1>7, SetPortStateStep
<1>9. /\ ports' = [p \in Protos |-> ports'[p]]
      /\ \A p \in Protos : p # "tcp" => ports'[p] = ports[p]
      /\ \A p \in Protos : ports'[p] \in Table(p) /\ Exact(p, ports'[p])
  BY <1>4, <1>5, <1>8, WriteTable DEF TableInv
<1>10. TypeInv' /\ CountInv' /\ PlanInv'
  BY <1>4, <1>9 DEF TableInv, TypeInv, CountInv, PlanInv
<1>11. ASSUME NEW j \in 1 .. Len(todo), todo[j] # "bounce" PROVE Fits(todo[j], ports', answers')
  <2>1. todo[j] \in ScanNames
    BY ElementOfSeq DEF TableInv, TypeInv
  <2>2. ProtoOf(todo[j]) \in Protos /\ ProtoOf(todo[j]) # "tcp"
    BY <1>4, <2>1, ProtoTypes DEF TableInv, PlanInv, Apart
  <2>3. Fits(todo[j], ports, answers)
    BY <1>4, <1>11 DEF TableInv, AnswersInv
  <2> QED
    BY <1>4, <1>9, <2>2, <2>3 DEF Fits
<1>12. AnswersInv'
  BY <1>4, <1>11 DEF AnswersInv
<1> QED
  BY <1>10, <1>12 DEF TableInv

\* So do the ends of the port scans and of version detection.
LEMMA EndsStep == TableInv /\ (EndScans \/ EndServices) => TableInv'
<1> SUFFICES ASSUME TableInv, EndScans \/ EndServices PROVE TableInv'
  OBVIOUS
<1>1. /\ ports' = ports /\ todo' = todo /\ answers' = answers /\ scan' \in {scan, "none"}
      /\ stage' \in {"service", "script"}
  BY DEF EndScans, EndServices
<1>2. TypeInv' /\ CountInv'
  BY <1>1 DEF TableInv, TypeInv, CountInv
<1>3. PlanInv' /\ AnswersInv'
  BY <1>1 DEF TableInv, PlanInv, AnswersInv
<1> QED
  BY <1>2, <1>3 DEF TableInv

\* A service that answers makes its port open.
LEMMA ServiceAnswersStep ==
  ASSUME TableInv, NEW proto \in Protos, NEW n, ServiceAnswers(proto, n)
  PROVE  TableInv'
<1>1. PICK L, M, N : /\ L = ports[proto] /\ M = setPortState(L, n, PORT_OPEN)
                     /\ N = setStateReason(M, n, ER_SERVICE)
  OBVIOUS
<1>2. /\ stage = "service" /\ n \in Scanned[proto] /\ SetPorts(proto, N)
      /\ UNCHANGED <<scan, todo, stage, answers>>
  BY <1>1 DEF ServiceAnswers
<1>3. /\ L \in Table(proto) /\ Exact(proto, L) /\ PORT_OPEN \in LegalStates
      /\ ER_SERVICE \in Reasons
  BY <1>1 DEF TableInv, TypeInv, CountInv, LegalStates, ER_SERVICE, Reasons
<1>4. M \in Table(proto) /\ Exact(proto, M) /\ n \in DOMAIN M.list
  BY <1>1, <1>2, <1>3, SetPortStateStep
<1>5. N \in Table(proto) /\ Exact(proto, N)
  BY <1>1, <1>3, <1>4, SetReasonStep
<1> QED
  BY <1>2, <1>5, LaterStages

\* A script sets the state of a port.
LEMMA ScriptStep ==
  ASSUME TableInv, NEW proto \in Protos, NEW n, NEW s \in {PORT_OPEN, PORT_CLOSED},
         set_port_state(proto, n, s)
  PROVE  TableInv'
<1>1. PICK p : p = nseU_getport(proto, n)
  OBVIOUS
<1>2. PICK L, M, N : /\ L = ports[p[1]] /\ M = setPortState(L, p[2], s)
                     /\ N = setStateReason(M, p[2], ER_SCRIPT)
  OBVIOUS
<1>3. /\ stage = "script" /\ p # NoPort /\ SetPorts(p[1], N)
      /\ UNCHANGED <<scan, todo, stage, answers>>
  BY <1>1, <1>2 DEF set_port_state
<1>4. p[1] \in Protos /\ p[2] \in Scanned[p[1]]
  BY <1>1, <1>3, GetPortType
<1>5. PICK q, m : q = p[1] /\ m = p[2]
  OBVIOUS
<1>6. q \in Protos /\ m \in Scanned[q] /\ L = ports[q] /\ M = setPortState(L, m, s)
      /\ N = setStateReason(M, m, ER_SCRIPT) /\ SetPorts(q, N)
  BY <1>2, <1>3, <1>4, <1>5
<1>7. /\ L \in Table(q) /\ Exact(q, L) /\ s \in LegalStates /\ ER_SCRIPT \in Reasons
  BY <1>6 DEF TableInv, TypeInv, CountInv, LegalStates, ER_SCRIPT, Reasons
<1>8. M \in Table(q) /\ Exact(q, M) /\ m \in DOMAIN M.list
  BY <1>6, <1>7, SetPortStateStep
<1>9. N \in Table(q) /\ Exact(q, N)
  BY <1>6, <1>7, <1>8, SetReasonStep
<1> QED
  BY <1>3, <1>6, <1>9, LaterStages

\* Every step keeps the invariant.
LEMMA TableStep == TableInv /\ [Next]_vars => TableInv'
<1> SUFFICES ASSUME TableInv, [Next]_vars PROVE TableInv'
  OBVIOUS
<1>1. CASE StartScan
  BY <1>1, StartScanStep
<1>2. CASE \E n \in Numbers, s \in States : Answer(n, s)
  BY <1>2, AnswerStep
<1>3. CASE \E n \in Numbers, s \in States, forget \in BOOLEAN : BounceResult(n, s, forget)
  BY <1>3, BounceStep
<1>4. CASE EndScans \/ EndServices
  BY <1>4, EndsStep
<1>5. CASE \E proto \in Protos, n \in Numbers : ServiceAnswers(proto, n)
  BY <1>5, ServiceAnswersStep
<1>6. CASE \E proto \in Protos, n \in Numbers, s \in {PORT_OPEN, PORT_CLOSED} :
             set_port_state(proto, n, s)
  BY <1>6, ScriptStep
<1>7. CASE UNCHANGED vars
  BY <1>7 DEF vars, TableInv, TypeInv, CountInv, PlanInv, AnswersInv
<1> QED
  BY <1>1, <1>2, <1>3, <1>4, <1>5, <1>6, <1>7 DEF Next

\* The inductive invariant holds: the table keeps to its types and counts, and a port is in
\* the list exactly when its scan had answers for it.
THEOREM TableInvariant == Spec => []TableInv
  BY TableInit, TableStep, PTL DEF Spec

--------------------------------------------------------------------------------
(* The properties.                                                          *)

\* Every port object is that of a scanned port, whatever writes to the table.
THEOREM PortTypes == Spec => []TypeOK
<1>1. TableInv => TypeOK
  <2> SUFFICES ASSUME TableInv PROVE TypeOK
    OBVIOUS
  <2>1. DOMAIN ports = Protos
    BY DEF TableInv, TypeInv
  <2>2. ASSUME NEW proto \in Protos
        PROVE  /\ DOMAIN ports[proto].list \subseteq Scanned[proto]
               /\ \A n \in DOMAIN ports[proto].list : ports[proto].list[n] \in PortRecord
               /\ ports[proto].default_port_state \in States
               /\ ports[proto].counts \in [States -> Int]
    <3>1. PICK L \in Table(proto) : L = ports[proto]
      BY DEF TableInv, TypeInv
    <3> QED
      BY <3>1, TableFields
  <2> QED
    BY <2>1, <2>2 DEF TypeOK, TableInv, TypeInv
<1> QED
  BY <1>1, TableInvariant, PTL

\* Through every way of writing a port, the counts of setPortState(), forgetPort()
\* and setDefaultPortState() stay those of the ports.
THEOREM CountsAreOfThePorts == Spec => []StateCountsExact
<1>1. TableInv => StateCountsExact
  BY DEF TableInv, CountInv, Exact, StateCountsExact
<1> QED
  BY <1>1, TableInvariant, PTL

\* The rules of ultrascan_port_pspec_update() make the state of a port a function of
\* the set of its answers, in every scan that can be asked for.
THEOREM AnswerOrderIsIrrelevant == Spec => []StateIgnoresAnswerOrder
<1>1. TableInv => StateIgnoresAnswerOrder
  <2> SUFFICES ASSUME TableInv, stage = "scan", scan \notin {"none", "bounce"},
                      NEW n \in Scanned[ProtoOf(scan)]
               PROVE  getPortState(ports[ProtoOf(scan)], n) =
                        IF answers[ProtoOf(scan)][n] = {}
                        THEN ports[ProtoOf(scan)].default_port_state
                        ELSE Prevailing(scan, answers[ProtoOf(scan)][n])
    BY DEF StateIgnoresAnswerOrder
  <2>1. FitsPort(scan, ports[ProtoOf(scan)].list, answers[ProtoOf(scan)], n)
    BY DEF TableInv, AnswersInv, Fits
  <2> QED
    BY <2>1 DEF FitsPort, getPortState, Created
<1> QED
  BY <1>1, TableInvariant, PTL

\* The fatal error of ultrascan_port_pspec_update() cannot be reached.
THEOREM NoFatalState == Spec => []NoUnexpectedState
<1>1. TableInv => NoUnexpectedState
  BY DEF TableInv, TypeInv, NoUnexpectedState
<1> QED
  BY <1>1, TableInvariant, PTL

\* The calls of nextIgnoredState() give each state that is summed up once and then end.
THEOREM EachIgnoredStateOnce == Spec => []IgnoredStatesSummedOnce
<1>1. TableInv => IgnoredStatesSummedOnce
  <2> SUFFICES ASSUME TableInv PROVE CountsAreNumbers
    BY SummedOnce
  <2> SUFFICES ASSUME NEW proto \in Protos PROVE ports[proto].counts \in [States -> Int]
    BY DEF CountsAreNumbers
  <2>1. PICK L \in Table(proto) : L = ports[proto]
    BY DEF TableInv, TypeInv
  <2> QED
    BY <2>1, TableFields
<1> QED
  BY <1>1, TableInvariant, PTL

================================================================================
