-------------------------- MODULE MarkInputsProofs --------------------------
(***************************************************************************)
(* Theorems about MarkInputs, for any accounts, rows, days and bounds that *)
(* satisfy its assumption.                                                 *)
(*                                                                         *)
(* WrongIsPending is not inductive: a transaction puts back the wrong days *)
(* it began with, and a read adds what it built before a commit and what   *)
(* it held. IInv says of those days too that a row waits to trim them, or  *)
(* that they are among the days set aside.                                 *)
(***************************************************************************)
EXTENDS MarkInputs, SequenceTheorems, TLAPS

\* One of the first n rows, not applied yet, moved d of a's series; or rows were
\* pruned unread, and the next read drops every series.
WaitsIn(rows, last, gone, a, d, n) ==
    \/ \E i \in 1 .. n : i > last /\ i > gone /\ d \in Moves(rows[i], a)
    \/ gone > last

Waiting(a, d, n) == WaitsIn(log, lastApplied, pruned, a, d, n)

IsRun(S) == S = Hull(S)

LogInv ==
    /\ pruned <= Len(log)
    /\ tx # NoTx => pruned <= tx /\ tx <= Len(log) /\ reading = Idle
    /\ \A i \in 1 .. Len(log) : IsBasket(log[i]) => log[i].day <= today

StoreInv == \A a \in Account :
    /\ wrong[a] \subseteq series[a]
    /\ lastApplied = Unapplied => series[a] = {} /\ reading = Idle
    /\ IsRun(series[a])
    /\ tx # NoTx => txWrong[a] \cap series[a] \subseteq wrong[a]

WrongInv ==
    ~skipped => \A a \in Account :
        /\ \A d \in wrong[a] : Waiting(a, d, Len(log)) \/ d \in lapsed[a]
        /\ tx # NoTx => \A d \in txWrong[a] \cap series[a] : Waiting(a, d, tx) \/ d \in lapsed[a]

ReadInv ==
    reading # Idle =>
        /\ reading.account \in Account
        /\ series[reading.account] \subseteq reading.held
        /\ reading.held \cup reading.built \subseteq {d \in Day : d < today}
        /\ IsRun(reading.held \cup reading.built)
        /\ reading.spent \subseteq reading.moved
        /\ ~skipped => /\ wrong[reading.account] \subseteq reading.moved \cup lapsed[reading.account]
                       /\ \A d \in reading.moved \ reading.spent :
                            Waiting(reading.account, d, Len(log))

IInv == TypeOK /\ LogInv /\ StoreInv /\ WrongInv /\ ReadInv

Reading == [account : Account \cup {NoAccount}, held : SUBSET Day,
            built : SUBSET Day, moved : SUBSET Day, spent : SUBSET Day]

-----------------------------------------------------------------------------
(* The operators. *)

LEMMA HullIsRun ==
    ASSUME NEW S \in SUBSET Day
    PROVE  /\ S \subseteq Hull(S) /\ Hull(S) \subseteq Day /\ IsRun(Hull(S))
           /\ \A t \in Int : S \subseteq {d \in Day : d < t} => Hull(S) \subseteq {d \in Day : d < t}
<1>1. Day \subseteq Int
  BY MarkInputsAssumption DEF Day
<1>2. S \subseteq Hull(S) /\ Hull(S) \subseteq Day
  BY <1>1 DEF Hull
<1>3. ASSUME NEW d \in Hull(Hull(S))
      PROVE  d \in Hull(S)
  <2>1. PICK x \in Hull(S), y \in Hull(S) : d \in Day /\ x <= d /\ d <= y
    BY DEF Hull
  <2>2. PICK v \in S, w \in S : v <= x /\ y <= w
    BY <2>1 DEF Hull
  <2>3. v <= d /\ d <= w
    BY <1>1, <1>2, <2>1, <2>2
  <2> QED
    BY <2>1, <2>2, <2>3 DEF Hull
<1>4. Hull(S) \subseteq Hull(Hull(S))
  BY <1>1, <1>2 DEF Hull
<1>5. IsRun(Hull(S))
  BY <1>3, <1>4 DEF IsRun
<1>6. ASSUME NEW t \in Int, S \subseteq {d \in Day : d < t}
      PROVE  Hull(S) \subseteq {d \in Day : d < t}
  <2>1. ASSUME NEW d \in Hull(S)
        PROVE  d \in Day /\ d < t
    <3>1. PICK y \in S : d \in Day /\ d <= y
      BY DEF Hull
    <3>2. y \in Day /\ y < t
      BY <1>6
    <3> QED
      BY <1>1, <3>1, <3>2
  <2> QED
    BY <2>1
<1> QED
  BY <1>2, <1>5, <1>6

\* A prefix of a run is a run.
LEMMA PrefixIsRun ==
    ASSUME NEW S \in SUBSET Day, NEW T \in SUBSET S, IsRun(S),
           \A d \in T, e \in S : e <= d => e \in T
    PROVE  IsRun(T)
<1>1. Day \subseteq Int
  BY MarkInputsAssumption DEF Day
<1>2. T \subseteq Hull(T)
  BY <1>1 DEF Hull
<1>3. ASSUME NEW d \in Hull(T)
      PROVE  d \in T
  <2>1. PICK x \in T, y \in T : d \in Day /\ x <= d /\ d <= y
    BY DEF Hull
  <2>2. d \in Hull(S)
    BY <2>1 DEF Hull
  <2>3. d \in S
    BY <2>2 DEF IsRun
  <2> QED
    BY <2>1, <2>3
<1> QED
  BY <1>2, <1>3 DEF IsRun

\* The consumer takes away no day a row cannot have moved, and all it moved but
\* for the days a basket row of an earlier day no longer reaches.
LEMMA TrimsWhatMoves ==
    ASSUME NEW r \in Row, NEW a \in Account, NEW d \in Day, today \in Int
    PROVE  /\ From(r) \in Int
           /\ d \in Moves(r, a) => /\ Trims(r, a)
                                   /\ d >= From(r) \/ (IsBasket(r) /\ d < today - Recent)
           /\ Trims(r, a) /\ d >= From(r) /\ (IsBasket(r) => r.day <= today)
                => d \in Moves(r, a)
<1>1. Reads(a, r) <=> Trims(r, a)
  BY MarkInputsAssumption DEF Reads, Trims, Lowers
<1>2. r.day \in Int /\ d \in Int /\ Back \in Int /\ Recent \in Int
  BY MarkInputsAssumption DEF Row, Day
<1>3. d \in Moves(r, a) <=> Reads(a, r) /\ d >= r.day - Reach(r)
  BY DEF Moves
<1>4. CASE IsBasket(r)
  <2>1. From(r) = today - Recent /\ Reach(r) = Recent
    BY <1>4 DEF From, Reach, IsBasket
  <2> QED
    BY <1>1, <1>2, <1>3, <1>4, <2>1
<1>5. CASE ~IsBasket(r) /\ r.source \in {"cc_statements", "fund_unit_daily"}
  <2>1. From(r) = r.day - Back /\ Reach(r) = Back
    BY <1>5 DEF From, Reach
  <2> QED
    BY <1>1, <1>2, <1>3, <1>5, <2>1
<1>6. CASE ~IsBasket(r) /\ r.source \notin {"cc_statements", "fund_unit_daily"}
  <2>1. From(r) = r.day /\ Reach(r) = 0
    BY <1>6 DEF From, Reach
  <2> QED
    BY <1>1, <1>2, <1>3, <1>6, <2>1
<1> QED
  BY <1>4, <1>5, <1>6

-----------------------------------------------------------------------------
(* The two things a step does to the log: apply it, or add a row. *)

\* After the log is applied nothing wrong is stored but the days set aside,
\* neither now nor after the transaction that is open is rolled back.
LEMMA ApplyCleans ==
    ASSUME IInv, Apply
    PROVE  /\ lastApplied' \in Nat
           /\ series' \in [Account -> SUBSET {d \in Day : d < today}]
           /\ wrong' \in [Account -> SUBSET Day]
           /\ lapsed' \in [Account -> SUBSET Day]
           /\ \A a \in Account :
                /\ series'[a] \subseteq series[a]
                /\ wrong'[a] \subseteq series'[a]
                /\ IsRun(series'[a])
                /\ tx # NoTx => txWrong[a] \cap series'[a] \subseteq wrong'[a]
                /\ ~skipped => wrong'[a] \subseteq lapsed'[a]
<1>1. /\ log \in Seq(Change) /\ Len(log) \in Nat /\ pruned \in Nat /\ tx \in Int
      /\ lastApplied \in Nat \cup {Unapplied} /\ Change \subseteq Row /\ today \in Int
      /\ series \in [Account -> SUBSET {d \in Day : d < today}]
      /\ wrong \in [Account -> SUBSET Day] /\ lapsed \in [Account -> SUBSET Day]
      /\ pruned <= Len(log)
  BY MarkInputsAssumption DEF IInv, TypeOK, LogInv, NoTx
<1>2. CASE NothingNew
  <2>1. lastApplied \in Nat /\ Len(log) <= lastApplied
    BY <1>1, <1>2 DEF NothingNew, Unapplied
  <2>2. UNCHANGED <<lastApplied, series, wrong, lapsed>>
    BY <1>2 DEF Apply, storeVars
  <2>3. ASSUME NEW a \in Account, NEW d
        PROVE  ~Waiting(a, d, Len(log))
    BY <1>1, <2>1 DEF Waiting, WaitsIn
  <2>4. ASSUME NEW a \in Account, ~skipped
        PROVE  wrong[a] \subseteq lapsed[a]
    BY <1>1, <2>3, <2>4 DEF IInv, WrongInv
  <2> QED
    BY <1>1, <2>1, <2>2, <2>4 DEF IInv, StoreInv
<1>3. CASE ~NothingNew /\ lastApplied = Unapplied
  <2>1. lastApplied' \in Nat /\ UNCHANGED <<series, wrong, lapsed>>
    BY <1>1, <1>3 DEF Apply, storeVars
  <2>2. \A a \in Account : wrong[a] = {} /\ series[a] = {} /\ IsRun(series[a])
    BY <1>3 DEF IInv, StoreInv
  <2> QED
    BY <1>1, <2>1, <2>2
<1>4. CASE ~NothingNew /\ lastApplied # Unapplied
  <2>1. /\ lastApplied' = Len(log)
        /\ series' = [a \in Account |-> Kept(a)]
        /\ wrong' = [a \in Account |-> wrong[a] \cap Kept(a)]
        /\ lapsed' = [a \in Account |-> wrong'[a] \cap (lapsed[a] \cup OutOfReach(a))]
    BY <1>4 DEF Apply
  <2>a. \A r \in Pending : r \in Row
    BY <1>1 DEF Pending
  <2>2. ASSUME NEW a \in Account
        PROVE  Kept(a) \subseteq series[a] /\ IsRun(Kept(a))
    <3>1. Kept(a) \subseteq series[a]
      BY DEF Kept
    <3>2. series[a] \in SUBSET Day /\ IsRun(series[a]) /\ Day \subseteq Int
      BY <1>1, MarkInputsAssumption DEF IInv, StoreInv, Day
    <3>3. ASSUME NEW d \in Kept(a), NEW e \in series[a], e <= d
          PROVE  e \in Kept(a)
      <4>1. ~MissedRows
        BY DEF Kept
      <4>2. \A r \in Pending : Trims(r, a) => d < From(r)
        BY <4>1 DEF Kept
      <4>4. ASSUME NEW r \in Pending, Trims(r, a)
            PROVE  e < From(r)
        <5>1. d < From(r)
          BY <4>2, <4>4
        <5>2. d \in Day /\ d \in Int /\ e \in Int /\ e <= d
          BY <3>1, <3>2, <3>3
        <5>3. From(r) \in Int
          BY <1>1, <2>a, <5>2, TrimsWhatMoves
        <5> QED
          BY <5>1, <5>2, <5>3
      <4> QED
        BY <4>1, <4>4 DEF Kept
    <3> QED
      BY <3>1, <3>2, <3>3, PrefixIsRun
  <2>3. ASSUME NEW a \in Account, NEW d \in series[a], Waiting(a, d, Len(log)), d \in Kept(a)
        PROVE  d \in OutOfReach(a)
    <3>1. pruned <= lastApplied /\ ~MissedRows
      <4>1. ~MissedRows
        BY <2>3 DEF Kept
      <4> QED
        BY <1>1, <1>4, <4>1 DEF MissedRows, Unapplied
    <3>2. PICK i \in 1 .. Len(log) : i > lastApplied /\ i > pruned /\ d \in Moves(log[i], a)
      BY <1>1, <1>4, <2>3, <3>1 DEF Waiting, WaitsIn, Unapplied
    <3>3. log[i] \in Pending
      BY <1>1, <3>2 DEF Pending
    <3>4. log[i] \in Row /\ d \in Day /\ d \in Int
      BY <1>1, <2>a, <3>3, MarkInputsAssumption DEF Day
    <3>5. /\ From(log[i]) \in Int
          /\ Trims(log[i], a)
          /\ d >= From(log[i]) \/ (IsBasket(log[i]) /\ d < today - Recent)
      BY <1>1, <3>2, <3>4, TrimsWhatMoves
    <3>6. d < From(log[i])
      BY <2>3, <3>1, <3>3, <3>5 DEF Kept
    <3>7. IsBasket(log[i]) /\ d < today - Recent
      BY <3>4, <3>5, <3>6
    <3> QED
      BY <3>2, <3>3, <3>4, <3>7 DEF OutOfReach
  <2>4. ASSUME NEW a \in Account, ~skipped, NEW d \in wrong[a] \cap Kept(a)
        PROVE  d \in lapsed[a] \cup OutOfReach(a)
    <3>1. d \in series[a] /\ (Waiting(a, d, Len(log)) \/ d \in lapsed[a])
      BY <2>4 DEF IInv, StoreInv, WrongInv
    <3> QED
      BY <2>3, <2>4, <3>1
  <2>5. ASSUME NEW a \in Account
        PROVE  /\ series'[a] = Kept(a) /\ wrong'[a] = wrong[a] \cap Kept(a)
               /\ lapsed'[a] = wrong'[a] \cap (lapsed[a] \cup OutOfReach(a))
    BY <2>1
  <2>6. ASSUME NEW a \in Account, tx # NoTx
        PROVE  txWrong[a] \cap Kept(a) \subseteq wrong[a] \cap Kept(a)
    BY <2>2, <2>6 DEF IInv, StoreInv
  <2>7. lastApplied' \in Nat /\ lapsed' \in [Account -> SUBSET Day]
    BY <1>1, <2>1
  <2>8. /\ series' \in [Account -> SUBSET {d \in Day : d < today}]
        /\ wrong' \in [Account -> SUBSET Day]
    BY <1>1, <2>1, <2>2
  <2> QED
    BY <2>2, <2>4, <2>5, <2>6, <2>7, <2>8
<1> QED
  BY <1>2, <1>3, <1>4

\* Whatever a row moves waits for it, and what waited goes on waiting.
LEMMA LogsIsNoticed ==
    ASSUME IInv, NEW r \in Change, Logs(r), UNCHANGED <<pruned, tx, txWrong, lastApplied, series>>
    PROVE  /\ log' \in Seq(Change) /\ Len(log') <= MaxRows /\ Len(log') = Len(log) + 1
           /\ skipped' \in BOOLEAN /\ (~skipped' => ~skipped)
           /\ wrong' \in [Account -> SUBSET Day]
           /\ \A a \in Account : wrong'[a] = wrong[a] \cup (series[a] \cap Moves(r, a))
           /\ \A a \in Account, d \in Day :
                /\ tx # NoTx /\ Waiting(a, d, tx) => Waiting(a, d, tx)'
                /\ Waiting(a, d, Len(log)) => Waiting(a, d, Len(log))'
                /\ ~skipped' /\ d \in Moves(r, a) => Waiting(a, d, Len(log))'
           /\ \A i \in 1 .. Len(log') : IsBasket(log'[i]) => log'[i].day <= today
<1>1. /\ log \in Seq(Change) /\ Len(log) \in Nat /\ pruned \in Nat /\ tx \in Int
      /\ lastApplied \in Nat \cup {Unapplied} /\ r \in Row /\ MaxRows \in Nat
      /\ wrong \in [Account -> SUBSET Day]
      /\ pruned <= Len(log) /\ (tx # NoTx => tx <= Len(log)) /\ skipped \in BOOLEAN
  BY MarkInputsAssumption DEF IInv, TypeOK, LogInv, NoTx
<1>2. /\ log' \in Seq(Change) /\ Len(log') = Len(log) + 1 /\ Len(log') <= MaxRows
      /\ \A i \in 1 .. Len(log) : log'[i] = log[i]
      /\ log'[Len(log) + 1] = r
  BY <1>1, AppendProperties DEF Logs
<1>3. skipped' \in BOOLEAN /\ (~skipped' => ~skipped /\ lastApplied <= Len(log))
  <2> DEFINE late == Len(log) < lastApplied
  <2>1. skipped' = (skipped \/ late)
    BY DEF Logs
  <2>2. ~late => lastApplied <= Len(log)
    BY <1>1 DEF Unapplied
  <2> HIDE DEF late
  <2>3. skipped' \in BOOLEAN /\ (~skipped' => ~skipped /\ ~late)
    BY <2>1, Zenon
  <2> QED
    BY <2>2, <2>3
<1>4. /\ wrong' \in [Account -> SUBSET Day]
      /\ \A a \in Account : wrong'[a] = wrong[a] \cup (series[a] \cap Moves(r, a))
  <2>1. \A a \in Account : Moves(r, a) \subseteq Day
    BY DEF Moves
  <2> QED
    BY <1>1, <2>1 DEF Logs
<1>5. ASSUME NEW a \in Account, NEW d \in Day, NEW n \in Int, n <= Len(log), Waiting(a, d, n)
      PROVE  /\ Waiting(a, d, n)'
             /\ Waiting(a, d, Len(log))'
  BY <1>1, <1>2, <1>5 DEF Waiting, WaitsIn
<1>6. ASSUME NEW a \in Account, NEW d \in Day, ~skipped', d \in Moves(r, a)
      PROVE  Waiting(a, d, Len(log))'
  <2>1. Len(log) + 1 > lastApplied /\ Len(log) + 1 > pruned
    BY <1>1, <1>3, <1>6
  <2> QED
    BY <1>1, <1>2, <1>6, <2>1 DEF Waiting, WaitsIn
<1>7. ASSUME NEW i \in 1 .. Len(log'), IsBasket(log'[i])
      PROVE  log'[i].day <= today
  <2>1. IsBasket(r) => r.day <= today
    <3>1. today \in Int
      BY DEF IInv, TypeOK
    <3> QED
      BY <3>1 DEF Logs
  <2>2. i \in 1 .. Len(log) \/ i = Len(log) + 1
    BY <1>1, <1>2
  <2> QED
    BY <1>2, <1>7, <2>1, <2>2 DEF IInv, LogInv
<1> QED
  BY <1>1, <1>2, <1>3, <1>4, <1>5, <1>6, <1>7

-----------------------------------------------------------------------------
(* The invariant is preserved, action by action. *)

LEMMA InitInv == Init => IInv
<1> SUFFICES ASSUME Init PROVE IInv
  OBVIOUS
<1>1. Hull({}) = {}
  BY DEF Hull
<1>2. TypeOK
  <2>1. log \in Seq(Change) /\ Len(log) = 0
    BY DEF Init
  <2>2. reading \in Reading
    BY DEF Init, Idle, Reading
  <2>3. /\ lapsed \in [Account -> SUBSET Day]
        /\ series \in [Account -> SUBSET {d \in Day : d < today}]
        /\ wrong \in [Account -> SUBSET Day] /\ txWrong \in [Account -> SUBSET Day]
    BY DEF Init
  <2>4. pruned \in 0 .. MaxRows /\ Len(log) <= MaxRows
    BY <2>1, MarkInputsAssumption DEF Init
  <2>5. /\ today \in 1 .. LastDay + 1 /\ tx = NoTx /\ lastApplied = Unapplied
        /\ skipped \in BOOLEAN
    BY DEF Init
  <2> QED
    BY <2>1, <2>2, <2>3, <2>4, <2>5 DEF TypeOK, Reading
<1>3. LogInv /\ StoreInv /\ WrongInv /\ ReadInv
  BY <1>1 DEF Init, LogInv, StoreInv, WrongInv, ReadInv, IsRun, Idle, NoTx, Unapplied
<1> QED
  BY <1>2, <1>3 DEF IInv

LEMMA RowKeepsInv ==
    ASSUME IInv, NEW r \in Change, Write(r) \/ OtherCommit(r)
    PROVE  IInv'
<1>1. Logs(r) /\ UNCHANGED <<pruned, tx, txWrong, today, lastApplied, series, lapsed>>
  BY DEF Write, OtherCommit
<1>2. /\ log' \in Seq(Change) /\ Len(log') <= MaxRows /\ Len(log') = Len(log) + 1
      /\ skipped' \in BOOLEAN /\ (~skipped' => ~skipped)
      /\ wrong' \in [Account -> SUBSET Day]
      /\ \A a \in Account : wrong'[a] = wrong[a] \cup (series[a] \cap Moves(r, a))
      /\ \A a \in Account, d \in Day :
           /\ tx # NoTx /\ Waiting(a, d, tx) => Waiting(a, d, tx)'
           /\ Waiting(a, d, Len(log)) => Waiting(a, d, Len(log))'
           /\ ~skipped' /\ d \in Moves(r, a) => Waiting(a, d, Len(log))'
      /\ \A i \in 1 .. Len(log') : IsBasket(log'[i]) => log'[i].day <= today
  BY <1>1, LogsIsNoticed
<1>3. /\ Len(log) \in Nat /\ pruned \in Nat /\ tx \in Int
      /\ pruned <= Len(log) /\ (tx # NoTx => pruned <= tx /\ tx <= Len(log) /\ reading = Idle)
      /\ wrong \in [Account -> SUBSET Day] /\ txWrong \in [Account -> SUBSET Day]
      /\ reading \in Reading
  BY DEF IInv, TypeOK, LogInv, NoTx, Reading
<1>4. \/ reading = Idle /\ reading' = Idle
      \/ /\ reading # Idle /\ tx = NoTx
         /\ reading' = [reading EXCEPT !.moved = @ \cup Moves(r, reading.account)]
  BY DEF Write, OtherCommit
<1>5. \A a \in Account : Moves(r, a) \subseteq Day
  BY DEF Moves
<1>6. reading' \in Reading
  <2>1. reading # Idle => reading.account \in Account
    BY DEF IInv, ReadInv
  <2> QED
    BY <1>3, <1>4, <1>5, <2>1 DEF Reading
<1>7. TypeOK'
  BY <1>1, <1>2, <1>6 DEF IInv, TypeOK, Reading
<1>8. LogInv'
  BY <1>1, <1>2, <1>3, <1>4 DEF LogInv
<1>9. StoreInv'
  <2>1. lastApplied = Unapplied /\ Account # {} => reading = Idle
    BY DEF IInv, StoreInv
  <2> QED
    BY <1>1, <1>2, <1>4, <2>1 DEF IInv, StoreInv
<1>10. WrongInv'
  <2>1. ASSUME ~skipped', NEW a \in Account, NEW d \in wrong'[a]
        PROVE  Waiting(a, d, Len(log))' \/ d \in lapsed'[a]
    <3>1. d \in Day /\ (d \in wrong[a] \/ d \in Moves(r, a))
      BY <1>2, <2>1
    <3>2. d \in wrong[a] => Waiting(a, d, Len(log)) \/ d \in lapsed[a]
      BY <1>2, <2>1 DEF IInv, WrongInv
    <3> QED
      BY <1>1, <1>2, <2>1, <3>1, <3>2
  <2>2. ASSUME ~skipped', tx' # NoTx, NEW a \in Account, NEW d \in txWrong'[a] \cap series'[a]
        PROVE  Waiting(a, d, tx)' \/ d \in lapsed'[a]
    <3>1. tx # NoTx /\ d \in Day /\ d \in txWrong[a] \cap series[a]
      BY <1>1, <1>3, <2>2
    <3>2. Waiting(a, d, tx) \/ d \in lapsed[a]
      BY <1>2, <2>2, <3>1 DEF IInv, WrongInv
    <3> QED
      BY <1>1, <1>2, <3>1, <3>2
  <2> QED
    BY <2>1, <2>2 DEF WrongInv
<1>11. ReadInv'
  <2>1. CASE reading' = Idle
    BY <2>1 DEF ReadInv
  <2>2. CASE reading # Idle /\ reading' = [reading EXCEPT !.moved = @ \cup Moves(r, reading.account)]
    <3>a. PICK a \in Account : a = reading.account
      BY <2>2 DEF IInv, ReadInv
    <3>1. /\ reading'.account = a /\ reading'.built = reading.built
          /\ reading'.held = reading.held /\ reading'.spent = reading.spent
          /\ reading'.moved = reading.moved \cup Moves(r, a)
          /\ reading.moved \subseteq Day
      BY <1>3, <2>2, <3>a DEF Reading
    <3>2. /\ series[a] \subseteq reading.held
          /\ reading.held \cup reading.built \subseteq {d \in Day : d < today}
          /\ IsRun(reading.held \cup reading.built)
          /\ reading.spent \subseteq reading.moved
          /\ ~skipped => /\ wrong[a] \subseteq reading.moved \cup lapsed[a]
                         /\ \A d \in reading.moved \ reading.spent : Waiting(a, d, Len(log))
      BY <2>2, <3>a DEF IInv, ReadInv
    <3>3. ~skipped' => /\ wrong'[a] \subseteq reading'.moved \cup lapsed'[a]
                       /\ \A d \in reading'.moved \ reading'.spent : Waiting(a, d, Len(log))'
      <4> SUFFICES ASSUME ~skipped'
                   PROVE  /\ wrong'[a] \subseteq reading'.moved \cup lapsed'[a]
                          /\ \A d \in reading'.moved \ reading'.spent : Waiting(a, d, Len(log))'
        OBVIOUS
      <4>1. /\ wrong[a] \subseteq reading.moved \cup lapsed[a]
            /\ \A d \in reading.moved \ reading.spent : Waiting(a, d, Len(log))
        BY <1>2, <3>2
      <4>2. wrong'[a] \subseteq reading'.moved \cup lapsed'[a]
        BY <1>1, <1>2, <3>1, <4>1
      <4>3. ASSUME NEW d \in reading'.moved \ reading'.spent
            PROVE  Waiting(a, d, Len(log))'
        <5>1. d \in Day /\ (d \in reading.moved \ reading.spent \/ d \in Moves(r, a))
          BY <1>5, <3>1
        <5> QED
          BY <1>2, <3>1, <4>1, <5>1
      <4> QED
        BY <4>2, <4>3
    <3>4. /\ series'[a] \subseteq reading'.held
          /\ reading'.held \cup reading'.built \subseteq {d \in Day : d < today'}
          /\ IsRun(reading'.held \cup reading'.built)
          /\ reading'.spent \subseteq reading'.moved
      BY <1>1, <3>1, <3>2
    <3> QED
      BY <3>1, <3>3, <3>4 DEF ReadInv
  <2> QED
    BY <1>4, <2>1, <2>2
<1> QED
  BY <1>7, <1>8, <1>9, <1>10, <1>11 DEF IInv

LEMMA PruneKeepsInv == IInv /\ Prune => IInv'
<1> SUFFICES ASSUME IInv, Prune PROVE IInv'
  OBVIOUS
<1>1. /\ tx = NoTx /\ reading = Idle /\ Len(log) \in Nat /\ pruned \in Nat
      /\ UNCHANGED <<log, tx, txWrong, skipped, today, lastApplied, series, wrong, lapsed, reading>>
      /\ lastApplied \in Nat \cup {Unapplied} /\ Len(log) <= MaxRows /\ MaxRows \in Nat
  BY MarkInputsAssumption DEF IInv, TypeOK, Prune, storeVars
<1>2. PICK n \in pruned + 1 .. Len(log) - 1 : pruned' = n
  BY DEF Prune
<1>3. ASSUME NEW a \in Account, NEW d, Waiting(a, d, Len(log))
      PROVE  Waiting(a, d, Len(log))'
  BY <1>1, <1>2, <1>3 DEF Waiting, WaitsIn, Unapplied
<1>4. TypeOK'
  BY <1>1, <1>2 DEF IInv, TypeOK
<1>5. LogInv' /\ StoreInv' /\ ReadInv'
  BY <1>1, <1>2 DEF IInv, LogInv, StoreInv, ReadInv
<1>6. WrongInv'
  BY <1>1, <1>3 DEF IInv, WrongInv
<1> QED
  BY <1>4, <1>5, <1>6 DEF IInv

LEMMA BeginKeepsInv == IInv /\ Begin => IInv'
<1> SUFFICES ASSUME IInv, Begin PROVE IInv'
  OBVIOUS
<1>1. /\ reading = Idle /\ tx' = Len(log) /\ txWrong' = wrong /\ Len(log) \in Nat
      /\ UNCHANGED <<log, pruned, skipped, today, lastApplied, series, wrong, lapsed, reading>>
  BY DEF IInv, TypeOK, Begin, storeVars
<1>2. ASSUME NEW a \in Account, NEW d, Waiting(a, d, Len(log))
      PROVE  Waiting(a, d, Len(log))' /\ Waiting(a, d, tx)'
  BY <1>1, <1>2 DEF Waiting, WaitsIn
<1>3. TypeOK'
  BY <1>1 DEF IInv, TypeOK
<1>4. LogInv' /\ StoreInv' /\ ReadInv'
  BY <1>1 DEF IInv, TypeOK, LogInv, StoreInv, ReadInv
<1>5. WrongInv'
  BY <1>1, <1>2 DEF IInv, WrongInv
<1> QED
  BY <1>3, <1>4, <1>5 DEF IInv

LEMMA CommitKeepsInv == IInv /\ Commit => IInv'
<1> SUFFICES ASSUME IInv, Commit PROVE IInv'
  OBVIOUS
<1>1. /\ tx # NoTx /\ tx' = NoTx /\ txWrong' = [a \in Account |-> {}] /\ reading = Idle
      /\ UNCHANGED <<log, pruned, skipped, today, lastApplied, series, wrong, lapsed, reading>>
  BY DEF IInv, LogInv, Commit, storeVars
<1>2. ASSUME NEW a \in Account, NEW d, Waiting(a, d, Len(log))
      PROVE  Waiting(a, d, Len(log))'
  BY <1>1, <1>2 DEF Waiting, WaitsIn
<1>3. TypeOK'
  BY <1>1 DEF IInv, TypeOK
<1>4. LogInv' /\ StoreInv' /\ ReadInv'
  BY <1>1 DEF IInv, LogInv, StoreInv, ReadInv
<1>5. WrongInv'
  BY <1>1, <1>2 DEF IInv, WrongInv
<1> QED
  BY <1>3, <1>4, <1>5 DEF IInv

\* The days put back were waiting for rows older than the transaction.
LEMMA RollbackKeepsInv == IInv /\ Rollback => IInv'
<1> SUFFICES ASSUME IInv, Rollback PROVE IInv'
  OBVIOUS
<1>1. /\ tx # NoTx /\ tx' = NoTx /\ txWrong' = [a \in Account |-> {}] /\ reading = Idle
      /\ log' = SubSeq(log, 1, tx)
      /\ wrong' = [a \in Account |-> txWrong[a] \cap series[a]]
      /\ lapsed' = [a \in Account |-> lapsed[a] \cap wrong'[a]]
      /\ UNCHANGED <<pruned, skipped, today, lastApplied, series, reading>>
  BY DEF IInv, LogInv, Rollback
<1>2. /\ tx \in Nat /\ tx <= Len(log) /\ pruned <= tx /\ log \in Seq(Change)
      /\ Len(log) \in Nat /\ Len(log) <= MaxRows /\ MaxRows \in Nat
      /\ txWrong \in [Account -> SUBSET Day] /\ lapsed \in [Account -> SUBSET Day]
  BY <1>1, MarkInputsAssumption DEF IInv, TypeOK, LogInv
<1>3. log' \in Seq(Change) /\ Len(log') = tx /\ \A i \in 1 .. tx : log'[i] = log[i]
  <2>1. \A i \in 1 .. tx : log[i] \in Change
    BY <1>2
  <2>2. /\ SubSeq(log, 1, tx) \in Seq(Change)
        /\ Len(SubSeq(log, 1, tx)) = IF 1 <= tx THEN tx - 1 + 1 ELSE 0
        /\ \A i \in 1 .. tx - 1 + 1 : SubSeq(log, 1, tx)[i] = log[1 + i - 1]
    BY <1>2, <2>1, SubSeqProperties
  <2> QED
    BY <1>1, <1>2, <2>2
<1>4. ASSUME NEW a \in Account, NEW d, Waiting(a, d, tx)
      PROVE  Waiting(a, d, Len(log))'
  BY <1>1, <1>2, <1>3, <1>4 DEF Waiting, WaitsIn
<1>5. TypeOK'
  <2>1. /\ wrong' \in [Account -> SUBSET Day] /\ txWrong' \in [Account -> SUBSET Day]
        /\ lapsed' \in [Account -> SUBSET Day]
    BY <1>1, <1>2
  <2> QED
    BY <1>1, <1>2, <1>3, <2>1 DEF IInv, TypeOK
<1>6. LogInv' /\ StoreInv' /\ ReadInv'
  BY <1>1, <1>2, <1>3 DEF IInv, LogInv, StoreInv, ReadInv
<1>7. WrongInv'
  BY <1>1, <1>4 DEF IInv, WrongInv
<1> QED
  BY <1>5, <1>6, <1>7 DEF IInv

LEMMA ApplyLogKeepsInv == IInv /\ ApplyLog => IInv'
<1> SUFFICES ASSUME IInv, ApplyLog PROVE IInv'
  OBVIOUS
<1>1. /\ Apply /\ UNCHANGED <<log, pruned, tx, txWrong, skipped, today>>
      /\ reading' = [reading EXCEPT !.spent = reading.moved]
      /\ reading \in Reading
  BY DEF ApplyLog, rowVars, IInv, TypeOK, Reading
<1>2. /\ lastApplied' \in Nat
      /\ series' \in [Account -> SUBSET {d \in Day : d < today}]
      /\ wrong' \in [Account -> SUBSET Day]
      /\ lapsed' \in [Account -> SUBSET Day]
      /\ \A a \in Account :
           /\ series'[a] \subseteq series[a]
           /\ wrong'[a] \subseteq series'[a]
           /\ IsRun(series'[a])
           /\ tx # NoTx => txWrong[a] \cap series'[a] \subseteq wrong'[a]
           /\ ~skipped => wrong'[a] \subseteq lapsed'[a]
  BY <1>1, ApplyCleans
<1>3. reading' \in Reading /\ (reading = Idle => reading' = Idle)
  BY <1>1 DEF Reading, Idle
<1>4. TypeOK'
  BY <1>1, <1>2, <1>3 DEF IInv, TypeOK, Reading
<1>5. LogInv'
  BY <1>1, <1>3 DEF IInv, LogInv
<1>6. StoreInv'
  BY <1>1, <1>2 DEF StoreInv, Unapplied
<1>7. WrongInv'
  BY <1>1, <1>2 DEF WrongInv
<1>8. ReadInv'
  <2> SUFFICES ASSUME reading # Idle PROVE ReadInv'
    BY <1>3 DEF ReadInv
  <2>1. /\ reading'.account = reading.account /\ reading'.held = reading.held
        /\ reading'.built = reading.built /\ reading'.moved = reading.moved
        /\ reading'.spent = reading.moved
    BY <1>1 DEF Reading
  <2>2. /\ reading.account \in Account
        /\ series[reading.account] \subseteq reading.held
        /\ reading.held \cup reading.built \subseteq {d \in Day : d < today}
        /\ IsRun(reading.held \cup reading.built)
    BY DEF IInv, ReadInv
  <2>3. /\ series'[reading.account] \subseteq series[reading.account]
        /\ ~skipped => wrong'[reading.account] \subseteq lapsed'[reading.account]
    BY <1>2, <2>2
  <2> QED
    BY <1>1, <2>1, <2>2, <2>3 DEF ReadInv
<1> QED
  BY <1>4, <1>5, <1>6, <1>7, <1>8 DEF IInv

LEMMA BeginReadKeepsInv ==
    ASSUME IInv, NEW a \in Account, NEW from \in Day, NEW to \in Day, BeginRead(a, from, to)
    PROVE  IInv'
<1> DEFINE held == series'[a]
           asked == Window(from, to)
<1>1. /\ tx = NoTx /\ Apply /\ UNCHANGED <<log, pruned, tx, txWrong, skipped, today>>
      /\ reading' = [account |-> a, held |-> held, built |-> Missing(held, asked),
                     moved |-> {}, spent |-> {}]
  BY DEF BeginRead, rowVars
<1>2. /\ lastApplied' \in Nat
      /\ series' \in [Account -> SUBSET {d \in Day : d < today}]
      /\ wrong' \in [Account -> SUBSET Day]
      /\ lapsed' \in [Account -> SUBSET Day]
      /\ \A b \in Account :
           /\ wrong'[b] \subseteq series'[b]
           /\ IsRun(series'[b])
           /\ ~skipped => wrong'[b] \subseteq lapsed'[b]
  BY <1>1, ApplyCleans
<1>3. today \in Int /\ Day \subseteq Int /\ LastDay \in Nat
  BY MarkInputsAssumption DEF IInv, TypeOK, Day
<1>4. held \cup asked \subseteq {d \in Day : d < today}
  <2>1. asked \subseteq {d \in Day : d < today}
    BY <1>3 DEF Window, Day
  <2> QED
    BY <1>2, <2>1
<1>5. /\ held \subseteq Hull(held \cup asked) /\ IsRun(Hull(held \cup asked))
      /\ Hull(held \cup asked) \subseteq {d \in Day : d < today}
  <2>1. held \cup asked \in SUBSET Day
    BY <1>4
  <2> HIDE DEF held, asked
  <2> QED
    BY <1>3, <1>4, <2>1, HullIsRun
<1>6. Missing(held, asked) = Hull(held \cup asked) \ held
  BY DEF Missing
<1> HIDE DEF held, asked
<1>a. held \subseteq {d \in Day : d < today}
  BY <1>4
<1>7. /\ reading'.account = a /\ reading'.moved = {} /\ reading'.spent = {}
      /\ reading'.held = held
      /\ reading'.held \cup reading'.built \subseteq {d \in Day : d < today'}
      /\ reading'.held \cup reading'.built = Hull(held \cup asked)
      /\ reading' \in Reading
  BY <1>1, <1>5, <1>6, <1>a DEF Reading
<1>8. TypeOK'
  BY <1>1, <1>2, <1>7 DEF IInv, TypeOK, Reading
<1>9. LogInv'
  BY <1>1 DEF IInv, LogInv
<1>10. StoreInv'
  BY <1>1, <1>2 DEF StoreInv, Unapplied
<1>11. WrongInv'
  BY <1>1, <1>2 DEF WrongInv
<1>12. ReadInv'
  <2>1. IsRun(reading'.held \cup reading'.built) /\ series'[reading'.account] = reading'.held
    BY <1>5, <1>7 DEF held
  <2> QED
    BY <1>1, <1>2, <1>7, <2>1 DEF ReadInv
<1> QED
  BY <1>8, <1>9, <1>10, <1>11, <1>12 DEF IInv

\* What the read stores wrong was moved by a commit that is not applied yet, or
\* is set aside.
LEMMA FinishReadKeepsInv == IInv /\ FinishRead => IInv'
<1> SUFFICES ASSUME IInv, FinishRead PROVE IInv'
  OBVIOUS
<1>1. PICK a \in Account : a = reading.account
  BY DEF IInv, ReadInv, FinishRead
<1>2. /\ reading # Idle /\ reading' = Idle /\ tx = NoTx /\ lastApplied # Unapplied
      /\ UNCHANGED <<log, pruned, tx, txWrong, skipped, today, lastApplied>>
  BY <1>1 DEF IInv, LogInv, StoreInv, FinishRead, rowVars
<1>3. /\ series \in [Account -> SUBSET {d \in Day : d < today}]
      /\ wrong \in [Account -> SUBSET Day] /\ lapsed \in [Account -> SUBSET Day]
      /\ series[a] \subseteq reading.held
      /\ reading.held \cup reading.built \subseteq {d \in Day : d < today}
      /\ IsRun(reading.held \cup reading.built)
      /\ ~skipped => \A d \in reading.moved \ reading.spent : Waiting(a, d, Len(log))
  BY <1>1, <1>2 DEF IInv, TypeOK, ReadInv
<1>4. /\ series' \in [Account -> SUBSET {d \in Day : d < today}]
      /\ wrong' \in [Account -> SUBSET Day] /\ lapsed' \in [Account -> SUBSET Day]
      /\ \A b \in Account :
           /\ wrong'[b] \subseteq series'[b]
           /\ IsRun(series'[b])
           /\ lapsed[b] \subseteq lapsed'[b]
           /\ ~skipped => \A d \in wrong'[b] : d \in wrong[b] \/ d \in lapsed'[b]
                                             \/ Waiting(b, d, Len(log))
  <2>1. CASE reading.built = {}
    BY <1>3, <2>1 DEF FinishRead, storeVars, IInv, StoreInv
  <2>2. CASE reading.built # {}
    <3>1. PICK early \in SUBSET (reading.built \cap reading.moved) :
            LET stale == (reading.held \cap reading.moved) \cup early
            IN  /\ series' = [series EXCEPT ![a] = reading.held \cup reading.built]
                /\ wrong' = [wrong EXCEPT ![a] = @ \cup stale]
                /\ lapsed' = [lapsed EXCEPT ![a] = @ \cup (stale \cap reading.spent)]
      BY <1>1, <2>2 DEF FinishRead
    <3> DEFINE stale == (reading.held \cap reading.moved) \cup early
    <3>2. /\ series' = [series EXCEPT ![a] = reading.held \cup reading.built]
          /\ wrong' = [wrong EXCEPT ![a] = @ \cup stale]
          /\ lapsed' = [lapsed EXCEPT ![a] = @ \cup (stale \cap reading.spent)]
      BY <3>1
    <3>3. stale \subseteq reading.moved /\ stale \subseteq reading.held \cup reading.built
          /\ stale \subseteq Day
      BY <1>3
    <3> HIDE DEF stale
    <3>4. /\ series'[a] = reading.held \cup reading.built /\ wrong'[a] = wrong[a] \cup stale
          /\ lapsed'[a] = lapsed[a] \cup (stale \cap reading.spent)
          /\ \A b \in Account \ {a} :
               series'[b] = series[b] /\ wrong'[b] = wrong[b] /\ lapsed'[b] = lapsed[b]
      BY <1>3, <3>2
    <3>5. /\ series' \in [Account -> SUBSET {d \in Day : d < today}]
          /\ wrong' \in [Account -> SUBSET Day] /\ lapsed' \in [Account -> SUBSET Day]
      BY <1>3, <3>2, <3>3
    <3>6. \A b \in Account : wrong[b] \subseteq series[b] /\ IsRun(series[b])
      BY DEF IInv, StoreInv
    <3>7. /\ wrong'[a] \subseteq series'[a] /\ IsRun(series'[a]) /\ lapsed[a] \subseteq lapsed'[a]
          /\ ~skipped => \A d \in wrong'[a] : d \in wrong[a] \/ d \in lapsed'[a]
                                            \/ Waiting(a, d, Len(log))
      BY <1>3, <3>3, <3>4, <3>6
    <3> QED
      BY <3>4, <3>5, <3>6, <3>7
  <2> QED
    BY <2>1, <2>2
<1>5. ASSUME NEW b \in Account, NEW d, Waiting(b, d, Len(log))
      PROVE  Waiting(b, d, Len(log))'
  BY <1>2, <1>5 DEF Waiting, WaitsIn
<1>6. TypeOK'
  <2>1. reading' \in Reading
    BY <1>2 DEF Idle, Reading
  <2> QED
    BY <1>2, <1>4, <2>1 DEF IInv, TypeOK, Reading
<1>7. LogInv' /\ ReadInv'
  BY <1>2 DEF IInv, LogInv, ReadInv
<1>8. StoreInv'
  BY <1>2, <1>4 DEF StoreInv
<1>9. WrongInv'
  <2>1. ASSUME ~skipped, NEW b \in Account, NEW d \in wrong'[b]
        PROVE  Waiting(b, d, Len(log)) \/ d \in lapsed'[b]
    <3>1. d \in wrong[b] => Waiting(b, d, Len(log)) \/ d \in lapsed[b]
      BY <2>1 DEF IInv, WrongInv
    <3> QED
      BY <1>4, <2>1, <3>1
  <2> QED
    BY <1>2, <1>5, <2>1 DEF WrongInv
<1> QED
  BY <1>6, <1>7, <1>8, <1>9 DEF IInv

LEMMA QuietKeepsInv == IInv /\ (NewDay \/ UNCHANGED markVars) => IInv'
<1> SUFFICES ASSUME IInv, NewDay \/ UNCHANGED markVars PROVE IInv'
  OBVIOUS
<1>1. /\ UNCHANGED <<log, pruned, tx, txWrong, skipped, lastApplied, series, wrong, lapsed, reading>>
      /\ today \in 1 .. LastDay + 1 /\ LastDay \in Nat
      /\ \/ today' = today
         \/ today' = today + 1 /\ today <= LastDay
  BY MarkInputsAssumption DEF IInv, TypeOK, NewDay, markVars, rowVars, storeVars
<1>2. today' \in 1 .. LastDay + 1 /\ today <= today'
  BY <1>1
<1>3. {d \in Day : d < today} \subseteq {d \in Day : d < today'}
  BY <1>1, <1>2 DEF Day
<1>4. ASSUME NEW b \in Account, NEW d, NEW n, Waiting(b, d, n)
      PROVE  Waiting(b, d, n)'
  BY <1>1, <1>4 DEF Waiting, WaitsIn
<1>5. TypeOK'
  <2>1. series' \in [Account -> SUBSET {d \in Day : d < today'}]
    BY <1>1, <1>3 DEF IInv, TypeOK
  <2> QED
    BY <1>1, <1>2, <2>1 DEF IInv, TypeOK
<1>6. LogInv' /\ StoreInv'
  <2>1. ASSUME NEW i \in 1 .. Len(log), IsBasket(log[i])
        PROVE  log[i].day <= today'
    <3>1. log[i].day <= today /\ log[i].day \in Int
      <4>1. log[i] \in Row
        BY MarkInputsAssumption DEF IInv, TypeOK
      <4> QED
        BY <2>1, <4>1, MarkInputsAssumption DEF IInv, LogInv, Row
    <3> QED
      BY <1>1, <1>2, <3>1
  <2> QED
    BY <1>1, <2>1 DEF IInv, LogInv, StoreInv
<1>7. WrongInv'
  BY <1>1, <1>4 DEF IInv, WrongInv
<1>8. ReadInv'
  BY <1>1, <1>3, <1>4 DEF IInv, ReadInv
<1> QED
  BY <1>5, <1>6, <1>7, <1>8 DEF IInv

LEMMA NextKeepsInv == IInv /\ [Next]_markVars => IInv'
BY RowKeepsInv, PruneKeepsInv, BeginKeepsInv, CommitKeepsInv, RollbackKeepsInv,
   ApplyLogKeepsInv, BeginReadKeepsInv, FinishReadKeepsInv, QuietKeepsInv DEF Next

\* The inductive invariant: the types, the rows of an open transaction, what
\* the store holds and what the wrong days of store, transaction and read
\* wait for.
THEOREM MarkInvariant == MarkSpec => []IInv
BY InitInv, NextKeepsInv, PTL DEF MarkSpec

-----------------------------------------------------------------------------
(* The properties of the runs. *)

\* TypeOK: every reachable state of log, store and consumer is typed.
THEOREM TypeCorrect == MarkSpec => []TypeOK
<1>1. IInv => TypeOK
  BY DEF IInv
<1> QED
  BY <1>1, MarkInvariant, PTL

\* WrongIsPending: a stored day that a write moved has a row to trim it, after
\* any rollbacks, prunes and reads, or is one of those set aside.
THEOREM WrongAlwaysPending == MarkSpec => []WrongIsPending
<1>1. IInv => WrongIsPending
  <2> SUFFICES ASSUME IInv, ~skipped, NEW a \in Account, NEW d \in wrong[a], d \notin lapsed[a],
                      ~(pruned > lastApplied)
               PROVE  Covered(a, d) \/ d \in OutOfReach(a)
    BY DEF WrongIsPending
  <2>1. PICK i \in 1 .. Len(log) : i > lastApplied /\ i > pruned /\ d \in Moves(log[i], a)
    BY DEF IInv, WrongInv, Waiting, WaitsIn
  <2>2. DOMAIN log = 1 .. Len(log) /\ log[i] \in Row /\ d \in Day /\ today \in Int
    BY MarkInputsAssumption DEF IInv, TypeOK
  <2>3. /\ Trims(log[i], a)
        /\ d >= From(log[i]) \/ (IsBasket(log[i]) /\ d < today - Recent)
    BY <2>1, <2>2, TrimsWhatMoves
  <2>4. log[i] \in Pending
    BY <2>1, <2>2 DEF Pending
  <2> QED
    BY <2>1, <2>2, <2>3, <2>4 DEF Covered, OutOfReach
<1> QED
  BY <1>1, MarkInvariant, PTL

\* ServedIsRight: what a read takes from the store was right when the read
\* applied the log, but for the days set aside.
THEOREM ServedIsAlwaysRight == MarkSpec => []ServedIsRight
<1>1. IInv => ServedIsRight
  BY DEF IInv, ReadInv, ServedIsRight
<1> QED
  BY <1>1, MarkInvariant, PTL

\* SeriesIsARun: no alternation of windows and trims leaves a hole.
THEOREM SeriesStaysARun == MarkSpec => []SeriesIsARun
<1>1. IInv => SeriesIsARun
  BY DEF IInv, StoreInv, SeriesIsARun, IsRun
<1> QED
  BY <1>1, MarkInvariant, PTL

\* RightIsKept: a step takes away only days that an unapplied row moved, or
\* that rows pruned unread may have moved.
THEOREM RightIsAlwaysKept == MarkSpec => RightIsKept
<1> DEFINE Kind(a, d) == pruned > lastApplied \/ \E r \in Pending : d \in Moves(r, a)
<1>1. ASSUME IInv, Apply, NEW a \in Account, NEW d \in series[a] \ series'[a]
      PROVE  Kind(a, d)
  <2>1. /\ log \in Seq(Change) /\ Change \subseteq Row /\ Len(log) \in Nat
        /\ series \in [Account -> SUBSET Day] /\ Day \subseteq Int /\ Back \in Nat
    BY <1>1, MarkInputsAssumption DEF IInv, TypeOK, Day
  <2>2. d \notin Kept(a)
    BY <1>1, <2>1 DEF Apply, storeVars
  <2>3. CASE MissedRows
    BY <2>3 DEF MissedRows
  <2>4. CASE ~MissedRows
    <3>1. PICK r \in Pending : Trims(r, a) /\ ~(d < From(r))
      BY <2>2, <2>4 DEF Kept
    <3>2. r \in Row /\ d \in Day /\ (IsBasket(r) => r.day <= today) /\ today \in Int
      BY <1>1, <2>1 DEF Pending, IInv, TypeOK, LogInv
    <3>3. d \in Int /\ From(r) \in Int
      BY <2>1, <3>2, TrimsWhatMoves
    <3>4. d >= From(r)
      BY <3>1, <3>3
    <3> QED
      BY <3>1, <3>2, <3>4, TrimsWhatMoves
  <2> QED
    BY <2>3, <2>4
<1>2. ASSUME IInv, [Next]_markVars, NEW a \in Account, NEW d \in series[a] \ series'[a]
      PROVE  Kind(a, d)
  <2>1. CASE Apply
    BY <1>1, <1>2, <2>1
  <2>2. CASE series' = series
    BY <1>2, <2>2
  <2>3. CASE FinishRead
    <3>1. series[a] \subseteq series'[a]
      <4>1. series[reading.account] \subseteq reading.held
        BY <1>2, <2>3 DEF FinishRead, IInv, ReadInv
      <4> QED
        BY <1>2, <2>3, <4>1 DEF FinishRead, IInv, TypeOK, storeVars
    <3> QED
      BY <1>2, <3>1
  <2> QED
    BY <1>2, <2>1, <2>2, <2>3
       DEF Next, markVars, storeVars, Write, OtherCommit, Prune, Begin, Commit, Rollback, ApplyLog,
           BeginRead, NewDay
<1>3. IInv /\ [Next]_markVars
        => [\A a \in Account : \A d \in series[a] \ series'[a] :
              \/ pruned > lastApplied
              \/ \E r \in Pending : d \in Moves(r, a)]_markVars
  BY <1>2
<1> QED
  BY <1>3, MarkInvariant, PTL DEF MarkSpec, RightIsKept
=============================================================================
