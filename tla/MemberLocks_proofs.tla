--------------------------- MODULE MemberLocks_proofs ---------------------------
(***************************************************************************)
(* Proofs about MemberLocks, for any number of payouts, accounts, sessions *)
(* and amounts: IndInv is inductive, what was taken is only ever returned, *)
(* no wait cycle is without a startPayout, and the day's limit holds over  *)
(* all the member's accounts.                                              *)
(*                                                                         *)
(* A statement changes one session and rows only that session may change:  *)
(* Frame says so, Own is what must be shown of that session, and OneMoves  *)
(* concludes for all of them.                                              *)
(***************************************************************************)
EXTENDS MemberLocks, Sums

LEMMA IdleFacts == Idle \in Work /\ Shaped(Idle) /\ Idle.at = "idle" /\ Idle.kind = "none"
                   /\ Idle.payout = None /\ Idle.cancelled = {}
  BY DEF Idle, Fresh, Work, Kind, Stage, Shaped

LEMMA RowFacts ==
    /\ Member \in Row /\ Member \notin Account /\ Member \notin Payout
    /\ Payout \subseteq Row /\ Account \subseteq Row
    /\ \A r \in Account : r \notin Payout
    /\ None \notin Session /\ None \notin Payout /\ None \notin Account /\ None # Member
  BY LockAssumption DEF Row

LEMMA SignedType ==
    ASSUME NEW t \in Work, Shaped(t), t.kind # "none"
    PROVE  Signed(t) \in Int
  BY LockAssumption DEF Signed, Shaped, Work, Kind

LEMMA InitInv == Init => IndInv
<1> SUFFICES ASSUME Init PROVE IndInv
  OBVIOUS
<1>1. \A s \in Session : session[s] = Idle
  BY DEF Init
<1>2. /\ status \in [Payout -> Status]
      /\ balance \in [Account -> Nat]
      /\ owner \in [Row -> Session \cup {None}]
      /\ session \in [Session -> Work]
  BY IdleFacts, LockAssumption DEF Init, Status
<1>3. \A s \in Session : Shaped(session[s])
  BY <1>1, IdleFacts
<1>4. AccountHeld /\ RowHeld /\ StartsFresh /\ Affordable
  BY <1>1, IdleFacts DEF AccountHeld, RowHeld, StartsFresh, Affordable
<1>5. OwnersKnown /\ BalanceIsLedger
  BY DEF Init, OwnersKnown, BalanceIsLedger
<1> QED
  BY <1>2, <1>3, <1>4, <1>5 DEF IndInv

-------------------------------------------------------------------------------
\* What must hold of one session.
Own(s) ==
    LET t == session[s] IN
    /\ Shaped(t)
    /\ t.at \notin {"idle", "row", "account"} =>
           owner[t.account] = s /\ t.read = balance[t.account]
    /\ t.kind \in {"confirm", "refund"} /\ t.at # "row" =>
           owner[t.payout] = s /\ RowAllows(t.kind, status[t.payout])
    /\ \A p \in t.cancelled : owner[p] = s /\ status[p] = "AWAITING_OTP"
    /\ t.kind = "start" =>
           /\ status[t.payout] = "NONE"
           /\ \A u \in Session : session[u].payout = t.payout => u = s
    /\ t.at \in {"sync", "total"} => t.read + Signed(t) >= 0
    /\ \A r \in Row : owner[r] = s =>
           /\ t.at \notin {"idle", "row"}
           /\ r \in Account => t.at # "account"
           /\ r = Member => t.kind = "confirm" /\ t.at \in {"check", "sync", "total"}

\* What a step of session s may do to the others, and to their rows.
Frame(s) ==
    /\ status' \in [Payout -> Status]
    /\ balance' \in [Account -> Nat]
    /\ owner' \in [Row -> Session \cup {None}]
    /\ session' \in [Session -> Work]
    /\ \A u \in Session : u # s => session'[u] = session[u]
    /\ \A r \in Row, u \in Session : u # s => (owner'[r] = u <=> owner[r] = u)
    /\ \A a \in Account : balance'[a] = balance[a] \/ owner[a] = s
    /\ \A p \in Payout : \/ status'[p] = status[p]
                         \/ status[p] # "NONE" /\ owner[p] \in {s, None}
                         \/ session[s].kind = "start" /\ session[s].payout = p
    /\ \A u \in Session : u # s /\ session[u].kind = "start" =>
           session'[s].payout # session[u].payout

LEMMA OwnFromInv == ASSUME IndInv, NEW s \in Session PROVE Own(s)
  BY RowFacts DEF IndInv, Own, AccountHeld, RowHeld, StartsFresh, Affordable, OwnersKnown

LEMMA OneMoves ==
    ASSUME IndInv, NEW s \in Session, Frame(s), Own(s)', BalanceIsLedger'
    PROVE  IndInv'
<1>1. ASSUME NEW u \in Session, u # s PROVE Own(u)'
  <2> DEFINE t == session[u]
  <2>1. t \in Work /\ Shaped(t) /\ session'[u] = t
    BY <1>1 DEF IndInv, Frame
  <2>2. Own(u)
    BY OwnFromInv
  <2>3. t.at \notin {"idle", "row", "account"} =>
           owner'[t.account] = u /\ t.read = balance'[t.account]
    BY <2>1, <2>2, <1>1, RowFacts DEF Own, Frame, Shaped
  <2>4. t.kind \in {"confirm", "refund"} /\ t.at # "row" =>
           owner'[t.payout] = u /\ RowAllows(t.kind, status'[t.payout])
    <3> SUFFICES ASSUME t.kind \in {"confirm", "refund"}, t.at # "row"
                 PROVE  owner'[t.payout] = u /\ status'[t.payout] = status[t.payout]
      BY <2>2 DEF Own
    <3>1. t.payout \in Payout /\ owner[t.payout] = u /\ status[t.payout] # "NONE"
      BY <2>1, <2>2 DEF Own, Shaped, RowAllows
    <3>2. session[s].kind = "start" => session[s].payout # t.payout
      BY <3>1, OwnFromInv DEF Own
    <3> QED
      BY <1>1, <3>1, <3>2, RowFacts DEF Frame
  <2>5. \A p \in t.cancelled : owner'[p] = u /\ status'[p] = "AWAITING_OTP"
    <3> SUFFICES ASSUME NEW p \in t.cancelled
                 PROVE  owner'[p] = u /\ status'[p] = status[p] /\ status[p] = "AWAITING_OTP"
      OBVIOUS
    <3>1. p \in Payout /\ owner[p] = u /\ status[p] = "AWAITING_OTP"
      BY <2>1, <2>2 DEF Own, Work
    <3>2. session[s].kind = "start" => session[s].payout # p
      BY <3>1, OwnFromInv DEF Own
    <3> QED
      BY <1>1, <3>1, <3>2, RowFacts DEF Frame
  <2>6. t.kind = "start" =>
           /\ status'[t.payout] = "NONE"
           /\ \A v \in Session : session'[v].payout = t.payout => v = u
    <3> SUFFICES ASSUME t.kind = "start"
                 PROVE  /\ status'[t.payout] = "NONE"
                        /\ \A v \in Session : session'[v].payout = t.payout => v = u
      OBVIOUS
    <3>1. t.payout \in Payout /\ status[t.payout] = "NONE" /\ session[s].payout # t.payout
      BY <1>1, <2>1, <2>2 DEF Own, Shaped
    <3> QED
      BY <1>1, <2>2, <3>1 DEF Frame, Own
  <2>7. t.at \in {"sync", "total"} => t.read + Signed(t) >= 0
    BY <2>2 DEF Own
  <2>8. \A r \in Row : owner'[r] = u =>
           /\ t.at \notin {"idle", "row"}
           /\ r \in Account => t.at # "account"
           /\ r = Member => t.kind = "confirm" /\ t.at \in {"check", "sync", "total"}
    BY <1>1, <2>2 DEF Own, Frame
  <2> QED
    BY <2>1, <2>3, <2>4, <2>5, <2>6, <2>7, <2>8 DEF Own
<1>2. \A u \in Session : Own(u)'
  BY <1>1
<1>3. /\ status' \in [Payout -> Status] /\ balance' \in [Account -> Nat]
      /\ owner' \in [Row -> Session \cup {None}] /\ session' \in [Session -> Work]
  BY DEF Frame
<1>4. \A u \in Session : Shaped(session'[u])
  BY <1>2 DEF Own
<1>5. AccountHeld' /\ RowHeld' /\ StartsFresh' /\ Affordable'
  BY <1>2 DEF Own, AccountHeld, RowHeld, StartsFresh, Affordable
<1>6. OwnersKnown'
  BY <1>2, <1>3 DEF Own, OwnersKnown
<1> QED
  BY <1>3, <1>4, <1>5, <1>6 DEF IndInv

-------------------------------------------------------------------------------
(***************************************************************************)
(* Steps by how they treat locks: End, a step that keeps or takes one.     *)
(***************************************************************************)

\* A session that ends leaves nothing to be shown of it.
LEMMA EndStep ==
    ASSUME IndInv, NEW s \in Session, End(s),
           status' \in [Payout -> Status], balance' \in [Account -> Nat],
           \A a \in Account : balance'[a] = balance[a] \/ owner[a] = s,
           \A p \in Payout : \/ status'[p] = status[p]
                             \/ status[p] # "NONE" /\ owner[p] \in {s, None}
                             \/ session[s].kind = "start" /\ session[s].payout = p,
           BalanceIsLedger'
    PROVE  IndInv'
<1>1. /\ owner' \in [Row -> Session \cup {None}] /\ session' \in [Session -> Work]
      /\ session'[s] = Idle /\ \A u \in Session : u # s => session'[u] = session[u]
      /\ \A r \in Row : owner'[r] # s
      /\ \A r \in Row, u \in Session : u # s => (owner'[r] = u <=> owner[r] = u)
  BY IdleFacts, RowFacts DEF End, IndInv
<1>2. \A u \in Session : session[u].kind = "start" => session'[s].payout # session[u].payout
  BY <1>1, IdleFacts, RowFacts DEF IndInv, Shaped
<1>3. Frame(s)
  BY <1>1, <1>2 DEF Frame
<1>4. Own(s)'
  BY <1>1, IdleFacts DEF Own
<1> QED
  BY <1>3, <1>4, OneMoves

\* A session that goes on, with one more lock or none.
LEMMA GoOn ==
    ASSUME IndInv, NEW s \in Session, NEW t \in Work,
           session' = [session EXCEPT ![s] = t],
           UNCHANGED <<status, balance, posted>>,
           UNCHANGED owner \/ \E r \in Row : Lock(s, r),
           \A u \in Session : u # s /\ session[u].kind = "start" => t.payout # session[u].payout,
           Own(s)'
    PROVE  IndInv'
<1>1. session' \in [Session -> Work] /\ session'[s] = t
      /\ \A u \in Session : u # s => session'[u] = session[u]
  BY DEF IndInv
<1>2. /\ owner' \in [Row -> Session \cup {None}]
      /\ \A r \in Row, u \in Session : u # s => (owner'[r] = u <=> owner[r] = u)
  <2>1. CASE UNCHANGED owner
    BY <2>1 DEF IndInv
  <2>2. CASE \E r \in Row : Lock(s, r)
    BY <2>2, RowFacts DEF IndInv, Lock, Available
  <2> QED
    BY <2>1, <2>2
<1>3. Frame(s)
  BY <1>1, <1>2 DEF Frame, IndInv
<1>4. BalanceIsLedger'
  BY DEF IndInv, BalanceIsLedger
<1> QED
  BY <1>3, <1>4, OneMoves

LEMMA BeginInv ==
    ASSUME IndInv, NEW s \in Session, BeginStep(s)
    PROVE  IndInv'
<1>1. Own(s) /\ session[s] \in Work
  BY OwnFromInv DEF IndInv
<1>2. ASSUME NEW t \in Work, Begin(s, t), Shaped(t), t.at \in {"row", "account"},
             t.at = "row" \/ t.kind \notin {"confirm", "refund"},
             t.cancelled = {}, t.kind # "start" => t.payout = None \/ status[t.payout] # "NONE",
             t.kind = "start" => status[t.payout] = "NONE" /\ \A u \in Session : session[u].payout # t.payout
      PROVE  IndInv'
  <2>1. session[s] = Idle /\ session' = [session EXCEPT ![s] = t] /\ session'[s] = t
        /\ UNCHANGED <<status, balance, posted, owner>>
        /\ \A u \in Session : u # s => session'[u] = session[u]
    BY <1>2 DEF Begin, committed, IndInv
  <2>2. \A r \in Row : owner[r] # s
    BY <1>1, <2>1, IdleFacts DEF Own
  <2>3. \A u \in Session : u # s /\ session[u].kind = "start" => t.payout # session[u].payout
    <3> SUFFICES ASSUME NEW u \in Session, session[u].kind = "start"
                 PROVE  t.payout # session[u].payout
      OBVIOUS
    <3>1. session[u].payout \in Payout /\ status[session[u].payout] = "NONE"
      BY OwnFromInv DEF Own, Shaped
    <3> QED
      BY <1>2, <3>1, RowFacts
  <2>4. Own(s)'
    BY <1>2, <2>1, <2>2 DEF Own, Shaped
  <2> QED
    BY <2>1, <2>3, <2>4, GoOn
<1>3. CASE \E p \in Payout : StartPayout(s, p)
  <2> PICK p \in Payout : StartPayout(s, p)
    BY <1>3
  <2> DEFINE t == Fresh("start", p, From[p], "account")
  <2>1. t \in Work /\ Shaped(t) /\ t.at = "account" /\ t.cancelled = {} /\ t.kind = "start" /\ t.payout = p
    BY LockAssumption DEF Fresh, Work, Shaped, Kind, Stage
  <2> QED
    BY <1>2, <2>1 DEF StartPayout
<1>4. CASE \E p \in Payout : ConfirmPayout(s, p) \/ CancelPayout(s, p) \/ RefundPayout(s, p)
  <2> PICK p \in Payout : ConfirmPayout(s, p) \/ CancelPayout(s, p) \/ RefundPayout(s, p)
    BY <1>4
  <2>1. PICK kind \in {"confirm", "cancel", "refund"} :
          status[p] # "NONE" /\ Begin(s, Fresh(kind, p, From[p], "row"))
    BY DEF ConfirmPayout, CancelPayout, RefundPayout
  <2> DEFINE t == Fresh(kind, p, From[p], "row")
  <2>2. t \in Work /\ Shaped(t) /\ t.at = "row" /\ t.cancelled = {} /\ t.kind # "start" /\ t.payout = p
    BY LockAssumption DEF Fresh, Work, Shaped, Kind, Stage
  <2> QED
    BY <1>2, <2>1, <2>2
<1>5. CASE \E a \in Account : Deposit(s, a) \/ Withdraw(s, a)
  <2> PICK a \in Account : Deposit(s, a) \/ Withdraw(s, a)
    BY <1>5
  <2>1. PICK kind \in {"deposit", "withdraw"} : Begin(s, Fresh(kind, None, a, "account"))
    BY DEF Deposit, Withdraw
  <2> DEFINE t == Fresh(kind, None, a, "account")
  <2>2. t \in Work /\ Shaped(t) /\ t.at = "account" /\ t.cancelled = {} /\ t.payout = None
        /\ t.kind \notin {"start", "confirm", "refund"}
    BY LockAssumption DEF Fresh, Work, Shaped, Kind, Stage
  <2> QED
    BY <1>2, <2>1, <2>2
<1> QED
  BY <1>3, <1>4, <1>5 DEF BeginStep

-------------------------------------------------------------------------------
(***************************************************************************)
(* The statements.                                                         *)
(***************************************************************************)

LEMMA LockRowInv ==
    ASSUME IndInv, NEW s \in Session, LockRow(s)
    PROVE  IndInv'
<1> DEFINE t == session[s]
<1>1. /\ Own(s) /\ t \in Work /\ Shaped(t) /\ t.at = "row" /\ t.payout \in Payout
      /\ t.kind \in {"confirm", "cancel", "refund"} /\ Available(s, t.payout)
      /\ UNCHANGED <<balance, posted>> /\ BalanceIsLedger'
  BY OwnFromInv DEF IndInv, LockRow, Shaped, BalanceIsLedger
<1>2. CASE /\ RowAllows(t.kind, status[t.payout]) /\ t.kind # "cancel"
           /\ Lock(s, t.payout) /\ GoesTo(s, After(t.kind, "row")) /\ UNCHANGED status
  <2> DEFINE n == [t EXCEPT !.at = "account"]
  <2>1. session' = [session EXCEPT ![s] = n] /\ n \in Work /\ session'[s] = n
    BY <1>1, <1>2 DEF GoesTo, After, Work, Stage, IndInv
  <2>2. /\ n.at = "account" /\ n.kind = t.kind /\ n.payout = t.payout /\ n.account = t.account
        /\ n.cancelled = t.cancelled /\ n.read = t.read /\ n.other = t.other
    BY <1>1 DEF Work
  <2>3. owner'[t.payout] = s /\ \A r \in Row : owner'[r] = s => r = t.payout \/ owner[r] = s
    BY <1>1, <1>2, RowFacts DEF Lock, IndInv
  <2>4. Own(s)'
    <3>1. Shaped(n)
      BY <1>1, <1>2, <2>2 DEF Shaped
    <3>2. \A r \in Row : owner'[r] = s => r \in Payout
      BY <1>1, <2>3 DEF Own
    <3> QED
      BY <1>1, <1>2, <2>1, <2>2, <2>3, <3>1, <3>2, RowFacts DEF Own, Shaped
  <2>5. \A u \in Session : u # s /\ session[u].kind = "start" => n.payout # session[u].payout
    BY <1>1, <2>2, OwnFromInv DEF Own
  <2> QED
    BY <1>1, <1>2, <2>1, <2>4, <2>5, RowFacts, GoOn
<1>3. CASE /\ RowAllows(t.kind, status[t.payout]) /\ t.kind # "refund"
           /\ status' = [status EXCEPT ![t.payout] = "CANCELLED"] /\ End(s)
  <2>1. status[t.payout] # "NONE" /\ owner[t.payout] \in {s, None}
    BY <1>1, <1>3 DEF RowAllows, Available
  <2>2. status' \in [Payout -> Status] /\ \A p \in Payout : p # t.payout => status'[p] = status[p]
    BY <1>1, <1>3 DEF IndInv, Status
  <2>3. balance' \in [Account -> Nat]
    BY <1>1 DEF IndInv
  <2> QED
    BY <1>1, <1>3, <2>1, <2>2, <2>3, EndStep
<1>4. CASE End(s) /\ UNCHANGED status
  BY <1>1, <1>4, EndStep DEF IndInv
<1> QED
  BY <1>2, <1>3, <1>4 DEF LockRow

LEMMA LockAccountInv ==
    ASSUME IndInv, NEW s \in Session, LockAccount(s)
    PROVE  IndInv'
<1> DEFINE t == session[s]
           n == [t EXCEPT !.read = balance[t.account], !.at = After(t.kind, "account")]
<1>1. /\ Own(s) /\ t \in Work /\ Shaped(t) /\ t.at = "account" /\ t.account \in Account
      /\ Lock(s, t.account) /\ UNCHANGED <<status, balance, posted>>
  BY OwnFromInv DEF IndInv, LockAccount, Shaped, committed
<1>2. /\ n \in Work /\ session' = [session EXCEPT ![s] = n] /\ session'[s] = n
      /\ n.at \in {"check", "member", "sync"} /\ n.kind = t.kind /\ n.payout = t.payout
      /\ n.account = t.account /\ n.cancelled = t.cancelled /\ n.read = balance[t.account]
      /\ n.at = After(t.kind, "account")
  BY <1>1 DEF IndInv, LockAccount, After, Work, Stage
<1>3. owner'[t.account] = s /\ \A r \in Row : owner'[r] = s => r = t.account \/ owner[r] = s
  BY <1>1, RowFacts DEF Lock, IndInv
<1>4. Own(s)'
  <2>1. Shaped(n)
    BY <1>1, <1>2 DEF Shaped, After
  <2>2. n.at \in {"sync", "total"} => n.read + Signed(n) >= 0
    <3>1. n.at = "sync" => n.kind \in {"deposit", "refund"}
      BY <1>1, <1>2 DEF After, Work, Kind
    <3>2. n.kind \in {"deposit", "refund"} => Signed(n) \in Nat
      BY <1>2, <2>1, LockAssumption DEF Signed, Shaped
    <3>3. n.read \in Nat
      BY <1>1, <1>2 DEF IndInv
    <3> QED
      BY <1>2, <3>1, <3>2, <3>3
  <2>3. owner'[n.account] = s /\ n.read = balance'[n.account]
    BY <1>1, <1>2, <1>3
  <2>4. n.kind \in {"confirm", "refund"} => owner'[n.payout] = s /\ RowAllows(n.kind, status'[n.payout])
    BY <1>1, <1>2, <1>3, RowFacts DEF Own, Lock, IndInv
  <2>5. \A p \in n.cancelled : owner'[p] = s /\ status'[p] = "AWAITING_OTP"
    BY <1>1, <1>2, RowFacts DEF Own, Lock, IndInv, Work
  <2>6. n.kind = "start" => /\ status'[n.payout] = "NONE"
                            /\ \A u \in Session : session'[u].payout = n.payout => u = s
    BY <1>1, <1>2 DEF Own, IndInv
  <2>7. Member \in Row => owner'[Member] # s
    BY <1>1, <1>3, RowFacts DEF Own
  <2> QED
    BY <1>2, <2>1, <2>2, <2>3, <2>4, <2>5, <2>6, <2>7 DEF Own
<1>5. \A u \in Session : u # s /\ session[u].kind = "start" => n.payout # session[u].payout
  BY <1>2, OwnFromInv DEF Own
<1> QED
  BY <1>1, <1>2, <1>4, <1>5, RowFacts, GoOn

LEMMA LockMemberInv ==
    ASSUME IndInv, NEW s \in Session, LockMember(s)
    PROVE  IndInv'
<1> DEFINE t == session[s]
           n == [t EXCEPT !.at = "check"]
<1>1. /\ Own(s) /\ t \in Work /\ Shaped(t) /\ t.at = "member" /\ t.kind = "confirm"
      /\ Lock(s, Member) /\ UNCHANGED <<status, balance, posted>>
  BY OwnFromInv DEF IndInv, LockMember, Shaped, committed
<1>2. /\ n \in Work /\ session' = [session EXCEPT ![s] = n] /\ session'[s] = n
      /\ n.at = "check" /\ n.kind = t.kind /\ n.payout = t.payout
      /\ n.account = t.account /\ n.cancelled = t.cancelled /\ n.read = t.read
  BY <1>1 DEF IndInv, LockMember, GoesTo, After, Work, Stage
<1>3. \A r \in Row : owner[r] = s => owner'[r] = s
  BY <1>1, RowFacts DEF Lock, IndInv
<1>4. Own(s)'
  <2>1. Shaped(n)
    BY <1>1, <1>2 DEF Shaped
  <2>2. owner'[n.account] = s /\ n.read = balance'[n.account]
    BY <1>1, <1>2, <1>3, RowFacts DEF Own, Shaped
  <2>3. owner'[n.payout] = s /\ RowAllows(n.kind, status'[n.payout])
    BY <1>1, <1>2, <1>3, RowFacts DEF Own, Shaped
  <2>4. n.cancelled = {}
    BY <1>1, <1>2 DEF Shaped
  <2> QED
    BY <1>1, <1>2, <2>1, <2>2, <2>3, <2>4 DEF Own
<1>5. \A u \in Session : u # s /\ session[u].kind = "start" => n.payout # session[u].payout
  BY <1>2, OwnFromInv DEF Own
<1> QED
  BY <1>1, <1>2, <1>4, <1>5, RowFacts, GoOn

\* A session whose locks, reads and payout stay as they are.
LEMMA StageInv ==
    ASSUME IndInv, NEW s \in Session, NEW stage \in {"earlier", "sync", "total"},
           GoesTo(s, stage), UNCHANGED <<status, balance, posted, owner>>,
           Shaped([session[s] EXCEPT !.at = stage]),
           session[s].at \notin {"idle", "row", "account"},
           stage \in {"sync", "total"} => session[s].read + Signed(session[s]) >= 0,
           owner[Member] = s => stage # "earlier"
    PROVE  IndInv'
<1> DEFINE t == session[s]
           n == [t EXCEPT !.at = stage]
<1>1. Own(s) /\ t \in Work
  BY OwnFromInv DEF IndInv
<1>2. /\ n \in Work /\ session' = [session EXCEPT ![s] = n] /\ session'[s] = n
      /\ n.at = stage /\ n.kind = t.kind /\ n.payout = t.payout
      /\ n.account = t.account /\ n.cancelled = t.cancelled /\ n.read = t.read
  BY <1>1 DEF IndInv, GoesTo, Work, Stage
<1>3. Signed(n) = Signed(t)
  BY <1>2 DEF Signed
<1>4. Own(s)'
  <2>1. n.at \in {"sync", "total"} => n.read + Signed(n) >= 0
    BY <1>2, <1>3
  <2>2. n.kind = "start" => \A u \in Session : session'[u].payout = n.payout => u = s
    BY <1>1, <1>2 DEF Own, IndInv
  <2>3. \A r \in Row : owner[r] = s =>
           /\ n.at \notin {"idle", "row"}
           /\ r \in Account => n.at # "account"
           /\ r = Member => n.kind = "confirm" /\ n.at \in {"check", "sync", "total"}
    BY <1>1, <1>2 DEF Own
  <2> QED
    BY <1>1, <1>2, <2>1, <2>2, <2>3 DEF Own
<1>5. \A u \in Session : u # s /\ session[u].kind = "start" => n.payout # session[u].payout
  BY <1>2, OwnFromInv DEF Own
<1> QED
  BY <1>2, <1>4, <1>5, GoOn

LEMMA CheckInv ==
    ASSUME IndInv, NEW s \in Session, Check(s)
    PROVE  IndInv'
<1> DEFINE t == session[s]
<1>1. /\ Own(s) /\ t \in Work /\ Shaped(t) /\ t.at = "check" /\ t.kind \in {"start", "confirm", "withdraw"}
      /\ UNCHANGED <<balance, posted>> /\ BalanceIsLedger'
  BY OwnFromInv DEF IndInv, Check, Shaped, BalanceIsLedger, Work, Kind
<1>2. CASE Allowed(t) /\ GoesTo(s, IF t.kind = "start" THEN "earlier" ELSE "sync") /\ UNCHANGED <<status, owner>>
  <2> DEFINE stage == IF t.kind = "start" THEN "earlier" ELSE "sync"
  <2>1. Shaped([t EXCEPT !.at = stage])
    BY <1>1 DEF Shaped, Work
  <2>2. stage = "sync" => t.read + Signed(t) >= 0
    <3> SUFFICES ASSUME t.kind \in {"confirm", "withdraw"} PROVE t.read + Signed(t) >= 0
      BY <1>1
    <3>1. t.read \in Nat /\ (t.kind = "confirm" => t.payout \in Payout)
      BY <1>1 DEF Work, Shaped
    <3> QED
      BY <1>2, <3>1, LockAssumption DEF Allowed, Signed
  <2>3. owner[Member] = s => stage # "earlier"
    BY <1>1, RowFacts DEF Own
  <2> QED
    BY <1>1, <1>2, <2>1, <2>2, <2>3, StageInv
<1>3. CASE End(s) /\ UNCHANGED status
  BY <1>1, <1>3, EndStep DEF IndInv
<1>4. CASE t.kind = "confirm" /\ status' = [status EXCEPT ![t.payout] = "CANCELLED"] /\ End(s)
  <2>1. t.payout \in Payout /\ status[t.payout] # "NONE" /\ owner[t.payout] = s
    BY <1>1, <1>4 DEF Own, Shaped, RowAllows
  <2>2. status' \in [Payout -> Status] /\ \A p \in Payout : p # t.payout => status'[p] = status[p]
    BY <1>4, <2>1 DEF IndInv, Status
  <2>3. balance' \in [Account -> Nat]
    BY <1>1 DEF IndInv
  <2> QED
    BY <1>1, <1>4, <2>1, <2>2, <2>3, EndStep
<1> QED
  BY <1>2, <1>3, <1>4 DEF Check

\* A start goes on to the next earlier code, or to its insert.
LEMMA VisitInv ==
    ASSUME IndInv, NEW s \in Session, NEW t \in Work, NEW rest \in SUBSET Payout,
           session[s].kind = "start", session[s].at \in {"earlier", "other"},
           t.kind = "start", t.payout = session[s].payout,
           t.account = session[s].account, t.read = session[s].read,
           \A p \in t.cancelled : owner'[p] = s /\ status[p] = "AWAITING_OTP",
           Visit(s, t, rest), UNCHANGED <<status, balance, posted>>,
           UNCHANGED owner \/ \E p \in Payout : Lock(s, p)
    PROVE  IndInv'
<1>1. Own(s) /\ session[s] \in Work /\ Shaped(session[s])
  BY OwnFromInv DEF IndInv
<1>2. PICK n \in Work :
        /\ session' = [session EXCEPT ![s] = n]
        /\ n.at \in {"other", "insert"} /\ (n.at = "other" => n.other \in Payout)
        /\ n.kind = "start" /\ n.payout = t.payout /\ n.account = t.account
        /\ n.cancelled = t.cancelled /\ n.read = t.read
  <2>1. CASE rest = {}
    <3> DEFINE m == [t EXCEPT !.others = {}, !.other = None, !.at = "insert"]
    <3>1. /\ m \in Work /\ m.at = "insert" /\ m.kind = "start" /\ m.payout = t.payout
          /\ m.account = t.account /\ m.cancelled = t.cancelled /\ m.read = t.read
      BY DEF Work, Stage
    <3>2. session' = [session EXCEPT ![s] = m]
      BY <2>1 DEF Visit
    <3> QED
      BY <3>1, <3>2
  <2>2. CASE rest # {}
    <3> PICK p \in rest :
          session' = [session EXCEPT ![s] = [t EXCEPT !.others = rest, !.other = p, !.at = "other"]]
      BY <2>2 DEF Visit
    <3> DEFINE m == [t EXCEPT !.others = rest, !.other = p, !.at = "other"]
    <3>1. /\ m \in Work /\ m.at = "other" /\ m.other \in Payout /\ m.kind = "start"
          /\ m.payout = t.payout /\ m.account = t.account
          /\ m.cancelled = t.cancelled /\ m.read = t.read
      BY DEF Work, Stage
    <3> QED
      BY <3>1
  <2> QED
    BY <2>1, <2>2
<1>3. session'[s] = n /\ \A u \in Session : u # s => session'[u] = session[u]
  BY <1>2 DEF IndInv
<1>4. \A r \in Row : (owner[r] = s => owner'[r] = s) /\ (owner'[r] = s => r \in Payout \/ owner[r] = s)
  <2>1. CASE UNCHANGED owner
    BY <2>1
  <2>2. CASE \E p \in Payout : Lock(s, p)
    BY <2>2, RowFacts DEF Lock, IndInv
  <2> QED
    BY <2>1, <2>2
<1>5. Own(s)'
  <2>1. Shaped(n)
    BY <1>1, <1>2 DEF Shaped
  <2>2. owner'[n.account] = s /\ n.read = balance'[n.account]
    BY <1>1, <1>2, <1>4, RowFacts DEF Own, Shaped
  <2>3. /\ status'[n.payout] = "NONE"
        /\ \A u \in Session : session'[u].payout = n.payout => u = s
    BY <1>1, <1>2, <1>3 DEF Own
  <2>4. \A r \in Row : owner'[r] = s => r # Member
    BY <1>1, <1>4, RowFacts DEF Own
  <2> QED
    BY <1>2, <1>3, <2>1, <2>2, <2>3, <2>4 DEF Own
<1>6. \A u \in Session : u # s /\ session[u].kind = "start" => n.payout # session[u].payout
  BY <1>2, OwnFromInv DEF Own
<1>7. UNCHANGED owner \/ \E r \in Row : Lock(s, r)
  BY RowFacts
<1> QED
  BY <1>2, <1>5, <1>6, <1>7, GoOn

LEMMA FindEarlierInv ==
    ASSUME IndInv, NEW s \in Session, FindEarlier(s)
    PROVE  IndInv'
<1> DEFINE t == session[s]
           found == {p \in Payout : status[p] = "AWAITING_OTP"}
<1>1. /\ t \in Work /\ t.at = "earlier" /\ t.kind = "start" /\ Visit(s, t, found)
      /\ UNCHANGED <<status, balance, posted, owner>>
  BY DEF FindEarlier, IndInv, Shaped, committed
<1>2. \A p \in t.cancelled : owner'[p] = s /\ status[p] = "AWAITING_OTP"
  BY <1>1, OwnFromInv DEF Own
<1> QED
  BY <1>1, <1>2, VisitInv

LEMMA CancelEarlierInv ==
    ASSUME IndInv, NEW s \in Session, CancelEarlier(s)
    PROVE  IndInv'
<1> DEFINE t == session[s]
           n == [t EXCEPT !.cancelled = t.cancelled \cup {t.other}]
<1>1. /\ Own(s) /\ t \in Work /\ t.at = "other" /\ t.kind = "start" /\ t.other \in Payout
      /\ t.others \ {t.other} \in SUBSET Payout /\ UNCHANGED <<status, balance, posted>>
  BY OwnFromInv DEF CancelEarlier, IndInv, Shaped, committed, Work
<1>2. CASE /\ status[t.other] = "AWAITING_OTP"
           /\ Lock(s, t.other) /\ Visit(s, n, t.others \ {t.other})
  <2>1. /\ n \in Work /\ n.kind = "start" /\ n.payout = t.payout /\ n.account = t.account
        /\ n.read = t.read /\ n.cancelled = t.cancelled \cup {t.other}
    BY <1>1 DEF Work
  <2>2. \A p \in n.cancelled : owner'[p] = s /\ status[p] = "AWAITING_OTP"
    BY <1>1, <1>2, <2>1, RowFacts DEF Own, Lock, IndInv, Work
  <2> QED
    BY <1>1, <1>2, <2>1, <2>2, VisitInv
<1>3. CASE Visit(s, t, t.others \ {t.other}) /\ UNCHANGED owner
  <2>1. \A p \in t.cancelled : owner'[p] = s /\ status[p] = "AWAITING_OTP"
    BY <1>1, <1>3 DEF Own
  <2> QED
    BY <1>1, <1>3, <2>1, VisitInv
<1> QED
  BY <1>2, <1>3 DEF CancelEarlier

LEMMA InsertPayoutInv ==
    ASSUME IndInv, NEW s \in Session, InsertPayout(s)
    PROVE  IndInv'
<1> DEFINE t == session[s]
<1>1. /\ Own(s) /\ t \in Work /\ t.kind = "start" /\ End(s)
      /\ UNCHANGED <<balance, posted>> /\ BalanceIsLedger'
      /\ status' = [p \in Payout |-> IF p = t.payout THEN "AWAITING_OTP"
                                     ELSE IF p \in t.cancelled THEN "CANCELLED" ELSE status[p]]
  BY OwnFromInv DEF InsertPayout, IndInv, Shaped, BalanceIsLedger
<1>2. status' \in [Payout -> Status] /\ balance' \in [Account -> Nat]
  BY <1>1 DEF IndInv, Status
<1>3. \A p \in Payout : \/ status'[p] = status[p]
                        \/ status[p] # "NONE" /\ owner[p] \in {s, None}
                        \/ t.kind = "start" /\ t.payout = p
  BY <1>1 DEF Own
<1> QED
  BY <1>1, <1>2, <1>3, EndStep

LEMMA SumBalancesInv ==
    ASSUME IndInv, NEW s \in Session, SumBalances(s)
    PROVE  IndInv'
<1>1. /\ Shaped(session[s]) /\ session[s] \in Work /\ session[s].at = "sync"
      /\ GoesTo(s, "total") /\ UNCHANGED <<status, balance, posted, owner>>
  BY DEF SumBalances, IndInv, committed
<1>2. Shaped([session[s] EXCEPT !.at = "total"])
  BY <1>1 DEF Shaped, Work
<1>3. session[s].read + Signed(session[s]) >= 0
  BY <1>1 DEF IndInv, Affordable
<1> QED
  BY <1>1, <1>2, <1>3, StageInv

LEMMA CommitInv ==
    ASSUME IndInv, NEW s \in Session, Commit(s)
    PROVE  IndInv'
<1> DEFINE t == session[s]
<1>1. /\ Own(s) /\ t \in Work /\ Shaped(t) /\ t.at = "total" /\ End(s) /\ t.kind # "none"
      /\ t.account \in Account /\ owner[t.account] = s /\ t.read = balance[t.account]
  BY OwnFromInv DEF Commit, IndInv, Shaped, Own
<1>2. t.read + Signed(t) \in Nat
  <2>1. t.read \in Nat
    BY <1>1 DEF Work
  <2> QED
    BY <1>1, <2>1, SignedType DEF Own
<1>3. balance' = [balance EXCEPT ![t.account] = t.read + Signed(t)]
  BY DEF Commit
<1>4. balance' \in [Account -> Nat] /\ \A a \in Account : balance'[a] = balance[a] \/ owner[a] = s
  BY <1>1, <1>2, <1>3 DEF IndInv
<1>5. BalanceIsLedger'
  BY <1>1, <1>3 DEF Commit, IndInv, BalanceIsLedger
<1>6. /\ status' \in [Payout -> Status]
      /\ \A p \in Payout : status'[p] = status[p] \/ (status[p] # "NONE" /\ owner[p] \in {s, None})
  <2>1. CASE t.kind \in {"confirm", "refund"}
    <3>1. t.payout \in Payout /\ owner[t.payout] = s /\ status[t.payout] # "NONE"
      BY <1>1, <2>1 DEF Own, Shaped, RowAllows
    <3>2. PICK st \in {"SUBMITTING", "REFUNDED"} : status' = [status EXCEPT ![t.payout] = st]
      BY <2>1 DEF Commit
    <3> QED
      BY <3>1, <3>2 DEF IndInv, Status
  <2>2. CASE t.kind \notin {"confirm", "refund"}
    BY <2>2 DEF Commit, IndInv
  <2> QED
    BY <2>1, <2>2
<1> QED
  BY <1>1, <1>4, <1>5, <1>6, EndStep

LEMMA RollBackInv ==
    ASSUME IndInv, NEW s \in Session, RollBack(s)
    PROVE  IndInv'
<1>1. End(s) /\ UNCHANGED <<status, balance, posted>>
  BY DEF RollBack, committed
<1> QED
  BY <1>1, EndStep DEF IndInv, BalanceIsLedger

LEMMA StepInv == IndInv /\ [Next]_vars => IndInv'
<1> SUFFICES ASSUME IndInv, [Next]_vars PROVE IndInv'
  OBVIOUS
<1>1. CASE Next
  <2> PICK s \in Session : BeginStep(s) \/ Statement(s) \/ RollBack(s)
    BY <1>1 DEF Next
  <2>1. CASE BeginStep(s)
    BY <2>1, BeginInv
  <2>2. CASE Statement(s)
    BY <2>2, LockRowInv, LockAccountInv, LockMemberInv, CheckInv, FindEarlierInv,
       CancelEarlierInv, InsertPayoutInv, SumBalancesInv, CommitInv DEF Statement
  <2>3. CASE RollBack(s)
    BY <2>3, RollBackInv
  <2> QED
    BY <2>1, <2>2, <2>3
<1>2. CASE UNCHANGED vars
  BY <1>2 DEF vars, committed, IndInv, AccountHeld, RowHeld, StartsFresh, Affordable,
     OwnersKnown, BalanceIsLedger
<1> QED
  BY <1>1, <1>2

-------------------------------------------------------------------------------
(***************************************************************************)
(* The theorems.                                                           *)
(***************************************************************************)

\* Whatever transactions meet, in whatever order their statements run, each
\* still holds what it locked, and what it read under the lock is still so.
THEOREM LockInvariance == Spec => []IndInv
  BY InitInv, StepInv, PTL DEF Spec

\* No deposit, withdrawal, debit or refund of an account is lost to another
\* one: the balance is what was posted.
THEOREM LedgerHolds == Spec => []BalanceIsLedger
<1>1. IndInv => BalanceIsLedger
  BY DEF IndInv
<1> QED
  BY <1>1, LockInvariance, PTL

\* A payout that was taken is not cancelled by a later start of a withdrawal,
\* by a late cancellation or by a second confirmation.
THEOREM TakenIsFinal == Spec => TakenStaysTaken
<1> DEFINE Taken == \A p \in Payout : status[p] = "SUBMITTING" => status'[p] \in {"SUBMITTING", "REFUNDED"}
<1>1. ASSUME IndInv, NEW s \in Session, Statement(s) PROVE Taken
  <2> DEFINE t == session[s]
  <2>1. Own(s) /\ Shaped(t) /\ t \in Work /\ status \in [Payout -> Status]
    BY <1>1, OwnFromInv DEF IndInv
  <2>2. CASE LockRow(s)
    <3>1. UNCHANGED status \/ /\ RowAllows(t.kind, status[t.payout]) /\ t.kind # "refund"
                              /\ status' = [status EXCEPT ![t.payout] = "CANCELLED"]
      BY <2>2 DEF LockRow
    <3> QED
      BY <2>1, <3>1 DEF RowAllows
  <2>3. CASE Check(s)
    <3>1. UNCHANGED status \/ /\ t.kind = "confirm" /\ t.at = "check"
                              /\ status' = [status EXCEPT ![t.payout] = "CANCELLED"]
      BY <2>3 DEF Check
    <3> QED
      BY <2>1, <3>1 DEF Own, RowAllows
  <2>4. CASE InsertPayout(s)
    <3>1. \A p \in Payout : status'[p] = status[p] \/ p = t.payout \/ p \in t.cancelled
      BY <2>4 DEF InsertPayout
    <3>2. t.kind = "start"
      BY <2>1, <2>4 DEF InsertPayout, Shaped
    <3> QED
      BY <2>1, <3>1, <3>2 DEF Own
  <2>5. CASE Commit(s)
    <3>1. \/ UNCHANGED status
          \/ \E st \in {"SUBMITTING", "REFUNDED"} : status' = [status EXCEPT ![t.payout] = st]
      BY <2>5 DEF Commit
    <3> QED
      BY <2>1, <3>1
  <2>6. CASE UNCHANGED status
    BY <2>6
  <2> QED
    BY <1>1, <2>2, <2>3, <2>4, <2>5, <2>6 DEF Statement, LockAccount, LockMember,
       FindEarlier, CancelEarlier, SumBalances, committed
<1>2. ASSUME IndInv, [Next]_vars PROVE Taken
  <2>1. CASE UNCHANGED status
    BY <2>1
  <2>2. CASE \E s \in Session : Statement(s)
    BY <1>1, <1>2, <2>2
  <2> QED
    BY <1>2, <2>1, <2>2 DEF Next, BeginStep, RollBack, Begin, StartPayout, ConfirmPayout,
       CancelPayout, RefundPayout, Deposit, Withdraw, vars, committed
<1>3. IndInv /\ [Next]_vars => [Taken]_vars
  BY <1>2
<1> QED
  BY <1>3, LockInvariance, PTL DEF Spec, TakenStaysTaken

\* Confirmations, cancellations, refunds, deposits and withdrawals never wait
\* for one another in a circle: a deadlock needs a start.
THEOREM NoCycleWithoutStart == Spec => []OnlyStartsDeadlock
<1>1. ASSUME IndInv, NEW S \in SUBSET {s \in Session : session[s].kind # "start"}, WaitCycle(S)
      PROVE  FALSE
  <2>1. ASSUME NEW s \in S
        PROVE  \/ Wanted(s) = None
               \/ session[s].at \in {"member", "total"} /\ Wanted(s) = Member
               \/ session[s].at = "account" /\ Wanted(s) \in Account
               \/ session[s].at = "row" /\ Wanted(s) \in Payout
    BY <1>1 DEF Wanted, IndInv, Shaped
  <2>2. ASSUME NEW s \in S
        PROVE  \E u \in S : /\ u # s /\ Wanted(s) # None /\ Wanted(s) \in Row
                            /\ owner[Wanted(s)] = u /\ u # None
    BY <1>1, <2>1, RowFacts DEF WaitCycle, WaitsFor
  <2>3. ASSUME NEW s \in S PROVE Wanted(s) # Member
    <3> SUFFICES ASSUME Wanted(s) = Member PROVE FALSE
      OBVIOUS
    <3>1. PICK u \in S : owner[Member] = u /\ u # None
      BY <2>2
    <3>2. session[u].at \in {"check", "sync", "total"}
      BY <1>1, <3>1, RowFacts DEF IndInv, OwnersKnown
    <3>3. Wanted(u) = Member
      BY <2>1, <2>2, <3>2
    <3> QED
      BY <2>2, <3>1, <3>3
  <2>4. ASSUME NEW s \in S PROVE Wanted(s) \notin Account
    <3> SUFFICES ASSUME Wanted(s) \in Account PROVE FALSE
      OBVIOUS
    <3>1. PICK u \in S : owner[Wanted(s)] = u /\ u # None
      BY <2>2
    <3>2. session[u].at \notin {"row", "account"}
      BY <1>1, <3>1, RowFacts DEF IndInv, OwnersKnown
    <3> QED
      BY <2>1, <2>2, <2>3, <3>2
  <2>5. PICK s \in S : TRUE
    BY <1>1 DEF WaitCycle
  <2>6. PICK u \in S : owner[Wanted(s)] = u /\ u # None /\ Wanted(s) \in Row
    BY <2>2
  <2>7. session[u].at # "row"
    BY <1>1, <2>6 DEF IndInv, OwnersKnown
  <2> QED
    BY <2>1, <2>2, <2>3, <2>4, <2>7
<1>2. IndInv => OnlyStartsDeadlock
  BY <1>1 DEF OnlyStartsDeadlock
<1> QED
  BY <1>2, LockInvariance, PTL

-------------------------------------------------------------------------------
(***************************************************************************)
(* The sums: the day's limit, and the totals.                              *)
(***************************************************************************)

\* The payouts that count on the day's limit.
Taken == {p \in Payout : status[p] = "SUBMITTING"}

\* A confirmation past the member's row holds it; once it has found room, the
\* room is still there.
MemberHeld == \A s \in Session :
    session[s].kind = "confirm" /\ session[s].at \in {"check", "sync", "total"} => owner[Member] = s

RoomKept == \A s \in Session :
    session[s].kind = "confirm" /\ session[s].at \in {"sync", "total"} =>
        UsedToday + Amount[session[s].payout] <= DailyLimit

LimitInv == MemberHeld /\ RoomKept /\ DailyLimitHeld

\* What taken payouts are for is a natural number, no less than what fewer are
\* for, and one more adds its amount.
LEMMA TakenAddsUp ==
    ASSUME NEW S \in SUBSET Payout
    PROVE  /\ SumFunctionOnSet(Amount, S) \in Nat
           /\ \A T \in SUBSET S : SumFunctionOnSet(Amount, T) <= SumFunctionOnSet(Amount, S)
           /\ \A p \in Payout \ S :
                SumFunctionOnSet(Amount, S \cup {p}) = SumFunctionOnSet(Amount, S) + Amount[p]
<1>1. IsFiniteSet(S) /\ \A x \in S : Amount[x] \in Nat
  BY LockAssumption, FS_Subset
<1>2. SumFunctionOnSet(Amount, S) \in Nat
  BY <1>1, SumNat
<1>3. ASSUME NEW T \in SUBSET S PROVE SumFunctionOnSet(Amount, T) <= SumFunctionOnSet(Amount, S)
  <2>1. IsFiniteSet(T) /\ IsFiniteSet(S \ T)
    BY <1>1, FS_Subset
  <2>2. \A x \in T \cup (S \ T) : Amount[x] \in Int
    BY <1>1
  <2>3. SumFunctionOnSet(Amount, T \cup (S \ T))
          = SumFunctionOnSet(Amount, T) + SumFunctionOnSet(Amount, S \ T)
    BY <2>1, <2>2, SumUnion, T \cap (S \ T) = {}
  <2>4. SumFunctionOnSet(Amount, T) \in Nat /\ SumFunctionOnSet(Amount, S \ T) \in Nat
    BY <1>1, <2>1, SumNat
  <2>5. T \cup (S \ T) = S
    OBVIOUS
  <2>6. SumFunctionOnSet(Amount, S) = SumFunctionOnSet(Amount, T) + SumFunctionOnSet(Amount, S \ T)
    BY <2>3, <2>5
  <2> QED
    BY <2>4, <2>6
<1>4. ASSUME NEW p \in Payout \ S
      PROVE  SumFunctionOnSet(Amount, S \cup {p}) = SumFunctionOnSet(Amount, S) + Amount[p]
  <2>1. Amount[p] \in Int /\ \A x \in S : Amount[x] \in Int
    BY <1>1, LockAssumption
  <2> QED
    BY <1>1, <2>1, SumAdd
<1> QED
  BY <1>2, <1>3, <1>4

\* A step of one session changes no other, and takes no lock another holds.
LEMMA OthersStay ==
    ASSUME IndInv, NEW s \in Session, BeginStep(s) \/ Statement(s) \/ RollBack(s),
           NEW u \in Session, u # s
    PROVE  session'[u] = session[u] /\ (owner[Member] = u => owner'[Member] = u)
<1>0. session \in [Session -> Work] /\ owner \in [Row -> Session \cup {None}]
  BY DEF IndInv
<1>1. \/ End(s)
      \/ \E t : session' = [session EXCEPT ![s] = t]
  BY DEF BeginStep, StartPayout, ConfirmPayout, CancelPayout, RefundPayout, Deposit, Withdraw, Begin,
         Statement, RollBack, LockRow, LockAccount, LockMember, Check, FindEarlier, CancelEarlier,
         InsertPayout, SumBalances, Commit, Visit, GoesTo
<1>2. session'[u] = session[u]
  BY <1>0, <1>1 DEF End
<1>3. End(s) \/ UNCHANGED owner \/ \E r \in Row : Lock(s, r)
  <2>1. CASE LockRow(s)
    BY <2>1, RowFacts DEF LockRow, IndInv, Shaped
  <2>2. CASE LockAccount(s)
    BY <2>2, RowFacts DEF LockAccount, IndInv, Shaped
  <2>3. CASE CancelEarlier(s)
    BY <2>3, RowFacts DEF CancelEarlier, IndInv, Shaped
  <2>4. CASE BeginStep(s)
    BY <2>4 DEF BeginStep, StartPayout, ConfirmPayout, CancelPayout, RefundPayout, Deposit, Withdraw, Begin
  <2> QED
    BY <2>1, <2>2, <2>3, <2>4, RowFacts
    DEF Statement, RollBack, LockMember, Check, FindEarlier, InsertPayout, SumBalances, Commit
<1>4. u # None
  BY RowFacts
<1>5. owner[Member] = u => owner'[Member] = u
  BY <1>0, <1>3, <1>4, RowFacts DEF End, Lock, Available
<1> QED
  BY <1>2, <1>5

\* A step of a session that ends in a confirmation past the member's row.
LEMMA SelfHolds ==
    ASSUME IndInv, MemberHeld, RoomKept, NEW s \in Session, BeginStep(s) \/ Statement(s) \/ RollBack(s),
           session'[s].kind = "confirm", session'[s].at \in {"check", "sync", "total"}
    PROVE  /\ owner'[Member] = s
           /\ session'[s].at \in {"sync", "total"} =>
                 status' = status /\ UsedToday + Amount[session'[s].payout] <= DailyLimit
<1> DEFINE t == session[s]
<1>0. /\ session \in [Session -> Work] /\ owner \in [Row -> Session \cup {None}]
      /\ t \in Work /\ Shaped(t)
  BY DEF IndInv
<1>1. ~ BeginStep(s)
  <2> SUFFICES ASSUME BeginStep(s) PROVE FALSE
    OBVIOUS
  <2>1. \A kind, p, a, stage : Fresh(kind, p, a, stage).at = stage
    BY DEF Fresh
  <2>2. \E work : Begin(s, work) /\ work.at \in {"row", "account"}
    BY <2>1 DEF BeginStep, StartPayout, ConfirmPayout, CancelPayout, RefundPayout, Deposit, Withdraw
  <2> QED
    BY <1>0, <2>2 DEF Begin
<1>2. ~ End(s)
  BY <1>0, IdleFacts DEF End
<1>3. ~ LockRow(s)
  <2> SUFFICES ASSUME LockRow(s) PROVE FALSE
    OBVIOUS
  <2>1. GoesTo(s, "account")
    BY <1>2 DEF LockRow, After
  <2> QED
    BY <1>0, <2>1 DEF GoesTo, Work
<1>4. ~ LockAccount(s)
  <2> SUFFICES ASSUME LockAccount(s) PROVE FALSE
    OBVIOUS
  <2>1. session'[s].kind = t.kind /\ session'[s].at = After(t.kind, "account")
    BY <1>0 DEF LockAccount, Work
  <2> QED
    BY <2>1 DEF After
<1>5. CASE LockMember(s)
  <2>1. owner'[Member] = s /\ session'[s].at = After(t.kind, "member")
    BY <1>0, <1>5, RowFacts DEF LockMember, Lock, GoesTo, Work
  <2> QED
    BY <2>1 DEF After
<1>6. CASE Check(s)
  <2>1. /\ Allowed(t) /\ t.at = "check" /\ UNCHANGED <<status, owner>>
        /\ session'[s].kind = t.kind /\ session'[s].payout = t.payout
    BY <1>0, <1>2, <1>6 DEF Check, GoesTo, Work
  <2> QED
    BY <2>1 DEF Allowed, MemberHeld
<1>7. CASE SumBalances(s)
  <2>1. /\ t.at = "sync" /\ UNCHANGED <<status, owner>>
        /\ session'[s].kind = t.kind /\ session'[s].payout = t.payout
    BY <1>0, <1>7 DEF SumBalances, GoesTo, Work, committed
  <2> QED
    BY <2>1 DEF MemberHeld, RoomKept
<1>8. ~ FindEarlier(s) /\ ~ CancelEarlier(s)
  <2> SUFFICES ASSUME FindEarlier(s) \/ CancelEarlier(s) PROVE FALSE
    OBVIOUS
  <2>1. PICK st \in {"insert", "other"} : session'[s].at = st
    <3>1. PICK v, rest : v \in Work /\ Visit(s, v, rest)
      <4>1. t.at = "other" => [t EXCEPT !.cancelled = @ \cup {t.other}] \in Work
        BY <1>0 DEF Work, Shaped
      <4> QED BY <1>0, <4>1 DEF FindEarlier, CancelEarlier
    <3>2. PICK n : session' = [session EXCEPT ![s] = n] /\ n.at \in {"insert", "other"}
      <4>1. CASE rest = {}
        <5>1. [v EXCEPT !.others = {}, !.other = None, !.at = "insert"].at = "insert"
          BY DEF Work
        <5> QED BY <3>1, <4>1, <5>1 DEF Visit
      <4>2. CASE rest # {}
        <5>1. PICK p \in rest : session' = [session EXCEPT ![s] = [v EXCEPT !.others = rest, !.other = p, !.at = "other"]]
          BY <3>1, <4>2 DEF Visit
        <5>2. [v EXCEPT !.others = rest, !.other = p, !.at = "other"].at = "other"
          BY DEF Work
        <5> QED BY <5>1, <5>2
      <4> QED BY <4>1, <4>2
    <3> QED BY <1>0, <3>2
  <2> QED
    BY <2>1
<1> QED
  BY <1>1, <1>2, <1>3, <1>4, <1>5, <1>6, <1>7, <1>8 DEF Statement, RollBack, InsertPayout, Commit

\* Only a confirmation that commits takes a payout, and it holds the member's row.
LEMMA TakesOne ==
    ASSUME IndInv, MemberHeld, NEW s \in Session, BeginStep(s) \/ Statement(s) \/ RollBack(s)
    PROVE  \/ Taken' \subseteq Taken
           \/ /\ session[s].kind = "confirm" /\ session[s].at = "total" /\ owner[Member] = s
              /\ session[s].payout \in Payout \ Taken /\ Taken' = Taken \cup {session[s].payout}
<1> DEFINE t == session[s]
<1>0. t \in Work /\ Shaped(t) /\ Own(s) /\ status \in [Payout -> Status]
  BY OwnFromInv DEF IndInv
<1>1. CASE UNCHANGED status
  BY <1>1 DEF Taken
<1>2. CASE \E p : status' = [status EXCEPT ![p] = "CANCELLED"]
  BY <1>0, <1>2 DEF Taken
<1>3. CASE InsertPayout(s)
  BY <1>3 DEF InsertPayout, Taken
<1>4. CASE Commit(s) /\ t.kind = "confirm"
  <2>1. /\ t.at = "total" /\ owner[Member] = s /\ t.payout \in Payout
        /\ status[t.payout] = "AWAITING_OTP" /\ status' = [status EXCEPT ![t.payout] = "SUBMITTING"]
    BY <1>0, <1>4 DEF Commit, MemberHeld, Own, RowAllows, Shaped
  <2>2. t.payout \in Payout \ Taken /\ Taken' = Taken \cup {t.payout}
    BY <1>0, <2>1 DEF Taken
  <2> QED
    BY <1>4, <2>1, <2>2
<1>5. CASE Commit(s) /\ t.kind # "confirm"
  <2>1. UNCHANGED status \/ status' = [status EXCEPT ![t.payout] = "REFUNDED"]
    BY <1>5 DEF Commit
  <2> QED
    BY <1>0, <1>1, <2>1 DEF Taken
<1>6. \/ UNCHANGED status \/ InsertPayout(s) \/ Commit(s)
      \/ \E p : status' = [status EXCEPT ![p] = "CANCELLED"]
  BY DEF BeginStep, StartPayout, ConfirmPayout, CancelPayout, RefundPayout, Deposit, Withdraw, Begin,
         Statement, RollBack, LockRow, LockAccount, LockMember, Check, FindEarlier, CancelEarlier,
         SumBalances, committed
<1> QED
  BY <1>1, <1>2, <1>3, <1>4, <1>5, <1>6

\* Every statement keeps the room of those that found it: the one that takes a
\* payout holds the member's row, so no other is past it.
LEMMA LimitStep ==
    ASSUME IndInv, LimitInv, NEW s \in Session, BeginStep(s) \/ Statement(s) \/ RollBack(s)
    PROVE  LimitInv'
<1>0. /\ Taken \in SUBSET Payout /\ Taken' \in SUBSET Payout /\ DailyLimit \in Nat
      /\ UsedToday = SumFunctionOnSet(Amount, Taken) /\ UsedToday' = SumFunctionOnSet(Amount, Taken')
      /\ UsedToday <= DailyLimit /\ MemberHeld /\ RoomKept
  BY LockAssumption DEF Taken, UsedToday, LimitInv, DailyLimitHeld
<1>1. UsedToday \in Nat /\ UsedToday' \in Nat
  BY <1>0, TakenAddsUp
<1>2. MemberHeld'
  <2> SUFFICES ASSUME NEW u \in Session, session'[u].kind = "confirm",
                      session'[u].at \in {"check", "sync", "total"}
               PROVE  owner'[Member] = u
    BY DEF MemberHeld
  <2>1. CASE u = s
    BY <1>0, <2>1, SelfHolds
  <2>2. CASE u # s
    BY <1>0, <2>2, OthersStay DEF MemberHeld
  <2> QED
    BY <2>1, <2>2
<1>3. CASE Taken' \subseteq Taken
  <2>1. UsedToday' <= UsedToday
    BY <1>0, <1>3, TakenAddsUp
  <2>2. RoomKept'
    <3> SUFFICES ASSUME NEW u \in Session, session'[u].kind = "confirm",
                        session'[u].at \in {"sync", "total"}
                 PROVE  UsedToday' + Amount[session'[u].payout] <= DailyLimit
      BY DEF RoomKept
    <3>1. UsedToday + Amount[session'[u].payout] <= DailyLimit
      <4>1. CASE u = s
        BY <1>0, <4>1, SelfHolds
      <4>2. CASE u # s
        BY <1>0, <4>2, OthersStay DEF RoomKept
      <4> QED BY <4>1, <4>2
    <3>2. Amount[session'[u].payout] \in Nat
      <4>1. Shaped(session'[u])
        BY StepInv DEF IndInv, Next
      <4> QED BY <4>1, LockAssumption DEF Shaped
    <3> QED
      BY <1>0, <1>1, <2>1, <3>1, <3>2
  <2>3. DailyLimitHeld'
    BY <1>0, <1>1, <2>1 DEF DailyLimitHeld
  <2> QED
    BY <1>2, <2>2, <2>3 DEF LimitInv
<1>4. CASE ~(Taken' \subseteq Taken)
  <2> DEFINE p == session[s].payout
  <2>1. /\ session[s].kind = "confirm" /\ session[s].at = "total" /\ owner[Member] = s
        /\ p \in Payout \ Taken /\ Taken' = Taken \cup {p}
    BY <1>0, <1>4, TakesOne
  <2>2. UsedToday' = UsedToday + Amount[p] /\ UsedToday + Amount[p] <= DailyLimit
    BY <1>0, <2>1, TakenAddsUp DEF RoomKept
  <2>3. RoomKept'
    <3> SUFFICES ASSUME NEW u \in Session, session'[u].kind = "confirm",
                        session'[u].at \in {"sync", "total"}
                 PROVE  FALSE
      BY DEF RoomKept
    <3>1. u = s
      BY <1>0, <2>1, OthersStay DEF MemberHeld
    <3>2. status' = status
      BY <1>0, <3>1, SelfHolds
    <3> QED
      BY <1>4, <3>2 DEF Taken
  <2>4. DailyLimitHeld'
    BY <2>2 DEF DailyLimitHeld
  <2> QED
    BY <1>2, <2>3, <2>4 DEF LimitInv
<1> QED
  BY <1>3, <1>4

\* DailyLimitHeld: confirmations on different accounts of the member share the
\* day's limit, whatever their statements interleave with.
THEOREM LimitIsShared == Spec => []DailyLimitHeld
<1>1. Init => LimitInv
  <2> SUFFICES ASSUME Init PROVE LimitInv
    OBVIOUS
  <2>1. Taken = {} /\ \A s \in Session : session[s].kind = "none"
    BY IdleFacts DEF Init, Taken
  <2>2. UsedToday = 0 /\ DailyLimit \in Nat
    BY <2>1, SumEmpty, LockAssumption DEF UsedToday, Taken
  <2> QED
    BY <2>1, <2>2 DEF LimitInv, MemberHeld, RoomKept, DailyLimitHeld
<1>2. IndInv /\ LimitInv /\ [Next]_vars => LimitInv'
  <2>1. IndInv /\ LimitInv /\ UNCHANGED vars => LimitInv'
    BY DEF vars, committed, LimitInv, MemberHeld, RoomKept, DailyLimitHeld, UsedToday
  <2> QED
    BY <2>1, LimitStep DEF Next
<1>3. LimitInv => DailyLimitHeld
  BY DEF LimitInv
<1> QED
  BY <1>1, <1>2, <1>3, LockInvariance, PTL DEF Spec

\* The totals are natural numbers: a session sums balances none of which is negative.
Totals == total \in Nat /\ sum \in [Session -> Nat]

\* Every statement keeps them so.
LEMMA TotalsStep == ASSUME IndInv, Totals, [Next]_vars PROVE Totals'
<1>1. ASSUME NEW s \in Session, SumBalances(s) PROVE Totals'
  <2> DEFINE t == session[s]
             rest == SumFunctionOnSet(balance, Account \ {t.account})
  <2>1. /\ t \in Work /\ Shaped(t) /\ t.at = "sync" /\ t.read + Signed(t) >= 0
        /\ balance \in [Account -> Nat]
    BY <1>1 DEF IndInv, Affordable, SumBalances
  <2>2. rest \in Nat
    <3>1. IsFiniteSet(Account \ {t.account}) /\ \A a \in Account \ {t.account} : balance[a] \in Nat
      BY <2>1, LockAssumption, FS_Subset
    <3> QED
      BY <3>1, SumNat
  <2>3. t.read \in Nat /\ Signed(t) \in Int
    BY <2>1, SignedType DEF Work, Shaped
  <2>4. t.read + Signed(t) + rest \in Nat
    <3> HIDE DEF rest
    <3> QED BY <2>1, <2>2, <2>3
  <2>5. sum' = [sum EXCEPT ![s] = t.read + Signed(t) + rest] /\ total' = total
    BY <1>1 DEF SumBalances, committed
  <2> QED
    BY <2>4, <2>5 DEF Totals
<1>2. ASSUME NEW s \in Session, Commit(s) PROVE Totals'
  BY <1>2 DEF Commit, Totals
<1>3. CASE UNCHANGED <<total, sum>>
  BY <1>3 DEF Totals
<1> QED
  BY <1>1, <1>2, <1>3
  DEF Next, BeginStep, StartPayout, ConfirmPayout, CancelPayout, RefundPayout, Deposit, Withdraw, Begin,
      Statement, RollBack, LockRow, LockAccount, LockMember, Check, FindEarlier, CancelEarlier,
      InsertPayout, vars, committed

\* Every variable keeps its type: no account is overdrawn, whatever was read
\* before its lock was free.
THEOREM TypesHold == Spec => []TypeOK
<1>1. Init => Totals
  <2>1. SumFunctionOnSet(Opening, Account) \in Nat
    BY LockAssumption, SumNat
  <2>2. DOMAIN Opening = Account
    BY LockAssumption
  <2>3. SumFunction(Opening) \in Nat
    BY <2>1, <2>2 DEF SumFunction
  <2> QED
    BY <2>3 DEF Init, Totals
<1>2. IndInv /\ Totals /\ [Next]_vars => Totals'
  BY TotalsStep
<1>3. IndInv /\ Totals => TypeOK
  BY DEF IndInv, Totals, TypeOK, BalanceIsLedger
<1> QED
  BY <1>1, <1>2, <1>3, LockInvariance, PTL DEF Spec
===============================================================================
