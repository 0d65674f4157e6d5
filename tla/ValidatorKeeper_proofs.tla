----------------------- MODULE ValidatorKeeper_proofs -----------------------
(***************************************************************************)
(* Proofs about the keeper's histories, for any validators, stakes,        *)
(* rewards, lengths of week and of history, and any number of calls:       *)
(* TypeOK, HistoryOrdered, PastKept and ApyIsGrowth.                       *)
(*                                                                         *)
(* The argument.  Weeks are compared, so what is needed of get_week_index  *)
(* is that it does not fall and that it loses one with a week's epochs.    *)
(* Each of the three ways to change a history then gives one that is       *)
(* Ordered if it was, and a log rewrites the first entry only when that is *)
(* of the current week.  That an entry is not in the future is part of     *)
(* the invariant: without it an entry ahead of time would be overwritten   *)
(* by an earlier one and might meet the next in the same week.             *)
(*                                                                         *)
(* The growth reported needs more: what an entry says is the price of one  *)
(* unit in the epoch of the entry (PricesKept).  A log in the middle of an *)
(* epoch writes down that epoch's number and its stakes at the time, and   *)
(* the delegators' stakes may still change within it; they do so at the    *)
(* price, so the recorded price is that of the epoch up to one rounding.   *)
(* The mean of the growth over the validators then lies between the least  *)
(* and the greatest of them.                                               *)
(***************************************************************************)
EXTENDS ValidatorKeeper, DecimalMath_proofs, SequenceTheorems

-----------------------------------------------------------------------------
(* Weeks *)

\* Divisions by the length of a week.
LEMMA WeekFacts ==
    ASSUME NEW x \in Nat, NEW a \in Nat \ {0}
    PROVE  x \div a \in Nat
    BY SMT

LEMMA ShiftDiv ==
    ASSUME NEW x \in Nat, NEW a \in Nat \ {0}, x >= a
    PROVE  (x - a) \div a = (x \div a) - 1 /\ (x - a) % a = x % a
    BY Z3

\* The week of an epoch that is no earlier than Babylon.
LEMMA WeekIndexInt ==
    ASSUME NEW e \in Nat, e >= BABYLON_START_EPOCH
    PROVE  GetWeekIndex(e) \in Nat
<1>1. A_WEEK_EPOCHS \in Nat \ {0} /\ BABYLON_START_EPOCH \in Nat
    BY ValidatorKeeperAssumption
<1>2. e - BABYLON_START_EPOCH \in Nat
    BY <1>1
<1>3. (e - BABYLON_START_EPOCH) \div A_WEEK_EPOCHS \in Nat
    BY <1>1, <1>2, WeekFacts
<1> QED BY <1>3 DEF GetWeekIndex

LEMMA WeekDivMonotone ==
    ASSUME NEW x \in Nat, NEW y \in Nat, x <= y, NEW a \in Nat \ {0}
    PROVE  /\ x \div a <= y \div a /\ x % a \in Nat /\ y % a \in Nat
           /\ x \div a = y \div a => x % a <= y % a
    BY SMT

\* A later epoch is in no earlier week.
LEMMA WeekMonotone ==
    ASSUME NEW d \in Nat, NEW e \in Nat, BABYLON_START_EPOCH <= d, d <= e
    PROVE  GetWeekIndex(d) <= GetWeekIndex(e)
<1>1. A_WEEK_EPOCHS \in Nat \ {0} /\ BABYLON_START_EPOCH \in Nat
    BY ValidatorKeeperAssumption
<1> DEFINE x == d - BABYLON_START_EPOCH
           y == e - BABYLON_START_EPOCH
<1>2. x \in Nat /\ y \in Nat /\ x <= y
    BY <1>1
<1> HIDE DEF x, y
<1>3. /\ x \div A_WEEK_EPOCHS \in Nat /\ y \div A_WEEK_EPOCHS \in Nat
      /\ x \div A_WEEK_EPOCHS <= y \div A_WEEK_EPOCHS
      /\ x % A_WEEK_EPOCHS \in Nat /\ y % A_WEEK_EPOCHS \in Nat
      /\ x \div A_WEEK_EPOCHS = y \div A_WEEK_EPOCHS => x % A_WEEK_EPOCHS <= y % A_WEEK_EPOCHS
    BY <1>1, <1>2, WeekFacts, WeekDivMonotone
<1>4. x \div A_WEEK_EPOCHS + (IF x % A_WEEK_EPOCHS # 0 THEN 1 ELSE 0)
        <= y \div A_WEEK_EPOCHS + (IF y % A_WEEK_EPOCHS # 0 THEN 1 ELSE 0)
    BY <1>3
<1> QED BY <1>4 DEF GetWeekIndex, x, y

\* The epoch a week before is in the week before.
LEMMA WeekBefore ==
    ASSUME NEW e \in Nat, e - A_WEEK_EPOCHS >= BABYLON_START_EPOCH
    PROVE  GetWeekIndex(e) = GetWeekIndex(e - A_WEEK_EPOCHS) + 1
<1>1. A_WEEK_EPOCHS \in Nat \ {0} /\ BABYLON_START_EPOCH \in Nat
    BY ValidatorKeeperAssumption
<1> DEFINE x == e - BABYLON_START_EPOCH
<1>2. x \in Nat /\ x >= A_WEEK_EPOCHS
    BY <1>1
<1>3. (e - A_WEEK_EPOCHS) - BABYLON_START_EPOCH = x - A_WEEK_EPOCHS
    BY <1>1
<1>4. (x - A_WEEK_EPOCHS) \div A_WEEK_EPOCHS = (x \div A_WEEK_EPOCHS) - 1
      /\ (x - A_WEEK_EPOCHS) % A_WEEK_EPOCHS = x % A_WEEK_EPOCHS
    BY <1>1, <1>2, ShiftDiv
<1>5. x \div A_WEEK_EPOCHS \in Nat
    BY <1>1, <1>2, WeekFacts
<1> QED BY <1>3, <1>4, <1>5 DEF GetWeekIndex
\* The epochs fill_validator_staking takes are past ones, each a week before the last.
LEMMA WeeksBefore ==
    ASSUME NEW e \in Nat, NEW n \in Nat \ {0}, NEW i \in 1 .. n,
           e - (n - 1) * A_WEEK_EPOCHS >= BABYLON_START_EPOCH
    PROVE  /\ e - (i - 1) * A_WEEK_EPOCHS \in BABYLON_START_EPOCH .. e
           /\ i < n => GetWeekIndex(e - (i - 1) * A_WEEK_EPOCHS)
                           > GetWeekIndex(e - ((i + 1) - 1) * A_WEEK_EPOCHS)
<1>1. A_WEEK_EPOCHS \in Nat \ {0} /\ BABYLON_START_EPOCH \in Nat
    BY ValidatorKeeperAssumption
<1>2. ASSUME NEW k \in 1 .. n
      PROVE  e - (k - 1) * A_WEEK_EPOCHS \in BABYLON_START_EPOCH .. e
  <2>1. /\ (n - 1) * A_WEEK_EPOCHS = (k - 1) * A_WEEK_EPOCHS + (n - k) * A_WEEK_EPOCHS
        /\ (k - 1) * A_WEEK_EPOCHS \in Nat /\ (n - k) * A_WEEK_EPOCHS \in Nat
      BY <1>1, <1>2, Z3
  <2> QED BY <1>1, <2>1
<1>3. ASSUME i < n
      PROVE  GetWeekIndex(e - (i - 1) * A_WEEK_EPOCHS)
               > GetWeekIndex(e - ((i + 1) - 1) * A_WEEK_EPOCHS)
  <2> DEFINE y == e - (i - 1) * A_WEEK_EPOCHS
             z == e - ((i + 1) - 1) * A_WEEK_EPOCHS
  <2>1. z = y - A_WEEK_EPOCHS
      BY <1>1
  <2>2. i + 1 \in 1 .. n
      BY <1>3
  <2>3. y \in BABYLON_START_EPOCH .. e /\ z \in BABYLON_START_EPOCH .. e
      BY <1>2, <2>2
  <2> HIDE DEF y, z
  <2>4. y \in Nat /\ y - A_WEEK_EPOCHS >= BABYLON_START_EPOCH /\ z \in Nat
      BY <1>1, <2>1, <2>3
  <2>5. GetWeekIndex(y) = GetWeekIndex(z) + 1
      BY <2>1, <2>4, WeekBefore
  <2>6. GetWeekIndex(z) \in Nat
      BY <2>3, <2>4, WeekIndexInt
  <2>7. GetWeekIndex(y) > GetWeekIndex(z)
      BY <2>5, <2>6
  <2> QED BY <2>7 DEF y, z
<1> QED BY <1>2, <1>3
-----------------------------------------------------------------------------
(* Histories *)

\* What HistoryOrdered and TypeOK say of one history, at epoch now.
Ordered(h, now) ==
    /\ h \in Seq(StakeData) /\ h # << >>
    /\ h[1].epoch_at <= now
    /\ \A i \in 1 .. (Len(h) - 1) :
          GetWeekIndex(h[i].epoch_at) > GetWeekIndex(h[i + 1].epoch_at)

\* g has the entries of h that are of the weeks before now.
KeepsPast(h, g, now) ==
    \A d \in Range(h) : GetWeekIndex(d.epoch_at) < GetWeekIndex(now) => d \in Range(g)

\* Nothing is divided by zero when stake units are issued.
Positive == \A e \in DOMAIN stake_at, v \in Validator : stake_at[e][v].xrd > 0

\* An entry read off the ledger.
LEMMA NewEntry ==
    ASSUME TypeOK, NEW v \in Validator, NEW e \in DOMAIN stake_at
    PROVE  /\ NewStakeData(v, e) \in StakeData /\ NewStakeData(v, e).epoch_at = e
           /\ e \in Nat /\ e >= BABYLON_START_EPOCH /\ e <= epoch /\ epoch \in Nat
<1>1. BABYLON_START_EPOCH \in Nat /\ StartEpoch \in Nat /\ MaxEpoch \in Nat
      /\ BABYLON_START_EPOCH <= StartEpoch
    BY ValidatorKeeperAssumption
<1>2. e \in BABYLON_START_EPOCH .. epoch /\ epoch \in StartEpoch .. MaxEpoch
    BY DEF TypeOK
<1>3. stake_at[e][v] \in [lsu : Nat, xrd : Nat]
    BY DEF TypeOK
<1> QED BY <1>1, <1>2, <1>3 DEF NewStakeData, StakeData

\* Epochs and weeks are numbers.
LEMMA Now ==
    ASSUME TypeOK
    PROVE  /\ epoch \in DOMAIN stake_at /\ epoch \in Nat /\ GetWeekIndex(epoch) \in Nat
           /\ \A d \in StakeData : d.epoch_at \in Nat /\ GetWeekIndex(d.epoch_at) \in Nat
<1>1. BABYLON_START_EPOCH \in Nat /\ StartEpoch \in Nat /\ MaxEpoch \in Nat
      /\ BABYLON_START_EPOCH <= StartEpoch
    BY ValidatorKeeperAssumption
<1>2. epoch \in Nat /\ epoch >= BABYLON_START_EPOCH /\ epoch \in DOMAIN stake_at
    BY <1>1 DEF TypeOK
<1>3. \A d \in StakeData : d.epoch_at \in Nat /\ d.epoch_at >= BABYLON_START_EPOCH
    BY <1>1 DEF StakeData
<1> QED BY <1>2, <1>3, WeekIndexInt

\* A history that starts.
LEMMA FreshOrdered ==
    ASSUME NEW d \in StakeData, NEW now, d.epoch_at <= now
    PROVE  Ordered(<<d>>, now)
    BY DEF Ordered

\* log_validator_staking: an entry in front, or the first one rewritten in its week.
LEMMA LoggedOrdered ==
    ASSUME TypeOK, NEW v \in Validator, NEW h, Ordered(h, epoch)
    PROVE  Ordered(Logged(v, h), epoch) /\ KeepsPast(h, Logged(v, h), epoch)
<1> DEFINE new == NewStakeData(v, epoch)
<1>1. new \in StakeData /\ new.epoch_at = epoch /\ epoch \in Nat
    BY Now, NewEntry
<1>2. /\ h \in Seq(StakeData) /\ Len(h) \in Nat /\ Len(h) > 0 /\ DOMAIN h = 1 .. Len(h)
      /\ \A i \in 1 .. Len(h) : h[i] \in StakeData
    BY DEF Ordered
<1> HIDE DEF new
<1>3. CASE NewWeek(h)
  <2>1. Logged(v, h) = <<new>> \o h
      BY <1>3 DEF Logged, new
  <2> DEFINE g == <<new>> \o h
  <2>2. g \in Seq(StakeData) /\ Len(g) = Len(h) + 1
        /\ g[1] = new /\ \A i \in 1 .. Len(h) : g[i + 1] = h[i]
      BY <1>1, <1>2
  <2> HIDE DEF g
  <2>3. \A i \in 1 .. (Len(g) - 1) : GetWeekIndex(g[i].epoch_at) > GetWeekIndex(g[i + 1].epoch_at)
    <3> SUFFICES ASSUME NEW i \in 1 .. (Len(g) - 1)
                 PROVE  GetWeekIndex(g[i].epoch_at) > GetWeekIndex(g[i + 1].epoch_at)
        OBVIOUS
    <3>1. CASE i = 1
        BY <1>1, <1>2, <1>3, <2>2, <3>1 DEF NewWeek
    <3>2. CASE i # 1
      <4>1. i - 1 \in 1 .. (Len(h) - 1) /\ g[i] = h[i - 1] /\ g[i + 1] = h[(i - 1) + 1]
          BY <1>2, <2>2, <3>2
      <4> QED BY <4>1 DEF Ordered
    <3> QED BY <3>1, <3>2
  <2>4. Ordered(g, epoch)
      BY <1>1, <1>2, <2>2, <2>3 DEF Ordered
  <2>5. \A d \in Range(h) : d \in Range(g)
    <3> SUFFICES ASSUME NEW i \in 1 .. Len(h) PROVE h[i] \in Range(g)
        BY <1>2 DEF Range
    <3>1. i + 1 \in DOMAIN g /\ g[i + 1] = h[i]
        BY <1>2, <2>2
    <3> QED BY <3>1 DEF Range
  <2> QED BY <2>1, <2>4, <2>5 DEF KeepsPast, g
<1>4. CASE ~ NewWeek(h)
  <2>1. Logged(v, h) = [h EXCEPT ![1] = new]
      BY <1>4 DEF Logged, new
  <2> DEFINE g == [h EXCEPT ![1] = new]
  <2>2. g \in Seq(StakeData) /\ Len(g) = Len(h)
        /\ g[1] = new /\ \A i \in 2 .. Len(h) : g[i] = h[i]
      BY <1>1, <1>2, ExceptSeq
  <2> HIDE DEF g
  <2>3. /\ GetWeekIndex(epoch) \in Nat
        /\ \A d \in StakeData : d.epoch_at \in Nat /\ GetWeekIndex(d.epoch_at) \in Nat
      BY Now
  <2>4. h[1] \in StakeData /\ h[1].epoch_at <= epoch /\ h[1].epoch_at >= BABYLON_START_EPOCH
      BY <1>2, ValidatorKeeperAssumption DEF Ordered, StakeData
  <2>5. GetWeekIndex(epoch) = GetWeekIndex(h[1].epoch_at)
    <3>1. GetWeekIndex(h[1].epoch_at) <= GetWeekIndex(epoch)
        BY <1>1, <2>3, <2>4, WeekMonotone
    <3> QED BY <1>4, <2>3, <2>4, <3>1 DEF NewWeek
  <2>6. \A i \in 1 .. (Len(g) - 1) : GetWeekIndex(g[i].epoch_at) > GetWeekIndex(g[i + 1].epoch_at)
    <3> SUFFICES ASSUME NEW i \in 1 .. (Len(h) - 1)
                 PROVE  GetWeekIndex(g[i].epoch_at) > GetWeekIndex(g[i + 1].epoch_at)
        BY <2>2
    <3>1. GetWeekIndex(g[i].epoch_at) = GetWeekIndex(h[i].epoch_at) /\ g[i + 1] = h[i + 1]
        BY <1>1, <1>2, <2>2, <2>5
    <3> QED BY <3>1 DEF Ordered
  <2>7. Ordered(g, epoch)
      BY <1>1, <1>2, <2>2, <2>6 DEF Ordered
  <2>8. \A d \in Range(h) : GetWeekIndex(d.epoch_at) < GetWeekIndex(epoch) => d \in Range(g)
    <3> SUFFICES ASSUME NEW i \in 1 .. Len(h), GetWeekIndex(h[i].epoch_at) < GetWeekIndex(epoch)
                 PROVE  h[i] \in Range(g)
        BY <1>2 DEF Range
    <3>1. i # 1
        BY <2>3, <2>5
    <3>2. i \in DOMAIN g /\ g[i] = h[i]
        BY <1>2, <2>2, <3>1
    <3> QED BY <3>2 DEF Range
  <2> QED BY <2>1, <2>7, <2>8 DEF KeepsPast, g
<1> QED BY <1>3, <1>4
\* fill_validator_staking: one entry a week.
LEMMA FilledOrdered ==
    ASSUME TypeOK, NEW v \in Validator, NEW n \in FillLengths,
           epoch - (n - 1) * A_WEEK_EPOCHS >= BABYLON_START_EPOCH
    PROVE  Ordered([i \in 1 .. n |-> NewStakeData(v, epoch - (i - 1) * A_WEEK_EPOCHS)], epoch)
<1> DEFINE g == [i \in 1 .. n |-> NewStakeData(v, epoch - (i - 1) * A_WEEK_EPOCHS)]
<1>1. n \in Nat \ {0} /\ epoch \in Nat /\ DOMAIN stake_at = BABYLON_START_EPOCH .. epoch
    BY Now, ValidatorKeeperAssumption DEF TypeOK
<1>2. \A i \in 1 .. n : /\ g[i] \in StakeData
                        /\ g[i].epoch_at = epoch - (i - 1) * A_WEEK_EPOCHS
                        /\ g[i].epoch_at <= epoch
  <2> SUFFICES ASSUME NEW i \in 1 .. n
               PROVE  /\ g[i] \in StakeData
                      /\ g[i].epoch_at = epoch - (i - 1) * A_WEEK_EPOCHS
                      /\ g[i].epoch_at <= epoch
      OBVIOUS
  <2> DEFINE e == epoch - (i - 1) * A_WEEK_EPOCHS
  <2>1. e \in DOMAIN stake_at
      BY <1>1, WeeksBefore
  <2>2. g[i] = NewStakeData(v, e)
      OBVIOUS
  <2> QED BY <2>1, <2>2, NewEntry
<1>3. \A i \in 1 .. (n - 1) :
          GetWeekIndex(epoch - (i - 1) * A_WEEK_EPOCHS)
            > GetWeekIndex(epoch - ((i + 1) - 1) * A_WEEK_EPOCHS)
    BY <1>1, WeeksBefore
<1>4. \A i \in 1 .. (n - 1) : GetWeekIndex(g[i].epoch_at) > GetWeekIndex(g[i + 1].epoch_at)
  <2> SUFFICES ASSUME NEW i \in 1 .. (n - 1)
               PROVE  GetWeekIndex(g[i].epoch_at) > GetWeekIndex(g[i + 1].epoch_at)
      OBVIOUS
  <2>1. i \in 1 .. n /\ i + 1 \in 1 .. n
      BY <1>1
  <2>2. g[i].epoch_at = epoch - (i - 1) * A_WEEK_EPOCHS
        /\ g[i + 1].epoch_at = epoch - ((i + 1) - 1) * A_WEEK_EPOCHS
      BY <1>2, <2>1
  <2> HIDE DEF g
  <2> QED BY <1>3, <2>2
<1>5. g \in Seq(StakeData) /\ Len(g) = n
  <2> HIDE DEF g
  <2>1. g = [i \in 1 .. n |-> g[i]]
      BY DEF g
  <2>2. g \in [1 .. n -> StakeData]
      BY <1>2, <2>1
  <2> QED BY <1>1, <2>2
<1> HIDE DEF g
<1>6. Ordered(g, epoch)
    BY <1>1, <1>2, <1>4, <1>5 DEF Ordered
<1> QED BY <1>6 DEF g

\* insert_validator_staking at the place where the week is missing.
LEMMA InsertedOrdered ==
    ASSUME TypeOK, NEW v \in Validator, NEW e \in DOMAIN stake_at, NEW h, Ordered(h, epoch),
           NEW index \in Nat, index <= Len(h), Fits(h, index, e)
    PROVE  LET g == InsertAt(h, index + 1, NewStakeData(v, e))
           IN  Ordered(g, epoch) /\ KeepsPast(h, g, epoch)
<1> DEFINE new == NewStakeData(v, e)
           g == InsertAt(h, index + 1, new)
           p == SubSeq(h, 1, index)
           q == SubSeq(h, index + 1, Len(h))
<1>1. new \in StakeData /\ new.epoch_at = e /\ e <= epoch /\ epoch \in Nat /\ e \in Nat
    BY NewEntry
<1>2. /\ h \in Seq(StakeData) /\ Len(h) \in Nat /\ Len(h) > 0 /\ DOMAIN h = 1 .. Len(h)
      /\ \A i \in 1 .. Len(h) : h[i] \in StakeData
    BY DEF Ordered
<1>3. /\ p \in Seq(StakeData) /\ Len(p) = index
      /\ \A i \in 1 .. index : p[i] = h[i]
  <2>1. \A i \in 1 .. index : h[i] \in StakeData
      BY <1>2
  <2> QED BY <2>1, SubSeqProperties
<1>4. /\ q \in Seq(StakeData) /\ Len(q) = Len(h) - index
      /\ \A i \in 1 .. (Len(h) - index) : q[i] = h[index + i]
  <2>1. \A i \in (index + 1) .. Len(h) : h[i] \in StakeData
      BY <1>2
  <2>2. /\ q \in Seq(StakeData)
        /\ Len(q) = IF index + 1 <= Len(h) THEN Len(h) - (index + 1) + 1 ELSE 0
        /\ \A i \in 1 .. Len(h) - (index + 1) + 1 : q[i] = h[index + 1 + i - 1]
      BY <1>2, <2>1, SubSeqProperties
  <2> HIDE DEF q
  <2>3. Len(q) = Len(h) - index
    <3>1. CASE index + 1 <= Len(h)
        BY <1>2, <2>2, <3>1
    <3>2. CASE ~ (index + 1 <= Len(h))
      <4> HIDE DEF new, g, p
      <4>1. Len(h) \in Nat
          BY <1>2
      <4>2. \A n \in Nat : index <= n /\ ~ (index + 1 <= n) => n - index = 0
          OBVIOUS
      <4>3. Len(h) - index = 0
          BY <3>2, <4>1, <4>2
      <4> QED BY <2>2, <3>2, <4>3
    <3> QED BY <3>1, <3>2
  <2>4. ASSUME NEW i \in 1 .. (Len(h) - index) PROVE q[i] = h[index + i]
    <3>1. i \in 1 .. Len(h) - (index + 1) + 1 /\ index + 1 + i - 1 = index + i
        BY <1>2
    <3> QED BY <2>2, <3>1
  <2> QED BY <2>2, <2>3, <2>4
<1>5. g = p \o <<new>> \o q
  <2>1. (index + 1) - 1 = index
      OBVIOUS
  <2> HIDE DEF new
  <2>2. InsertAt(h, index + 1, new)
          = SubSeq(h, 1, (index + 1) - 1) \o <<new>> \o SubSeq(h, index + 1, Len(h))
      BY Zenon DEF InsertAt
  <2> QED BY <2>1, <2>2
<1> HIDE DEF new, g, p, q
<1>6. /\ p \o <<new>> \in Seq(StakeData) /\ Len(p \o <<new>>) = index + 1
      /\ \A i \in 1 .. index : (p \o <<new>>)[i] = h[i]
      /\ (p \o <<new>>)[index + 1] = new
    BY <1>1, <1>3
<1>7. /\ g \in Seq(StakeData) /\ Len(g) = Len(h) + 1
      /\ \A i \in 1 .. index : g[i] = h[i]
      /\ g[index + 1] = new
      /\ \A i \in (index + 2) .. (Len(h) + 1) : g[i] = h[i - 1]
  <2> DEFINE s == p \o <<new>>
  <2>1. s \in Seq(StakeData) /\ Len(s) = index + 1
      BY <1>6
  <2>2. \A i \in 1 .. index : s[i] = h[i]
      BY <1>6
  <2>3. s[index + 1] = new /\ g = s \o q
      BY <1>5, <1>6
  <2> HIDE DEF s
  <2>4. /\ s \o q \in Seq(StakeData) /\ Len(s \o q) = Len(s) + Len(q)
        /\ \A i \in 1 .. Len(s) + Len(q) :
              (s \o q)[i] = IF i <= Len(s) THEN s[i] ELSE q[i - Len(s)]
      BY <1>4, <2>1, ConcatProperties
  <2>5. /\ g \in Seq(StakeData) /\ Len(g) = Len(h) + 1
        /\ \A i \in 1 .. (Len(h) + 1) : g[i] = IF i <= index + 1 THEN s[i] ELSE q[i - (index + 1)]
      BY <1>2, <1>4, <2>1, <2>3, <2>4
  <2>6. \A i \in (index + 2) .. (Len(h) + 1) : g[i] = h[i - 1]
    <3> SUFFICES ASSUME NEW i \in (index + 2) .. (Len(h) + 1) PROVE g[i] = h[i - 1]
        OBVIOUS
    <3>1. i - (index + 1) \in 1 .. (Len(h) - index) /\ i \in 1 .. (Len(h) + 1) /\ ~ (i <= index + 1)
        BY <1>2
    <3>2. g[i] = q[i - (index + 1)]
        BY <2>5, <3>1
    <3>3. q[i - (index + 1)] = h[index + (i - (index + 1))]
        BY <1>4, <3>1
    <3>4. index + (i - (index + 1)) = i - 1
        BY <1>2
    <3> QED BY <3>2, <3>3, <3>4
  <2>7. (\A i \in 1 .. index : g[i] = h[i]) /\ g[index + 1] = new
      BY <1>2, <2>2, <2>3, <2>5, SMTT(40)
  <2> QED BY <2>5, <2>6, <2>7
<1>8. \A i \in 1 .. (Len(g) - 1) : GetWeekIndex(g[i].epoch_at) > GetWeekIndex(g[i + 1].epoch_at)
  <2> SUFFICES ASSUME NEW i \in 1 .. Len(h)
               PROVE  GetWeekIndex(g[i].epoch_at) > GetWeekIndex(g[i + 1].epoch_at)
      BY <1>2, <1>7
  <2>1. CASE i < index
    <3>1. i \in 1 .. index /\ i + 1 \in 1 .. index /\ i \in 1 .. (Len(h) - 1)
        BY <1>2, <2>1
    <3> QED BY <1>7, <3>1 DEF Ordered
  <2>2. CASE i = index
    <3>1. g[i] = h[i] /\ g[i + 1] = new
        BY <1>7, <2>2
    <3> QED BY <1>1, <1>2, <2>2, <3>1 DEF Fits
  <2>3. CASE i = index + 1
    <3>1. i + 1 \in (index + 2) .. (Len(h) + 1) /\ i + 1 - 1 = i
        BY <1>2, <2>3
    <3>2. g[i] = new /\ g[i + 1] = h[i]
        BY <1>7, <2>3, <3>1
    <3>3. GetWeekIndex(h[i].epoch_at) < GetWeekIndex(e)
        BY <1>2, <2>3 DEF Fits
    <3>4. GetWeekIndex(h[i].epoch_at) \in Nat /\ GetWeekIndex(e) \in Nat
        BY <1>1, <1>2, Now
    <3> QED BY <1>1, <3>2, <3>3, <3>4
  <2>4. CASE i > index + 1
    <3>1. /\ i \in (index + 2) .. (Len(h) + 1) /\ i + 1 \in (index + 2) .. (Len(h) + 1)
          /\ i - 1 \in 1 .. (Len(h) - 1) /\ i + 1 - 1 = (i - 1) + 1
        BY <1>2, <2>4
    <3>2. g[i] = h[i - 1] /\ g[i + 1] = h[(i - 1) + 1]
        BY <1>7, <3>1, SMTT(40)
    <3> QED BY <3>1, <3>2 DEF Ordered
  <2> QED BY <1>2, <2>1, <2>2, <2>3, <2>4
<1>9. g[1].epoch_at <= epoch
  <2>1. CASE index = 0
      BY <1>1, <1>7, <2>1
  <2>2. CASE index # 0
    <3>1. g[1] = h[1]
        BY <1>7, <2>2
    <3> QED BY <3>1 DEF Ordered
  <2> QED BY <2>1, <2>2
<1>10. \A d \in Range(h) : d \in Range(g)
  <2> SUFFICES ASSUME NEW i \in 1 .. Len(h) PROVE h[i] \in Range(g)
      BY <1>2 DEF Range
  <2>1. CASE i <= index
    <3>1. i \in DOMAIN g /\ g[i] = h[i]
        BY <1>2, <1>7, <2>1
    <3> QED BY <3>1 DEF Range
  <2>2. CASE i > index
    <3>1. i + 1 \in DOMAIN g /\ g[i + 1] = h[i]
        BY <1>2, <1>7, <2>2
    <3> QED BY <3>1 DEF Range
  <2> QED BY <1>2, <2>1, <2>2
<1>11. Ordered(g, epoch) /\ KeepsPast(h, g, epoch)
    BY <1>2, <1>7, <1>8, <1>9, <1>10 DEF Ordered, KeepsPast
<1> QED BY <1>11 DEF g, new
-----------------------------------------------------------------------------
(* Prices *)

LEMMA ProductOrder ==
    ASSUME NEW a \in Nat, NEW b \in Nat, NEW c \in Nat
    PROVE  (a * b) * c = (b * c) * a /\ (a * b) * c = (c * a) * b /\ (a * b) * c = (a * c) * b
OBVIOUS

LEMMA ProductOfSums ==
    ASSUME NEW a \in Nat, NEW b \in Nat, NEW c \in Nat
    PROVE  (a + 1) * (b + c) = b * a + b + c * a + c
OBVIOUS

\* The price of a stake unit before and after a delegator stakes: the stake
\* units issued are rounded down, so that the price does not fall, and it rises
\* by no more than what a fraction of a stake unit is worth.
LEMMA PriceAfterStaking ==
    ASSUME NEW lsu \in Nat \ {0}, NEW xrd \in Nat \ {0}, NEW amount \in Nat,
           NEW floor \in Nat \ {0}, floor <= lsu,
           NEW minted \in Nat, minted = (amount * lsu) \div xrd
    PROVE  /\ DDiv(xrd, lsu) <= DDiv(xrd + amount, lsu + minted)
           /\ DDiv(xrd + amount, lsu + minted)
                <= DDiv(xrd, lsu) + 1 + DDiv(xrd + amount, lsu + minted) \div floor
<1> DEFINE P == DDiv(xrd, lsu)
           Q == DDiv(xrd + amount, lsu + minted)
           M == lsu + minted
           k == P \div floor
<1>1. /\ minted * xrd <= amount * lsu
      /\ amount * lsu < (minted + 1) * xrd
  <2>1. amount * lsu \in Nat
    OBVIOUS
  <2> DEFINE a == amount * lsu
  <2> HIDE DEF a
  <2>2. xrd * minted <= a /\ a < xrd * minted + xrd
    BY <2>1, DivBounds DEF a
  <2>3. xrd * minted = minted * xrd /\ xrd * minted + xrd = (minted + 1) * xrd
    OBVIOUS
  <2> QED
    BY <2>2, <2>3 DEF a
<1>2. ONE \in Nat \ {0} /\ M \in Nat \ {0} /\ xrd + amount \in Nat
  BY DecimalAssumption
<1>3. /\ P \in Nat /\ lsu * P <= xrd * ONE /\ xrd * ONE < lsu * P + lsu
      /\ Q \in Nat /\ M * Q <= (xrd + amount) * ONE
      /\ (xrd + amount) * ONE < M * Q + M
      /\ Q = ((xrd + amount) * ONE) \div M
  <2> DEFINE x == xrd + amount
  <2> HIDE DEF M, x
  <2>1. x \in Nat
    BY DEF x
  <2>2. /\ DDiv(x, M) = (x * ONE) \div M
        /\ DDiv(x, M) \in Nat
        /\ M * DDiv(x, M) <= x * ONE
        /\ x * ONE < M * DDiv(x, M) + M
    BY <1>2, <2>1, DDivNat
  <2>3. /\ DDiv(xrd, lsu) \in Nat /\ lsu * DDiv(xrd, lsu) <= xrd * ONE
        /\ xrd * ONE < lsu * DDiv(xrd, lsu) + lsu
    BY DDivNat
  <2> QED
    BY <2>2, <2>3 DEF x, M
<1> HIDE DEF P, Q
<1>4. /\ k \in Nat /\ P + 1 <= (k + 1) * floor
  <2>1. /\ k \in Int /\ floor * k <= P /\ P < floor * k + floor
    BY <1>3, DivBounds
  <2>2. k \in Nat
    BY <1>3, DivNat
  <2>3. floor * k + floor = (k + 1) * floor /\ floor * k \in Nat
    BY <2>2
  <2> HIDE DEF k
  <2> QED
    BY <1>3, <2>1, <2>2, <2>3
<1> HIDE DEF k
<1>nat. P \in Nat
  BY <1>3
\* The price does not fall.
<1>5. P * minted <= amount * ONE
  <2>1. (P * minted) * lsu <= (amount * ONE) * lsu
    <3>1. (lsu * P) * minted <= (xrd * ONE) * minted
      <4>1. \A a, b \in Nat : a <= b => a * minted <= b * minted
        OBVIOUS
      <4>2. lsu * P \in Nat /\ xrd * ONE \in Nat
        BY <1>2, <1>3
      <4> QED
        BY <1>3, <4>1, <4>2
    <3>2. (minted * xrd) * ONE <= (amount * lsu) * ONE
      <4>1. \A a, b \in Nat : a <= b => a * ONE <= b * ONE
        BY <1>2
      <4>2. minted * xrd \in Nat /\ amount * lsu \in Nat
        OBVIOUS
      <4> QED
        BY <1>1, <4>1, <4>2
    <3>3. /\ (lsu * P) * minted = (P * minted) * lsu
          /\ (xrd * ONE) * minted = (minted * xrd) * ONE
          /\ (amount * lsu) * ONE = (amount * ONE) * lsu
      <4>1. (lsu * P) * minted = (P * minted) * lsu
        BY <1>nat, ProductOrder
      <4>2. (xrd * ONE) * minted = (minted * xrd) * ONE
        BY <1>2, ProductOrder
      <4>3. (amount * lsu) * ONE = (amount * ONE) * lsu
        BY <1>2, ProductOrder
      <4> QED
        BY <4>1, <4>2, <4>3
    <3>4. (P * minted) * lsu \in Nat /\ (amount * ONE) * lsu \in Nat /\ (minted * xrd) * ONE \in Nat
      BY <1>2, <1>3
    <3> QED
      BY <3>1, <3>2, <3>3, <3>4
  <2>2. \A a, b \in Nat : a * lsu <= b * lsu => a <= b
    OBVIOUS
  <2>3. P * minted \in Nat /\ amount * ONE \in Nat
    BY <1>2, <1>3
  <2> QED
    BY <2>1, <2>2, <2>3
<1>6. P <= Q
  <2>1. P * M <= (xrd + amount) * ONE
    <3>1. P * M = lsu * P + P * minted /\ (xrd + amount) * ONE = xrd * ONE + amount * ONE
      BY <1>2, <1>3
    <3>2. /\ lsu * P \in Nat /\ P * minted \in Nat /\ xrd * ONE \in Nat /\ amount * ONE \in Nat
      BY <1>2, <1>3
    <3> QED
      BY <1>3, <1>5, <3>1, <3>2
  <2>2. (xrd + amount) * ONE \in Int
    BY <1>2
  <2> HIDE DEF M
  <2> QED
    BY <1>2, <1>3, <2>1, <2>2, DivLower
\* It rises by less than what a unit is worth among all the units there are.
<1>7. amount * ONE <= (minted + 1) * (P + 1)
  <2>1. (amount * ONE) * lsu <= ((minted + 1) * (P + 1)) * lsu
    <3>1. (amount * lsu) * ONE <= ((minted + 1) * xrd) * ONE
      <4>1. \A a, b \in Nat : a <= b => a * ONE <= b * ONE
        BY <1>2
      <4>2. (minted + 1) * xrd \in Nat /\ amount * lsu \in Nat
        OBVIOUS
      <4> QED
        BY <1>1, <4>1, <4>2
    <3>2. (minted + 1) * (xrd * ONE) <= (minted + 1) * ((P + 1) * lsu)
      <4>1. \A a, b \in Nat : a <= b => (minted + 1) * a <= (minted + 1) * b
        OBVIOUS
      <4>2. xrd * ONE \in Nat /\ (P + 1) * lsu \in Nat /\ (P + 1) * lsu = lsu * P + lsu
            /\ lsu * P \in Nat
        BY <1>2, <1>3
      <4>3. xrd * ONE <= (P + 1) * lsu
        BY <1>3, <4>2
      <4> QED
        BY <4>1, <4>2, <4>3
    <3>3. /\ (amount * lsu) * ONE = (amount * ONE) * lsu
          /\ ((minted + 1) * xrd) * ONE = (minted + 1) * (xrd * ONE)
          /\ (minted + 1) * ((P + 1) * lsu) = ((minted + 1) * (P + 1)) * lsu
      BY <1>2, <1>3
    <3>4. /\ (amount * ONE) * lsu \in Nat /\ (minted + 1) * (xrd * ONE) \in Nat
          /\ ((minted + 1) * (P + 1)) * lsu \in Nat
      BY <1>2, <1>3
    <3> QED
      BY <3>1, <3>2, <3>3, <3>4
  <2>2. \A a, b \in Nat : a * lsu <= b * lsu => a <= b
    OBVIOUS
  <2>3. (minted + 1) * (P + 1) \in Nat /\ amount * ONE \in Nat
    BY <1>2, <1>3
  <2> QED
    BY <2>1, <2>2, <2>3
<1>8. Q <= P + 1 + k
  <2>1. (k + 1) * floor <= (k + 1) * M
    <3>1. \A a, b \in Nat : a <= b => (k + 1) * a <= (k + 1) * b
      BY <1>4
    <3> QED
      BY <1>2, <3>1
  <2>2. (xrd + amount) * ONE < ((P + 1 + k) + 1) * M
    <3>1. /\ (xrd + amount) * ONE = xrd * ONE + amount * ONE
          /\ (minted + 1) * (P + 1) = minted * P + minted + (P + 1)
          /\ ((P + 1 + k) + 1) * M = (P + 1) * M + (k + 1) * M
          /\ (P + 1) * M = lsu * P + lsu + minted * P + minted
      <4>1. (xrd + amount) * ONE = xrd * ONE + amount * ONE
        BY <1>2
      <4>2. (minted + 1) * (P + 1) = minted * P + minted + (P + 1)
        BY <1>3
      <4>3. (P + 1) * M = lsu * P + lsu + minted * P + minted
        BY <1>nat, ProductOfSums
      <4>4. ((P + 1 + k) + 1) * M = (P + 1) * M + (k + 1) * M
        <5> HIDE DEF M
        <5> QED
          BY <1>2, <1>3, <1>4
      <4> QED
        BY <4>1, <4>2, <4>3, <4>4
    <3>2. /\ lsu * P \in Nat /\ minted * P \in Nat /\ xrd * ONE \in Nat /\ amount * ONE \in Nat
          /\ (k + 1) * M \in Nat /\ (k + 1) * floor \in Nat
      BY <1>2, <1>3, <1>4
    <3>3. amount * ONE <= minted * P + minted + (P + 1)
      BY <1>7, <3>1
    <3>4. P + 1 <= (k + 1) * M
      BY <1>3, <1>4, <2>1, <3>2
    <3> DEFINE x == xrd * ONE
               a == amount * ONE
               l == lsu * P
               m == minted * P
               r == (k + 1) * M
               pm == (P + 1) * M
    <3>5. /\ x < l + lsu /\ a <= m + minted + (P + 1) /\ P + 1 <= r
          /\ pm = l + lsu + m + minted
          /\ x \in Nat /\ a \in Nat /\ l \in Nat /\ m \in Nat /\ r \in Nat
      BY <1>3, <3>1, <3>2, <3>3, <3>4
    <3>6. (xrd + amount) * ONE = x + a /\ ((P + 1 + k) + 1) * M = pm + r
      BY <3>1
    <3>7. x + a < pm + r
      <4> HIDE DEF x, a, l, m, r, pm
      <4> QED
        BY <1>3, <3>5
    <3> QED
      BY <3>6, <3>7
  <2>3. (xrd + amount) * ONE \in Int /\ P + 1 + k \in Int
    BY <1>2, <1>3, <1>4
  <2> HIDE DEF M
  <2> QED
    BY <1>2, <1>3, <2>2, <2>3, DivUpper
<1>9. k <= Q \div floor
  BY <1>3, <1>6, DivMonotone DEF k
<1>10. Q \div floor \in Nat
  BY <1>3, DivNat
<1> QED
  BY <1>3, <1>4, <1>6, <1>8, <1>9, <1>10 DEF P, Q, M

-----------------------------------------------------------------------------
(* Rates and their mean *)

\* A quotient is rounded towards zero: times the divisor it misses the dividend
\* by less than the divisor, and it stays between whole bounds of the quotient.
LEMMA TruncDivNear ==
    ASSUME NEW x \in Int, NEW n \in Nat \ {0}
    PROVE  /\ TruncDiv(x, n) \in Int
           /\ x - n < TruncDiv(x, n) * n /\ TruncDiv(x, n) * n < x + n
<1>1. CASE x >= 0
  <2>1. TruncDiv(x, n) = x \div n
    BY <1>1, TruncDivNat
  <2>2. x \div n \in Int /\ n * (x \div n) <= x /\ x < n * (x \div n) + n
    BY DivBounds
  <2> DEFINE q == x \div n
  <2> HIDE DEF q
  <2>3. q \in Int /\ n * q <= x /\ x < n * q + n
    BY <2>2 DEF q
  <2>4. q * n = n * q /\ n * q \in Int
    BY <2>3
  <2>5. TruncDiv(x, n) = q
    BY <2>1 DEF q
  <2> QED
    BY <2>3, <2>4, <2>5
<1>2. CASE ~ (x >= 0)
  <2> DEFINE y == -x
             q == y \div n
  <2>1. y \in Nat /\ x < 0
    BY <1>2
  <2>2. TruncDiv(x, n) = -q
    <3>1. /\ Sign(x) = -1 /\ Sign(n) = 1 /\ Magnitude(x) = y /\ Magnitude(n) = n
      BY <2>1 DEF Sign, Magnitude
    <3>2. q \in Int
      BY <2>1, DivNat
    <3> HIDE DEF q
    <3> QED
      BY <3>1, <3>2 DEF TruncDiv, q
  <2>3. q \in Int /\ n * q <= y /\ y < n * q + n
    <3> HIDE DEF y
    <3> QED
      BY <2>1, DivBounds
  <2> HIDE DEF q
  <2>4. (-q) * n = -(n * q) /\ n * q \in Int
    BY <2>3
  <2> QED
    BY <2>1, <2>2, <2>3, <2>4
<1> QED
  BY <1>1, <1>2

LEMMA TruncDivBetween ==
    ASSUME NEW s \in Int, NEW n \in Nat \ {0}, NEW low \in Int, NEW high \in Int,
           low * n <= s, s <= high * n
    PROVE  low <= TruncDiv(s, n) /\ TruncDiv(s, n) <= high
<1> DEFINE q == TruncDiv(s, n)
<1>1. q \in Int /\ s - n < q * n /\ q * n < s + n
  BY TruncDivNear
<1> HIDE DEF q
<1>2. low <= q
  <2>1. \A a, b \in Int : b * n < (a + 1) * n => b <= a
    OBVIOUS
  <2>2. (q + 1) * n = q * n + n /\ q * n \in Int /\ low * n \in Int
    BY <1>1
  <2>3. low * n < (q + 1) * n
    BY <1>1, <2>2
  <2> QED
    BY <1>1, <2>1, <2>3
<1>3. q <= high
  <2>1. \A a, b \in Int : b * n < (a + 1) * n => b <= a
    OBVIOUS
  <2>2. (high + 1) * n = high * n + n /\ q * n \in Int /\ high * n \in Int
    BY <1>1
  <2>3. q * n < (high + 1) * n
    BY <1>1, <2>2
  <2> QED
    BY <1>1, <2>1, <2>3
<1> QED
  BY <1>2, <1>3 DEF q

\* A sum lies between the number of its summands times any bounds of theirs.
LEMMA SumBetween ==
    ASSUME NEW f, NEW S, IsFiniteSet(S), NEW low \in Int, NEW high \in Int,
           \A x \in S : f[x] \in Int /\ low <= f[x] /\ f[x] <= high
    PROVE  /\ low * Cardinality(S) <= SumFunctionOnSet(f, S)
           /\ SumFunctionOnSet(f, S) <= high * Cardinality(S)
<1> DEFINE sum(T) == SumFunctionOnSet(f, T)
           C == {T \in SUBSET S : ~ (/\ low * Cardinality(T) <= sum(T)
                                     /\ sum(T) <= high * Cardinality(T))}
<1>1. ASSUME NEW T \in SUBSET S, \A y \in T : T \ {y} \notin C PROVE T \notin C
  <2>1. CASE T = {}
    <3>1. sum(T) = 0 /\ Cardinality(T) = 0
      BY <2>1, SumEmpty, FS_EmptySet
    <3>2. low * 0 = 0 /\ high * 0 = 0
      OBVIOUS
    <3> QED
      BY <3>1, <3>2
  <2>2. CASE T # {}
    <3>1. PICK y \in T : TRUE
      BY <2>2
    <3> DEFINE U == T \ {y}
               n == Cardinality(U)
    <3>2. IsFiniteSet(T) /\ IsFiniteSet(U) /\ U \in SUBSET S /\ U \notin C
      BY <1>1, <3>1, FS_Subset
    <3>3. low * n <= sum(U) /\ sum(U) <= high * n
      BY <3>2
    <3>4. sum(T) = f[y] + sum(U) /\ sum(U) \in Int
      BY <3>1, <3>2, SumSplit, SumInt
    <3>5. n \in Nat /\ Cardinality(T) = n + 1
      <4>1. n = Cardinality(T) - 1 /\ Cardinality(T) \in Nat /\ n \in Nat
        BY <3>1, <3>2, FS_RemoveElement, FS_CardinalityType
      <4> HIDE DEF n
      <4> QED
        BY <4>1
    <3>6. f[y] \in Int /\ low <= f[y] /\ f[y] <= high
      BY <3>1
    <3> HIDE DEF n, sum, U
    <3>7. /\ low * (n + 1) = low * n + low /\ high * (n + 1) = high * n + high
          /\ low * n \in Int /\ high * n \in Int
      BY <3>5
    <3>8. low * (n + 1) <= sum(T) /\ sum(T) <= high * (n + 1)
      BY <3>3, <3>4, <3>6, <3>7
    <3> QED
      BY <3>5, <3>8 DEF sum
  <2> QED
    BY <2>1, <2>2
<1>2. C = {}
  <2>1. C \in SUBSET (SUBSET S)
    OBVIOUS
  <2> HIDE DEF C
  <2> QED
    BY <1>1, <2>1, SubsetInduction
<1> QED
  BY <1>2

\* A finite set of numbers has a least and a greatest one.
LEMMA MinMaxOfFinite ==
    ASSUME NEW S \in SUBSET Int, IsFiniteSet(S), S # {}
    PROVE  /\ Min(S) \in S /\ \A y \in S : Min(S) <= y
           /\ Max(S) \in S /\ \A y \in S : y <= Max(S)
<1> DEFINE HasMin(T) == \E x \in T : \A y \in T : x <= y
           HasMax(T) == \E x \in T : \A y \in T : y <= x
           C == {T \in SUBSET S : T # {} /\ ~ (HasMin(T) /\ HasMax(T))}
<1>1. ASSUME NEW T \in SUBSET S, \A y \in T : T \ {y} \notin C PROVE T \notin C
  <2> SUFFICES ASSUME T # {} PROVE HasMin(T) /\ HasMax(T)
    OBVIOUS
  <2>1. PICK x \in T : TRUE
    OBVIOUS
  <2> DEFINE U == T \ {x}
  <2>2. CASE U = {}
    BY <2>1, <2>2
  <2>3. CASE U # {}
    <3>1. HasMin(U) /\ HasMax(U)
      BY <1>1, <2>1, <2>3
    <3>2. PICK l \in U : \A y \in U : l <= y
      BY <3>1
    <3>3. PICK h \in U : \A y \in U : y <= h
      BY <3>1
    <3>4. HasMin(T)
      <4>1. CASE x <= l
        <5>1. \A y \in T : x <= y
          BY <2>1, <3>2, <4>1
        <5> QED
          BY <2>1, <5>1
      <4>2. CASE ~ (x <= l)
        <5>1. \A y \in T : l <= y
          BY <2>1, <3>2, <4>2
        <5> QED
          BY <3>2, <5>1
      <4> QED
        BY <4>1, <4>2
    <3>5. HasMax(T)
      <4>1. CASE h <= x
        <5>1. \A y \in T : y <= x
          BY <2>1, <3>3, <4>1
        <5> QED
          BY <2>1, <5>1
      <4>2. CASE ~ (h <= x)
        <5>1. \A y \in T : y <= h
          BY <2>1, <3>3, <4>2
        <5> QED
          BY <3>3, <5>1
      <4> QED
        BY <4>1, <4>2
    <3> QED
      BY <3>4, <3>5
  <2> QED
    BY <2>2, <2>3
<1>2. C = {}
  <2>1. C \in SUBSET (SUBSET S)
    OBVIOUS
  <2> HIDE DEF C
  <2> QED
    BY <1>1, <2>1, SubsetInduction
<1>3. HasMin(S) /\ HasMax(S)
  BY <1>2
<1>4. Min(S) \in S /\ \A y \in S : Min(S) <= y
  <2>1. Min(S) = CHOOSE x \in S : \A y \in S : x <= y
    BY Zenon DEF Min
  <2> QED
    BY <1>3, <2>1
<1>5. Max(S) \in S /\ \A y \in S : y <= Max(S)
  <2>1. Max(S) = CHOOSE x \in S : \A y \in S : x >= y
    BY Zenon DEF Max
  <2>2. \E x \in S : \A y \in S : x >= y
    BY <1>3
  <2>3. Max(S) \in S /\ \A y \in S : Max(S) >= y
    BY <2>1, <2>2
  <2> QED
    BY <2>3
<1> QED
  BY <1>4, <1>5

\* The mean of finitely many numbers, rounded, lies between the least and the
\* greatest of them.
LEMMA MeanBetween ==
    ASSUME NEW S, IsFiniteSet(S), S # {}, NEW f, DOMAIN f = S, \A x \in S : f[x] \in Int
    PROVE  LET values == {f[x] : x \in S}
               mean   == TruncDiv(SumFunction(f), Cardinality(S))
           IN  Min(values) <= mean /\ mean <= Max(values)
<1> DEFINE values == {f[x] : x \in S}
           low == Min(values)
           high == Max(values)
           sum == SumFunctionOnSet(f, S)
           n == Cardinality(S)
<1>1. IsFiniteSet(values) /\ values \in SUBSET Int /\ values # {}
  <2>1. IsFiniteSet(values)
    <3> DEFINE g == [x \in S |-> f[x]]
    <3>1. g \in Surjection(S, values)
      BY DEF Surjection
    <3> HIDE DEF g, values
    <3> QED
      BY <3>1, FS_Surjection
  <2> QED
    BY <2>1
<1>2. /\ low \in Int /\ high \in Int
      /\ \A x \in S : low <= f[x] /\ f[x] <= high
  <2>1. /\ low \in values /\ \A y \in values : low <= y
        /\ high \in values /\ \A y \in values : y <= high
    <3> HIDE DEF values
    <3> QED
      BY <1>1, MinMaxOfFinite
  <2> QED
    BY <1>1, <2>1
<1> HIDE DEF low, high
<1>3. low * n <= sum /\ sum <= high * n
  BY <1>2, SumBetween
<1>4. sum \in Int /\ n \in Nat \ {0}
  <2>1. n \in Nat /\ n # 0
    BY FS_CardinalityType, FS_EmptySet
  <2> QED
    BY <2>1, SumInt
<1>5. SumFunction(f) = sum
  BY DEF SumFunction
<1> HIDE DEF sum, n
<1>6. low <= TruncDiv(sum, n) /\ TruncDiv(sum, n) <= high
  BY <1>2, <1>3, <1>4, TruncDivBetween
<1> QED
  BY <1>5, <1>6 DEF low, high, n

-----------------------------------------------------------------------------
(* The invariant, one lemma per action *)

HistoriesOrdered == \A v \in DOMAIN validator_map : Ordered(validator_map[v], epoch)

\* The inductive invariant.
KeeperInv == TypeOK /\ Positive /\ HistoriesOrdered

\* What PastKept says of a step.
PastKeptStep ==
    \A v \in DOMAIN validator_map \cap DOMAIN validator_map' :
        \/ validator_map'[v] = <<NewStakeData(v, epoch)>>
        \/ KeepsPast(validator_map[v], validator_map'[v], epoch)

\* A history that stays as it is.
LEMMA KeptWhole ==
    ASSUME NEW h, NEW now
    PROVE  KeepsPast(h, h, now)
    BY DEF KeepsPast

\* A call of the keeper leaves what the network keeps.
LEMMA MapStep ==
    ASSUME KeeperInv, UNCHANGED <<stake_at, epoch, stakes>>,
           DOMAIN validator_map' \subseteq Validator,
           \A v \in DOMAIN validator_map' : Ordered(validator_map'[v], epoch)
    PROVE  KeeperInv'
    BY DEF KeeperInv, TypeOK, Positive, HistoriesOrdered, Ordered, GetWeekIndex, StakeData

\* Stake units issued and rewards paid are natural numbers.
LEMMA Amounts ==
    ASSUME NEW a \in Nat, NEW b \in Nat, NEW c \in Nat \ {0}
    PROVE  TruncDiv(a * b, c) \in Nat
<1>1. a * b \in Nat
    OBVIOUS
<1>2. \A x \in Nat : TruncDiv(x, c) \in Nat
  <2> SUFFICES ASSUME NEW x \in Nat PROVE TruncDiv(x, c) \in Nat
      OBVIOUS
  <2>1. x \div c \in Nat
      BY WeekFacts
  <2>2. Sign(x) = 1 /\ Sign(c) = 1 /\ Magnitude(x) = x /\ Magnitude(c) = c
      BY DEF Sign, Magnitude
  <2> QED BY <2>1, <2>2 DEF TruncDiv
<1> QED BY <1>1, <1>2

LEMMA KeeperInit == Init => KeeperInv
<1> SUFFICES ASSUME Init PROVE KeeperInv
    OBVIOUS
<1>1. /\ BABYLON_START_EPOCH \in Nat /\ StartEpoch \in Nat /\ MaxEpoch \in Nat
      /\ BABYLON_START_EPOCH <= StartEpoch /\ StartEpoch <= MaxEpoch
      /\ \A v \in Validator : /\ InitialStake[v].lsu \in Nat \ {0} /\ InitialStake[v].xrd \in Nat
                              /\ InitialStake[v].xrd >= InitialStake[v].lsu
    BY ValidatorKeeperAssumption
<1>2. DOMAIN validator_map = {}
    BY DEF Init
<1>3. ASSUME NEW e \in BABYLON_START_EPOCH .. StartEpoch, NEW v \in Validator
      PROVE  /\ stake_at[e][v] = [lsu |-> InitialStake[v].lsu,
                                 xrd |-> InitialStake[v].xrd + (e - BABYLON_START_EPOCH)]
             /\ stake_at[e][v] \in [lsu : Nat, xrd : Nat] /\ stake_at[e][v].xrd > 0
  <2>1. stake_at[e][v] = [lsu |-> InitialStake[v].lsu,
                          xrd |-> InitialStake[v].xrd + (e - BABYLON_START_EPOCH)]
      BY DEF Init
  <2>2. e - BABYLON_START_EPOCH \in Nat
      BY <1>1
  <2> QED BY <1>1, <2>1, <2>2
<1>4. DOMAIN stake_at = BABYLON_START_EPOCH .. StartEpoch /\ epoch = StartEpoch /\ stakes = FALSE
    BY DEF Init
<1>5. \A e \in DOMAIN stake_at : stake_at[e] \in [Validator -> [lsu : Nat, xrd : Nat]]
  <2> SUFFICES ASSUME NEW e \in BABYLON_START_EPOCH .. StartEpoch
               PROVE  stake_at[e] \in [Validator -> [lsu : Nat, xrd : Nat]]
      BY <1>4
  <2> DEFINE initial(v) == [lsu |-> InitialStake[v].lsu,
                            xrd |-> InitialStake[v].xrd + (e - BABYLON_START_EPOCH)]
  <2>1. stake_at[e] = [v \in Validator |-> initial(v)]
      BY DEF Init
  <2>2. \A v \in Validator : initial(v) \in [lsu : Nat, xrd : Nat]
      BY <1>3
  <2> HIDE DEF initial
  <2> QED BY <2>1, <2>2
<1>6. epoch \in StartEpoch .. MaxEpoch
    BY <1>1, <1>4
<1>7. TypeOK
    BY <1>2, <1>4, <1>5, <1>6 DEF TypeOK
<1>8. Positive
    BY <1>3, <1>4 DEF Positive
<1>9. HistoriesOrdered
    BY <1>2 DEF HistoriesOrdered
<1> QED BY <1>7, <1>8, <1>9 DEF KeeperInv

LEMMA LogStep ==
    ASSUME KeeperInv, NEW add \in SUBSET Validator, NEW remove \in SUBSET Validator,
           LogValidatorStaking(add, remove)
    PROVE  KeeperInv' /\ PastKeptStep
<1> DEFINE remaining == DOMAIN validator_map \ remove
<1>1. TypeOK /\ HistoriesOrdered /\ DOMAIN validator_map \subseteq Validator
    BY DEF KeeperInv, TypeOK
<1>2. /\ DOMAIN validator_map' = remaining \cup add
      /\ \A v \in remaining : validator_map'[v] = Logged(v, validator_map[v])
      /\ \A v \in add \ remaining : validator_map'[v] = <<NewStakeData(v, epoch)>>
      /\ UNCHANGED <<stake_at, epoch, stakes>>
    BY DEF LogValidatorStaking
<1>3. \A v \in remaining : /\ Ordered(validator_map'[v], epoch)
                           /\ KeepsPast(validator_map[v], validator_map'[v], epoch)
    BY <1>1, <1>2, LoggedOrdered DEF HistoriesOrdered
<1>4. \A v \in add \ remaining : Ordered(validator_map'[v], epoch)
    BY <1>1, <1>2, Now, NewEntry, FreshOrdered
<1>5. \A v \in DOMAIN validator_map' : v \in remaining \/ v \in add \ remaining
    BY <1>2
<1>6. KeeperInv'
    BY <1>1, <1>2, <1>3, <1>4, <1>5, MapStep
<1> QED BY <1>2, <1>3, <1>5, <1>6 DEF PastKeptStep

LEMMA FillStep ==
    ASSUME KeeperInv, NEW v \in Validator, NEW n \in FillLengths, FillValidatorStaking(v, n)
    PROVE  KeeperInv' /\ PastKeptStep
<1> DEFINE h == [i \in 1 .. n |-> NewStakeData(v, epoch - (i - 1) * A_WEEK_EPOCHS)]
<1>1. TypeOK /\ HistoriesOrdered /\ DOMAIN validator_map \subseteq Validator
    BY DEF KeeperInv, TypeOK
<1>2. Ordered(h, epoch)
    BY <1>1, FilledOrdered DEF FillValidatorStaking
<1>3. validator_map' = Filled(v, h) /\ UNCHANGED <<stake_at, epoch, stakes>>
    BY DEF FillValidatorStaking
<1> HIDE DEF h
<1>4. /\ DOMAIN validator_map' = DOMAIN validator_map \cup {v}
      /\ \A w \in DOMAIN validator_map : validator_map'[w] = validator_map[w]
      /\ v \notin DOMAIN validator_map => validator_map'[v] = h
    BY <1>3 DEF Filled
<1>5. \A w \in DOMAIN validator_map' : Ordered(validator_map'[w], epoch)
    BY <1>1, <1>2, <1>4 DEF HistoriesOrdered
<1>6. KeeperInv'
    BY <1>1, <1>3, <1>4, <1>5, MapStep
<1> QED BY <1>4, <1>6, KeptWhole DEF PastKeptStep

LEMMA InsertStep ==
    ASSUME KeeperInv, NEW v \in DOMAIN validator_map, NEW e \in DOMAIN stake_at,
           NEW index \in Nat, Fits(validator_map[v], index, e),
           InsertValidatorStaking(v, index, e)
    PROVE  KeeperInv' /\ PastKeptStep
<1> DEFINE h == InsertAt(validator_map[v], index + 1, NewStakeData(v, e))
<1>1. /\ TypeOK /\ HistoriesOrdered /\ DOMAIN validator_map \subseteq Validator /\ v \in Validator
      /\ Ordered(validator_map[v], epoch)
    BY DEF KeeperInv, TypeOK, HistoriesOrdered
<1>2. /\ index <= Len(validator_map[v])
      /\ validator_map' = [validator_map EXCEPT ![v] = h]
      /\ UNCHANGED <<stake_at, epoch, stakes>>
    BY DEF InsertValidatorStaking
<1>3. Ordered(h, epoch) /\ KeepsPast(validator_map[v], h, epoch)
    BY <1>1, <1>2, InsertedOrdered
<1> HIDE DEF h
<1>4. /\ DOMAIN validator_map' = DOMAIN validator_map
      /\ \A w \in DOMAIN validator_map : validator_map'[w] = IF w = v THEN h ELSE validator_map[w]
    BY <1>2
<1>5. \A w \in DOMAIN validator_map' : Ordered(validator_map'[w], epoch)
    BY <1>1, <1>3, <1>4 DEF HistoriesOrdered
<1>6. KeeperInv'
    BY <1>1, <1>2, <1>4, <1>5, MapStep
<1> QED BY <1>3, <1>4, <1>6, KeptWhole DEF PastKeptStep

LEMMA StakeStep ==
    ASSUME KeeperInv, NEW v \in Validator, NEW amount \in Stakes, DelegatorsStake(v, amount)
    PROVE  KeeperInv' /\ PastKeptStep
<1> DEFINE lsu == TruncDiv(amount * stake[v].lsu, stake[v].xrd)
           s == [lsu |-> stake[v].lsu + lsu, xrd |-> stake[v].xrd + amount]
<1>1. TypeOK /\ Positive /\ HistoriesOrdered
    BY DEF KeeperInv
<1>2. epoch \in DOMAIN stake_at /\ DOMAIN stake_at = BABYLON_START_EPOCH .. epoch
    BY <1>1, Now DEF TypeOK
<1>3. stake[v] \in [lsu : Nat, xrd : Nat] /\ stake[v].xrd > 0 /\ amount \in Nat
    BY <1>1, <1>2, ValidatorKeeperAssumption DEF TypeOK, Positive, stake
<1>4. lsu \in Nat
    BY <1>3, Amounts
<1>5. /\ stake_at' = [stake_at EXCEPT ![epoch][v] = s] /\ stakes' = TRUE
      /\ UNCHANGED <<validator_map, epoch>>
    BY DEF DelegatorsStake, stake
<1> HIDE DEF lsu
<1>6. s \in [lsu : Nat, xrd : Nat] /\ s.xrd > 0
    BY <1>3, <1>4
<1> HIDE DEF s
<1>7. /\ DOMAIN stake_at' = DOMAIN stake_at
      /\ \A e \in DOMAIN stake_at : e # epoch => stake_at'[e] = stake_at[e]
      /\ stake_at'[epoch] = [stake_at[epoch] EXCEPT ![v] = s]
    BY <1>2, <1>5
<1>8. stake_at[epoch] \in [Validator -> [lsu : Nat, xrd : Nat]]
    BY <1>1, <1>2 DEF TypeOK
<1>9. /\ stake_at'[epoch] \in [Validator -> [lsu : Nat, xrd : Nat]]
      /\ \A w \in Validator : stake_at'[epoch][w] = IF w = v THEN s ELSE stake_at[epoch][w]
    BY <1>6, <1>7, <1>8
<1>10. TypeOK'
    BY <1>1, <1>2, <1>5, <1>7, <1>9 DEF TypeOK, StakeData
<1>11. Positive'
    BY <1>1, <1>2, <1>6, <1>7, <1>9 DEF Positive
<1>12. HistoriesOrdered'
    BY <1>1, <1>5 DEF HistoriesOrdered, Ordered, GetWeekIndex, StakeData
<1>13. PastKeptStep
    BY <1>5, KeptWhole DEF PastKeptStep
<1> QED BY <1>10, <1>11, <1>12, <1>13 DEF KeeperInv

LEMMA EpochStep ==
    ASSUME KeeperInv, NEW reward \in Rewards, NextEpoch(reward)
    PROVE  KeeperInv' /\ PastKeptStep
<1>1. TypeOK /\ Positive /\ HistoriesOrdered
    BY DEF KeeperInv
<1>2. /\ epoch \in DOMAIN stake_at /\ DOMAIN stake_at = BABYLON_START_EPOCH .. epoch
      /\ epoch \in StartEpoch .. MaxEpoch /\ reward \in Nat
      /\ BABYLON_START_EPOCH \in Nat /\ StartEpoch \in Nat /\ MaxEpoch \in Nat
    BY <1>1, Now, ValidatorKeeperAssumption DEF TypeOK
<1> DEFINE next == [v \in Validator |-> [stake[v] EXCEPT !.xrd = @ + DMul(@, reward)]]
<1>3. ASSUME NEW v \in Validator
      PROVE  /\ next[v] = [stake[v] EXCEPT !.xrd = @ + DMul(@, reward)]
             /\ next[v] \in [lsu : Nat, xrd : Nat] /\ next[v].xrd > 0
  <2>1. stake[v] \in [lsu : Nat, xrd : Nat] /\ stake[v].xrd > 0
      BY <1>1, <1>2 DEF TypeOK, Positive, stake
  <2>2. DMul(stake[v].xrd, reward) \in Nat
      BY <1>2, <2>1, Amounts, DecimalAssumption DEF DMul
  <2>3. next[v] = [stake[v] EXCEPT !.xrd = @ + DMul(@, reward)]
      OBVIOUS
  <2> HIDE DEF next
  <2> QED BY <2>1, <2>2, <2>3
<1>4. next \in [Validator -> [lsu : Nat, xrd : Nat]]
  <2>1. next = [v \in Validator |-> next[v]]
      OBVIOUS
  <2> HIDE DEF next
  <2> QED BY <1>3, <2>1
<1>5. /\ epoch < MaxEpoch /\ epoch' = epoch + 1 /\ stakes' = FALSE
      /\ validator_map' = validator_map
      /\ stake_at' = [e \in BABYLON_START_EPOCH .. (epoch + 1) |->
                         IF e <= epoch THEN stake_at[e] ELSE next]
    BY DEF NextEpoch
<1> HIDE DEF next
<1>6. /\ DOMAIN stake_at' = BABYLON_START_EPOCH .. epoch'
      /\ \A e \in DOMAIN stake_at' :
            stake_at'[e] = next \/ (e \in DOMAIN stake_at /\ stake_at'[e] = stake_at[e])
  <2>1. DOMAIN stake_at' = BABYLON_START_EPOCH .. epoch'
      BY <1>5
  <2>2. epoch \in Int
      BY <1>2
  <2>3. ASSUME NEW e \in BABYLON_START_EPOCH .. (epoch + 1)
        PROVE  stake_at'[e] = next \/ (e \in DOMAIN stake_at /\ stake_at'[e] = stake_at[e])
    <3>1. stake_at'[e] = IF e <= epoch THEN stake_at[e] ELSE next
        BY <1>5
    <3>2. e <= epoch => e \in DOMAIN stake_at
        BY <1>2, <2>2
    <3> QED BY <3>1, <3>2
  <2> QED BY <1>5, <2>1, <2>3
<1>7. TypeOK'
  <2>1. epoch' \in StartEpoch .. MaxEpoch
      BY <1>2, <1>5
  <2>2. \A e \in DOMAIN stake_at' : stake_at'[e] \in [Validator -> [lsu : Nat, xrd : Nat]]
      BY <1>1, <1>4, <1>6 DEF TypeOK
  <2>3. /\ DOMAIN validator_map' \subseteq Validator
        /\ \A v \in DOMAIN validator_map' :
              validator_map'[v] \in Seq(StakeData) /\ validator_map'[v] # << >>
      BY <1>1, <1>5 DEF TypeOK
  <2> QED BY <1>5, <1>6, <2>1, <2>2, <2>3 DEF TypeOK
<1>8. Positive'
    BY <1>1, <1>3, <1>6 DEF Positive
<1>9. HistoriesOrdered'
  <2> SUFFICES ASSUME NEW v \in DOMAIN validator_map, Ordered(validator_map[v], epoch)
               PROVE  Ordered(validator_map[v], epoch + 1)
      BY <1>1, <1>5 DEF HistoriesOrdered, Ordered, GetWeekIndex, StakeData
  <2>1. validator_map[v][1] \in StakeData
      BY DEF Ordered
  <2>2. validator_map[v][1].epoch_at \in Int
      BY <2>1, <1>2 DEF StakeData
  <2> QED BY <1>2, <2>2 DEF Ordered
<1>10. PastKeptStep
    BY <1>5, KeptWhole DEF PastKeptStep
<1> QED BY <1>7, <1>8, <1>9, <1>10 DEF KeeperInv

LEMMA KeeperStep ==
    ASSUME KeeperInv, [Next]_vars
    PROVE  KeeperInv' /\ (PastKeptStep \/ UNCHANGED vars)
<1>1. ASSUME NEW add \in SUBSET Validator, NEW remove \in SUBSET Validator,
             LogValidatorStaking(add, remove)
      PROVE  KeeperInv' /\ PastKeptStep
    BY <1>1, LogStep
<1>2. ASSUME NEW v \in Validator, NEW n \in FillLengths, FillValidatorStaking(v, n)
      PROVE  KeeperInv' /\ PastKeptStep
    BY <1>2, FillStep
<1>3. ASSUME NEW v \in DOMAIN validator_map, NEW e \in DOMAIN stake_at,
             NEW index \in 0 .. (MaxInserted - 1), Fits(validator_map[v], index, e),
             InsertValidatorStaking(v, index, e)
      PROVE  KeeperInv' /\ PastKeptStep
  <2>1. index \in Nat
      BY ValidatorKeeperAssumption
  <2> QED BY <1>3, <2>1, InsertStep
<1>4. ASSUME NEW v \in Validator, NEW amount \in Stakes, DelegatorsStake(v, amount)
      PROVE  KeeperInv' /\ PastKeptStep
    BY <1>4, StakeStep
<1>5. ASSUME NEW reward \in Rewards, NextEpoch(reward)
      PROVE  KeeperInv' /\ PastKeptStep
    BY <1>5, EpochStep
<1>6. CASE UNCHANGED vars
    BY <1>6 DEF vars, KeeperInv, TypeOK, Positive, HistoriesOrdered, Ordered, GetWeekIndex, StakeData
<1> QED BY <1>1, <1>2, <1>3, <1>4, <1>5, <1>6 DEF Next

LEMMA KeeperInvariant == Spec => []KeeperInv
<1>1. KeeperInv /\ [Next]_vars => KeeperInv'
    BY KeeperStep
<1> QED BY KeeperInit, <1>1, PTL DEF Spec

-----------------------------------------------------------------------------
(* What is recorded is the price of its epoch *)

\* Stake units are never fewer than at first.
StakesKept ==
    \A e \in DOMAIN stake_at, v \in Validator : stake_at[e][v].lsu >= InitialStake[v].lsu

RecordedPrice(d) == DDiv(d.last_staked, d.last_lsu)

\* The price of an entry is that at the end of its epoch but for a delegator who
\* staked after it was recorded; before, it is the ledger's.
EntryPriced(v, d) ==
    /\ d.epoch_at \in DOMAIN stake_at
    /\ d.last_lsu > 0
    /\ RecordedPrice(d) <= Price(stake_at[d.epoch_at][v])
    /\ Price(stake_at[d.epoch_at][v]) <= RecordedPrice(d) + PriceDust(v, d.epoch_at)
    /\ d.epoch_at = epoch /\ ~ stakes => d = NewStakeData(v, epoch)

PricesKept ==
    /\ StakesKept
    /\ \A v \in DOMAIN validator_map : \A d \in Range(validator_map[v]) : EntryPriced(v, d)

\* The stakes of a validator, and the price of its units.
LEMMA StakeFacts ==
    ASSUME KeeperInv, StakesKept, NEW v \in Validator, NEW e \in DOMAIN stake_at
    PROVE  /\ stake_at[e][v] \in [lsu : Nat, xrd : Nat]
           /\ stake_at[e][v].lsu \in Nat \ {0} /\ stake_at[e][v].xrd \in Nat \ {0}
           /\ InitialStake[v].lsu \in Nat \ {0} /\ InitialStake[v].lsu <= stake_at[e][v].lsu
           /\ Price(stake_at[e][v]) = DDiv(stake_at[e][v].xrd, stake_at[e][v].lsu)
           /\ Price(stake_at[e][v]) \in Nat
           /\ PriceDust(v, e) = 1 + Price(stake_at[e][v]) \div InitialStake[v].lsu
           /\ PriceDust(v, e) \in Nat
<1>1. stake_at[e][v] \in [lsu : Nat, xrd : Nat] /\ stake_at[e][v].xrd > 0
  BY DEF KeeperInv, TypeOK, Positive
<1>2. InitialStake[v].lsu \in Nat \ {0}
  BY ValidatorKeeperAssumption
<1>3. stake_at[e][v].lsu >= InitialStake[v].lsu
  BY DEF StakesKept
<1>4. stake_at[e][v].lsu \in Nat \ {0} /\ stake_at[e][v].xrd \in Nat \ {0}
  BY <1>1, <1>2, <1>3
<1>5. Price(stake_at[e][v]) = DDiv(stake_at[e][v].xrd, stake_at[e][v].lsu)
  BY DEF Price
<1>6. Price(stake_at[e][v]) \in Nat
  BY <1>4, <1>5, DDivNat
<1>7. Price(stake_at[e][v]) \div InitialStake[v].lsu \in Nat
  BY <1>2, <1>6, DivNat
<1> QED
  BY <1>1, <1>2, <1>3, <1>4, <1>5, <1>6, <1>7 DEF PriceDust

\* An entry read off the ledger has the price of its epoch.
LEMMA NewEntryPriced ==
    ASSUME KeeperInv, StakesKept, NEW v \in Validator, NEW e \in DOMAIN stake_at
    PROVE  EntryPriced(v, NewStakeData(v, e))
<1> DEFINE d == NewStakeData(v, e)
<1>1. /\ d.epoch_at = e /\ d.last_lsu = stake_at[e][v].lsu
      /\ d.last_staked = stake_at[e][v].xrd
  BY DEF NewStakeData
<1>2. e = epoch => d = NewStakeData(v, epoch)
  OBVIOUS
<1> HIDE DEF d
<1>3. RecordedPrice(d) = Price(stake_at[e][v])
  BY <1>1 DEF RecordedPrice, Price
<1>4. EntryPriced(v, d)
  BY <1>1, <1>2, <1>3, StakeFacts DEF EntryPriced
<1> QED
  BY <1>4 DEF d

\* A call of the keeper leaves entries as they are and brings some read off the
\* ledger.
LEMMA MapPriced ==
    ASSUME KeeperInv, PricesKept, UNCHANGED <<stake_at, epoch, stakes>>,
           DOMAIN validator_map' \subseteq Validator,
           \A v \in DOMAIN validator_map' : \A d \in Range(validator_map'[v]) :
               \/ v \in DOMAIN validator_map /\ d \in Range(validator_map[v])
               \/ \E e \in DOMAIN stake_at : d = NewStakeData(v, e)
    PROVE  PricesKept'
<1>1. ASSUME NEW v \in DOMAIN validator_map', NEW d \in Range(validator_map'[v])
      PROVE  EntryPriced(v, d)
  BY <1>1, NewEntryPriced DEF PricesKept
<1>2. ASSUME NEW v, NEW d, EntryPriced(v, d) PROVE EntryPriced(v, d)'
  BY <1>2 DEF EntryPriced, RecordedPrice, Price, PriceDust, NewStakeData
<1>3. StakesKept'
  BY DEF PricesKept, StakesKept
<1> QED
  BY <1>1, <1>2, <1>3 DEF PricesKept

LEMMA LoggedRange ==
    ASSUME KeeperInv, NEW v \in DOMAIN validator_map, NEW d \in Range(Logged(v, validator_map[v]))
    PROVE  d \in Range(validator_map[v]) \/ d = NewStakeData(v, epoch)
<1> DEFINE h == validator_map[v]
           new == NewStakeData(v, epoch)
<1>1. h \in Seq(StakeData) /\ h # << >>
  BY DEF KeeperInv, TypeOK
<1> HIDE DEF h, new
<1>2. CASE NewWeek(h)
  <2>1. Logged(v, h) = <<new>> \o h
    BY <1>2 DEF Logged, new
  <2>2. PICK i \in 1 .. (1 + Len(h)) : d = (<<new>> \o h)[i]
    BY <1>1, <2>1 DEF Range, h
  <2>3. d = IF i = 1 THEN new ELSE h[i - 1]
    BY <1>1, <2>2
  <2>4. i # 1 => i - 1 \in DOMAIN h
    BY <1>1
  <2> QED
    BY <2>3, <2>4 DEF Range, h, new
<1>3. CASE ~ NewWeek(h)
  <2>1. Logged(v, h) = [h EXCEPT ![1] = new]
    BY <1>3 DEF Logged, new
  <2>2. PICK i \in DOMAIN h : d = [h EXCEPT ![1] = new][i]
    BY <2>1 DEF Range, h
  <2> QED
    BY <2>2 DEF Range, h, new
<1> QED
  BY <1>2, <1>3

LEMMA InsertedRange ==
    ASSUME NEW h, NEW S, h \in Seq(S), NEW index \in Nat, index <= Len(h), NEW new,
           NEW d \in Range(InsertAt(h, index + 1, new))
    PROVE  d \in Range(h) \/ d = new
<1> DEFINE p == SubSeq(h, 1, index)
           q == SubSeq(h, index + 1, Len(h))
<1>1. InsertAt(h, index + 1, new) = p \o <<new>> \o q
  <2>1. (index + 1) - 1 = index
    OBVIOUS
  <2>2. InsertAt(h, index + 1, new)
          = SubSeq(h, 1, (index + 1) - 1) \o <<new>> \o SubSeq(h, index + 1, Len(h))
    BY Zenon DEF InsertAt
  <2> QED
    BY <2>1, <2>2
<1>2. Len(h) \in Nat /\ \A i \in 1 .. Len(h) : h[i] \in S /\ h[i] \in Range(h)
  BY DEF Range
<1>3. p \in Seq(Range(h)) /\ q \in Seq(Range(h))
  <2>1. p \in Seq(Range(h))
    <3>1. \A i \in 1 .. index : h[i] \in Range(h)
      BY <1>2
    <3> QED
      BY <3>1, SubSeqProperties
  <2>2. q \in Seq(Range(h))
    <3>1. \A i \in (index + 1) .. Len(h) : h[i] \in Range(h)
      BY <1>2
    <3> QED
      BY <1>2, <3>1, SubSeqProperties
  <2> QED
    BY <2>1, <2>2
<1> HIDE DEF p, q
<1> DEFINE T == Range(h) \cup {new}
<1>4. p \o <<new>> \o q \in Seq(T)
  <2>1. p \in Seq(T) /\ q \in Seq(T) /\ <<new>> \in Seq(T)
    BY <1>3
  <2> HIDE DEF T
  <2> QED
    BY <2>1
<1>5. d \in T
  <2> DEFINE s == InsertAt(h, index + 1, new)
  <2>1. s \in Seq(T)
    BY <1>1, <1>4
  <2>2. PICK i \in DOMAIN s : d = s[i]
    BY DEF Range
  <2> HIDE DEF T, s
  <2>3. s[i] \in T
    BY <2>1, <2>2
  <2> QED
    BY <2>2, <2>3
<1> QED
  BY <1>5

LEMMA LogPriced ==
    ASSUME KeeperInv, PricesKept, NEW add \in SUBSET Validator, NEW remove \in SUBSET Validator,
           LogValidatorStaking(add, remove)
    PROVE  PricesKept'
<1> DEFINE remaining == DOMAIN validator_map \ remove
<1>1. epoch \in DOMAIN stake_at /\ DOMAIN validator_map \subseteq Validator
  BY Now DEF KeeperInv, TypeOK
<1>2. /\ DOMAIN validator_map' = remaining \cup add
      /\ \A v \in remaining : validator_map'[v] = Logged(v, validator_map[v])
      /\ \A v \in add \ remaining : validator_map'[v] = <<NewStakeData(v, epoch)>>
      /\ UNCHANGED <<stake_at, epoch, stakes>>
  BY DEF LogValidatorStaking
<1>3. ASSUME NEW v \in DOMAIN validator_map', NEW d \in Range(validator_map'[v])
      PROVE  \/ v \in DOMAIN validator_map /\ d \in Range(validator_map[v])
             \/ d = NewStakeData(v, epoch)
  <2>1. CASE v \in remaining
    BY <1>2, <1>3, <2>1, LoggedRange
  <2>2. CASE v \in add \ remaining
    <3>1. d \in Range(<<NewStakeData(v, epoch)>>)
      BY <1>2, <1>3, <2>2
    <3> QED
      BY <3>1 DEF Range
  <2> QED
    BY <1>2, <1>3, <2>1, <2>2
<1> QED
  BY <1>1, <1>2, <1>3, MapPriced

LEMMA FillPriced ==
    ASSUME KeeperInv, PricesKept, NEW v \in Validator, NEW n \in FillLengths,
           FillValidatorStaking(v, n)
    PROVE  PricesKept'
<1> DEFINE h == [i \in 1 .. n |-> NewStakeData(v, epoch - (i - 1) * A_WEEK_EPOCHS)]
<1>1. /\ n \in Nat \ {0} /\ epoch \in Nat /\ DOMAIN stake_at = BABYLON_START_EPOCH .. epoch
      /\ DOMAIN validator_map \subseteq Validator
  BY Now, ValidatorKeeperAssumption DEF KeeperInv, TypeOK
<1>2. /\ epoch - (n - 1) * A_WEEK_EPOCHS >= BABYLON_START_EPOCH
      /\ validator_map' = Filled(v, h) /\ UNCHANGED <<stake_at, epoch, stakes>>
  BY DEF FillValidatorStaking
<1>3. ASSUME NEW d \in Range(h)
      PROVE  \E e \in DOMAIN stake_at : d = NewStakeData(v, e)
  <2>1. PICK i \in 1 .. n : d = NewStakeData(v, epoch - (i - 1) * A_WEEK_EPOCHS)
    BY <1>3 DEF Range
  <2>2. epoch - (i - 1) * A_WEEK_EPOCHS \in DOMAIN stake_at
    BY <1>1, <1>2, WeeksBefore
  <2> QED
    BY <2>1, <2>2
<1> HIDE DEF h
<1>4. /\ DOMAIN validator_map' = DOMAIN validator_map \cup {v}
      /\ \A w \in DOMAIN validator_map : validator_map'[w] = validator_map[w]
      /\ v \notin DOMAIN validator_map => validator_map'[v] = h
  BY <1>2 DEF Filled
<1>5. ASSUME NEW w \in DOMAIN validator_map', NEW d \in Range(validator_map'[w])
      PROVE  \/ w \in DOMAIN validator_map /\ d \in Range(validator_map[w])
             \/ \E e \in DOMAIN stake_at : d = NewStakeData(w, e)
  <2>1. CASE w \in DOMAIN validator_map
    BY <1>4, <1>5, <2>1
  <2>2. CASE w \notin DOMAIN validator_map
    <3>1. w = v /\ d \in Range(h)
      BY <1>4, <1>5, <2>2
    <3> QED
      BY <1>3, <3>1
  <2> QED
    BY <2>1, <2>2
<1>6. DOMAIN validator_map' \subseteq Validator
  BY <1>1, <1>4
<1> QED
  BY <1>2, <1>5, <1>6, MapPriced

LEMMA InsertPriced ==
    ASSUME KeeperInv, PricesKept, NEW v \in DOMAIN validator_map, NEW e \in DOMAIN stake_at,
           NEW index \in Nat, InsertValidatorStaking(v, index, e)
    PROVE  PricesKept'
<1> DEFINE new == NewStakeData(v, e)
           h == InsertAt(validator_map[v], index + 1, new)
<1>1. DOMAIN validator_map \subseteq Validator /\ validator_map[v] \in Seq(StakeData)
  BY DEF KeeperInv, TypeOK
<1>2. /\ index <= Len(validator_map[v])
      /\ validator_map' = [validator_map EXCEPT ![v] = h]
      /\ UNCHANGED <<stake_at, epoch, stakes>>
  BY DEF InsertValidatorStaking
<1>3. \A d \in Range(h) : d \in Range(validator_map[v]) \/ d = new
  <2> HIDE DEF new
  <2> QED
    BY <1>1, <1>2, InsertedRange
<1> HIDE DEF h
<1>4. /\ DOMAIN validator_map' = DOMAIN validator_map
      /\ \A w \in DOMAIN validator_map : validator_map'[w] = IF w = v THEN h ELSE validator_map[w]
  BY <1>2
<1>5. ASSUME NEW w \in DOMAIN validator_map', NEW d \in Range(validator_map'[w])
      PROVE  \/ w \in DOMAIN validator_map /\ d \in Range(validator_map[w])
             \/ \E x \in DOMAIN stake_at : d = NewStakeData(w, x)
  BY <1>3, <1>4, <1>5
<1> QED
  BY <1>1, <1>2, <1>4, <1>5, MapPriced

LEMMA StakePriced ==
    ASSUME KeeperInv, PricesKept, NEW v \in Validator, NEW amount \in Stakes,
           DelegatorsStake(v, amount)
    PROVE  PricesKept'
<1> DEFINE before == stake_at[epoch][v]
           minted == TruncDiv(amount * before.lsu, before.xrd)
           after == [lsu |-> before.lsu + minted, xrd |-> before.xrd + amount]
           floor == InitialStake[v].lsu
<1>1. StakesKept /\ epoch \in DOMAIN stake_at /\ amount \in Nat
  BY Now, ValidatorKeeperAssumption DEF KeeperInv, PricesKept
<1>2. /\ before.lsu \in Nat \ {0} /\ before.xrd \in Nat \ {0}
      /\ floor \in Nat \ {0} /\ floor <= before.lsu
      /\ Price(before) = DDiv(before.xrd, before.lsu)
  BY <1>1, StakeFacts
<1>3. /\ ~ stakes /\ stakes' = TRUE /\ UNCHANGED <<validator_map, epoch>>
      /\ stake_at' = [stake_at EXCEPT ![epoch][v] = after]
  BY DEF DelegatorsStake, stake
<1>4. minted \in Nat /\ minted = (amount * before.lsu) \div before.xrd
  <2>1. amount * before.lsu \in Nat
    BY <1>1, <1>2
  <2> QED
    BY <1>2, <2>1, TruncDivNat, DivNat
<1>5. stake_at[epoch] \in [Validator -> [lsu : Nat, xrd : Nat]]
  BY <1>1 DEF KeeperInv, TypeOK
<1>6. /\ Price(before) <= Price(after)
      /\ Price(after) <= Price(before) + 1 + Price(after) \div floor
  <2>1. after.lsu = before.lsu + minted /\ after.xrd = before.xrd + amount
    OBVIOUS
  <2> HIDE DEF after, minted, before, floor
  <2>2. /\ DDiv(before.xrd, before.lsu) <= DDiv(before.xrd + amount, before.lsu + minted)
        /\ DDiv(before.xrd + amount, before.lsu + minted)
             <= DDiv(before.xrd, before.lsu) + 1
                  + DDiv(before.xrd + amount, before.lsu + minted) \div floor
    BY <1>1, <1>2, <1>4, PriceAfterStaking
  <2> QED
    BY <1>2, <2>1, <2>2 DEF Price
<1>7. after.lsu \in Nat /\ after.lsu >= floor /\ Price(after) \in Nat /\ Price(before) \in Nat
      /\ Price(after) \div floor \in Nat
  <2>1. after.lsu \in Nat \ {0} /\ after.xrd \in Nat /\ after.lsu >= floor
    <3> HIDE DEF minted, before, floor
    <3> QED
      BY <1>1, <1>2, <1>4
  <2>2. Price(after) \in Nat /\ Price(before) \in Nat
    <3> HIDE DEF after, before
    <3> QED
      BY <1>2, <2>1, DDivNat DEF Price
  <2>3. Price(after) \div floor \in Nat
    <3> HIDE DEF after, before, floor
    <3> QED
      BY <1>2, <2>2, DivNat
  <2> QED
    BY <2>1, <2>2, <2>3
<1> HIDE DEF after, minted, floor
<1>8. /\ DOMAIN stake_at' = DOMAIN stake_at
      /\ \A e \in DOMAIN stake_at, w \in Validator :
            stake_at'[e][w] = IF e = epoch /\ w = v THEN after ELSE stake_at[e][w]
  BY <1>1, <1>3, <1>5
<1>9. StakesKept'
  BY <1>1, <1>7, <1>8 DEF StakesKept, floor
<1>10. ASSUME NEW w \in DOMAIN validator_map, NEW d \in Range(validator_map[w])
       PROVE  EntryPriced(w, d)'
  <2>1. EntryPriced(w, d) /\ w \in Validator
    BY DEF PricesKept, KeeperInv, TypeOK
  <2>2. CASE d.epoch_at = epoch /\ w = v
    <3>1. d = NewStakeData(v, epoch)
      BY <1>3, <2>1, <2>2 DEF EntryPriced
    <3>2. RecordedPrice(d) = Price(before) /\ d.last_lsu = before.lsu
      BY <3>1 DEF RecordedPrice, NewStakeData, Price
    <3>3. stake_at'[epoch][v] = after
      BY <1>1, <1>8
    <3>4. PriceDust(v, epoch)' = 1 + Price(after) \div floor
      BY <1>3, <3>3 DEF PriceDust, Price, floor
    <3>5. Price(after) <= Price(before) + (1 + Price(after) \div floor)
      BY <1>6, <1>7
    <3> HIDE DEF before
    <3>6. /\ RecordedPrice(d)' = RecordedPrice(d)
          /\ Price(stake_at[d.epoch_at][v])' = Price(after)
          /\ PriceDust(v, d.epoch_at)' = 1 + Price(after) \div floor
      BY <1>3, <2>2, <3>3, <3>4 DEF RecordedPrice, Price
    <3> QED
      BY <1>2, <1>3, <1>6, <1>8, <2>1, <2>2, <3>2, <3>5, <3>6 DEF EntryPriced
  <2>3. CASE ~ (d.epoch_at = epoch /\ w = v)
    <3>1. d.epoch_at \in DOMAIN stake_at
      BY <2>1 DEF EntryPriced
    <3>2. stake_at'[d.epoch_at][w] = stake_at[d.epoch_at][w]
      BY <1>8, <2>1, <2>3, <3>1
    <3> QED
      BY <1>3, <1>8, <2>1, <3>2 DEF EntryPriced, RecordedPrice, Price, PriceDust
  <2> QED
    BY <2>2, <2>3
<1> QED
  BY <1>3, <1>9, <1>10 DEF PricesKept

LEMMA EpochPriced ==
    ASSUME KeeperInv, PricesKept, NEW reward \in Rewards, NextEpoch(reward)
    PROVE  PricesKept'
<1>1. /\ StakesKept /\ epoch \in DOMAIN stake_at /\ epoch \in Nat
      /\ DOMAIN stake_at = BABYLON_START_EPOCH .. epoch /\ BABYLON_START_EPOCH \in Nat
      /\ DOMAIN validator_map \subseteq Validator
  BY Now, ValidatorKeeperAssumption DEF KeeperInv, PricesKept, TypeOK
<1> DEFINE next == [v \in Validator |-> [stake[v] EXCEPT !.xrd = @ + DMul(@, reward)]]
<1>2. \A v \in Validator : next[v].lsu = stake_at[epoch][v].lsu
  <2> SUFFICES ASSUME NEW v \in Validator PROVE next[v].lsu = stake_at[epoch][v].lsu
    OBVIOUS
  <2>1. stake[v] \in [lsu : Nat, xrd : Nat]
    BY <1>1, StakeFacts DEF stake
  <2> QED
    BY <2>1 DEF stake
<1>3. /\ epoch' = epoch + 1 /\ UNCHANGED validator_map
      /\ stake_at' = [e \in BABYLON_START_EPOCH .. (epoch + 1) |->
                         IF e <= epoch THEN stake_at[e] ELSE next]
  BY DEF NextEpoch
<1> HIDE DEF next
<1>4. /\ \A e \in DOMAIN stake_at : e \in DOMAIN stake_at' /\ stake_at'[e] = stake_at[e] /\ e # epoch'
      /\ \A e \in DOMAIN stake_at' :
            stake_at'[e] = next \/ (e \in DOMAIN stake_at /\ stake_at'[e] = stake_at[e])
  <2>1. ASSUME NEW e \in BABYLON_START_EPOCH .. (epoch + 1)
        PROVE  stake_at'[e] = next \/ (e \in DOMAIN stake_at /\ stake_at'[e] = stake_at[e])
    <3>1. stake_at'[e] = IF e <= epoch THEN stake_at[e] ELSE next
      BY <1>3
    <3>2. e <= epoch => e \in DOMAIN stake_at
      BY <1>1
    <3> QED
      BY <3>1, <3>2
  <2>2. ASSUME NEW e \in BABYLON_START_EPOCH .. epoch
        PROVE  e \in DOMAIN stake_at' /\ stake_at'[e] = stake_at[e] /\ e # epoch'
    BY <1>1, <1>3
  <2> QED
    BY <1>1, <1>3, <2>1, <2>2
<1>5. StakesKept'
  BY <1>1, <1>2, <1>4 DEF StakesKept
<1>6. ASSUME NEW v \in DOMAIN validator_map, NEW d \in Range(validator_map[v])
      PROVE  EntryPriced(v, d)'
  <2>1. EntryPriced(v, d) /\ d.epoch_at \in DOMAIN stake_at
    BY DEF PricesKept, EntryPriced
  <2>2. /\ d.epoch_at \in DOMAIN stake_at' /\ d.epoch_at # epoch'
        /\ stake_at'[d.epoch_at] = stake_at[d.epoch_at]
    BY <1>4, <2>1
  <2> QED
    BY <2>1, <2>2 DEF EntryPriced, RecordedPrice, Price, PriceDust
<1> QED
  BY <1>3, <1>5, <1>6 DEF PricesKept

LEMMA PricesInit == Init => PricesKept
<1> SUFFICES ASSUME Init PROVE PricesKept
  OBVIOUS
<1>1. DOMAIN validator_map = {}
  BY DEF Init
<1>2. ASSUME NEW e \in DOMAIN stake_at, NEW v \in Validator
      PROVE  stake_at[e][v].lsu >= InitialStake[v].lsu
  <2>1. stake_at[e][v].lsu = InitialStake[v].lsu
    BY DEF Init
  <2> QED
    BY <2>1, ValidatorKeeperAssumption
<1> QED
  BY <1>1, <1>2 DEF PricesKept, StakesKept

LEMMA PricesStep ==
    ASSUME KeeperInv, PricesKept, [Next]_vars
    PROVE  PricesKept'
<1>1. ASSUME NEW add \in SUBSET Validator, NEW remove \in SUBSET Validator,
             LogValidatorStaking(add, remove)
      PROVE  PricesKept'
  BY <1>1, LogPriced
<1>2. ASSUME NEW v \in Validator, NEW n \in FillLengths, FillValidatorStaking(v, n)
      PROVE  PricesKept'
  BY <1>2, FillPriced
<1>3. ASSUME NEW v \in DOMAIN validator_map, NEW e \in DOMAIN stake_at,
             NEW index \in 0 .. (MaxInserted - 1), InsertValidatorStaking(v, index, e)
      PROVE  PricesKept'
  <2>1. index \in Nat
    BY ValidatorKeeperAssumption
  <2> QED
    BY <1>3, <2>1, InsertPriced
<1>4. ASSUME NEW v \in Validator, NEW amount \in Stakes, DelegatorsStake(v, amount)
      PROVE  PricesKept'
  BY <1>4, StakePriced
<1>5. ASSUME NEW reward \in Rewards, NextEpoch(reward)
      PROVE  PricesKept'
  BY <1>5, EpochPriced
<1>6. CASE UNCHANGED vars
  <2>1. UNCHANGED <<validator_map, stake_at, epoch, stakes>>
    BY <1>6 DEF vars
  <2>2. ASSUME NEW v \in DOMAIN validator_map, NEW d \in Range(validator_map[v])
        PROVE  EntryPriced(v, d)'
    <3>1. EntryPriced(v, d)
      BY DEF PricesKept
    <3> QED
      BY <2>1, <3>1 DEF EntryPriced, RecordedPrice, Price, PriceDust, NewStakeData
  <2>3. StakesKept'
    BY <2>1 DEF PricesKept, StakesKept
  <2> QED
    BY <2>1, <2>2, <2>3 DEF PricesKept
<1> QED
  BY <1>1, <1>2, <1>3, <1>4, <1>5, <1>6 DEF Next

LEMMA PricesInvariant == Spec => [](KeeperInv /\ PricesKept)
<1>1. Init => KeeperInv /\ PricesKept
  BY KeeperInit, PricesInit
<1>2. KeeperInv /\ PricesKept /\ [Next]_vars => (KeeperInv /\ PricesKept)'
  BY KeeperStep, PricesStep
<1> QED
  BY <1>1, <1>2, PTL DEF Spec

-----------------------------------------------------------------------------
(* What is reported is the growth *)

\* The rate computed from an entry whose price is a little below that of its
\* epoch.
LEMMA RateNear ==
    ASSUME NEW now \in Int, NEW recorded \in Int, NEW ended \in Int, NEW dust \in Int,
           recorded <= ended, ended <= recorded + dust, NEW years \in Nat, NEW n \in Nat \ {0}
    PROVE  LET rate == TruncDiv((now - recorded) * years, n)
           IN  /\ rate \in Int
               /\ Magnitude(rate * n - (now - ended) * years) <= years * dust + n
<1> DEFINE x == (now - recorded) * years
           rate == TruncDiv(x, n)
           earned == (now - ended) * years
<1>1. x \in Int
  OBVIOUS
<1>2. rate \in Int /\ x - n < rate * n /\ rate * n < x + n
  <2> HIDE DEF x
  <2> QED
    BY <1>1, TruncDivNear
<1>3. earned <= x /\ x <= earned + years * dust /\ earned \in Int /\ years * dust \in Int
  <2> DEFINE gap == ended - recorded
  <2>1. x = earned + years * gap
    OBVIOUS
  <2>2. gap \in Nat /\ gap <= dust
    OBVIOUS
  <2>3. \A a, b \in Int : a <= b => years * a <= years * b
    OBVIOUS
  <2>4. years * 0 = 0
    OBVIOUS
  <2>5. 0 <= years * gap /\ years * gap <= years * dust
    <3> HIDE DEF gap
    <3>1. 0 \in Int /\ gap \in Int /\ 0 <= gap
      BY <2>2
    <3> QED
      BY <2>2, <2>3, <2>4, <3>1
  <2>6. earned \in Int /\ years * gap \in Int /\ years * dust \in Int
    OBVIOUS
  <2> HIDE DEF x, earned, gap
  <2> QED
    BY <2>1, <2>5, <2>6
<1> HIDE DEF x, earned, rate
<1>4. rate * n \in Int
  BY <1>2
<1> DEFINE y == rate * n - earned
<1>5. -n <= y /\ y <= years * dust + n /\ y \in Int
  BY <1>1, <1>2, <1>3, <1>4
<1>6. 0 <= years * dust
  BY <1>1, <1>3
<1>7. Magnitude(y) <= years * dust + n
  <2> HIDE DEF y
  <2> QED
    BY <1>3, <1>5, <1>6 DEF Magnitude
<1> QED
  BY <1>2, <1>7 DEF x, earned, rate

\* One validator's report.
LEMMA ReportedGrowth ==
    ASSUME KeeperInv, PricesKept, NEW v \in DOMAIN validator_map, HasApy(v)
    PROVE  LET since  == validator_map[v][2].epoch_at
               earned == (Price(stake[v]) - Price(stake_at[since][v])) * EPOCH_OF_YEAR
           IN  /\ GetValidatorApy(v) \in Int
               /\ Magnitude(GetValidatorApy(v) * (epoch - since) - earned)
                    <= EPOCH_OF_YEAR * PriceDust(v, since) + (epoch - since)
<1> DEFINE h == validator_map[v]
           d == h[2]
           since == d.epoch_at
<1>1. /\ v \in Validator /\ Ordered(h, epoch) /\ Len(h) >= 2 /\ h \in Seq(StakeData)
      /\ h[1] \in StakeData /\ d \in StakeData /\ d \in Range(h)
  <2>1. v \in Validator /\ Ordered(h, epoch) /\ Len(h) >= 2 /\ h \in Seq(StakeData)
    BY DEF KeeperInv, TypeOK, HistoriesOrdered, Ordered, HasApy
  <2>2. 1 \in DOMAIN h /\ 2 \in DOMAIN h
    BY <2>1
  <2> HIDE DEF h
  <2> QED
    BY <2>1, <2>2 DEF Range
<1>2. since \in Nat /\ epoch \in Nat /\ since < epoch
  <2>1. GetWeekIndex(h[1].epoch_at) > GetWeekIndex(h[2].epoch_at) /\ h[1].epoch_at <= epoch
    <3>1. 1 \in 1 .. (Len(h) - 1)
      BY <1>1
    <3>2. GetWeekIndex(h[1].epoch_at) > GetWeekIndex(h[1 + 1].epoch_at)
      BY <1>1, <3>1 DEF Ordered
    <3> QED
      BY <1>1, <3>2 DEF Ordered
  <2>2. /\ epoch \in Nat /\ since \in Nat /\ h[1].epoch_at \in Nat
        /\ GetWeekIndex(since) \in Nat /\ GetWeekIndex(h[1].epoch_at) \in Nat
    BY <1>1, Now DEF KeeperInv
  <2>3. BABYLON_START_EPOCH <= h[1].epoch_at
    BY <1>1, <2>2, ValidatorKeeperAssumption DEF StakeData
  <2>4. ASSUME h[1].epoch_at <= since PROVE FALSE
    <3>1. GetWeekIndex(h[1].epoch_at) <= GetWeekIndex(since)
      BY <2>2, <2>3, <2>4, WeekMonotone
    <3> QED
      BY <2>1, <2>2, <3>1
  <2> QED
    BY <2>1, <2>2, <2>4
<1>3. EntryPriced(v, d) /\ StakesKept
  BY <1>1 DEF PricesKept
<1>4. since \in DOMAIN stake_at /\ epoch \in DOMAIN stake_at
  BY <1>3, Now DEF KeeperInv, EntryPriced
<1>5. /\ RecordedPrice(d) <= Price(stake_at[since][v])
      /\ Price(stake_at[since][v]) <= RecordedPrice(d) + PriceDust(v, since)
      /\ RecordedPrice(d) \in Nat
      /\ d.last_lsu > 0 /\ d.last_lsu \in Nat /\ d.last_staked \in Nat
  <2>1. d.last_lsu \in Nat /\ d.last_staked \in Nat /\ d.last_lsu > 0
    BY <1>1, <1>3 DEF StakeData, EntryPriced
  <2>2. RecordedPrice(d) \in Nat
    <3>1. d.last_lsu \in Nat \ {0}
      BY <2>1
    <3> HIDE DEF d
    <3> QED
      BY <2>1, <3>1, DDivNat DEF RecordedPrice
  <2> QED
    BY <1>3, <2>1, <2>2 DEF EntryPriced
<1>6. /\ Price(stake_at[since][v]) \in Nat /\ PriceDust(v, since) \in Nat
      /\ Price(stake[v]) \in Nat
  BY <1>1, <1>3, <1>4, StakeFacts DEF stake
<1>7. GetValidatorApy(v)
        = TruncDiv((Price(stake[v]) - RecordedPrice(d)) * EPOCH_OF_YEAR, epoch - since)
  BY DEF GetValidatorApy, RecordedPrice
<1> DEFINE now == Price(stake[v])
           ended == Price(stake_at[since][v])
           recorded == RecordedPrice(d)
           dust == PriceDust(v, since)
           n == epoch - since
<1>8. n \in Nat \ {0} /\ EPOCH_OF_YEAR \in Nat
  BY <1>2, DecimalAssumption
<1>9. now \in Int /\ ended \in Int /\ recorded \in Int /\ dust \in Int
      /\ recorded <= ended /\ ended <= recorded + dust
  BY <1>5, <1>6
<1>10. GetValidatorApy(v) = TruncDiv((now - recorded) * EPOCH_OF_YEAR, n)
  BY <1>7
<1>11. /\ GetValidatorApy(v) \in Int
       /\ Magnitude(GetValidatorApy(v) * n - (now - ended) * EPOCH_OF_YEAR)
            <= EPOCH_OF_YEAR * dust + n
  <2> HIDE DEF now, ended, recorded, dust, n
  <2> DEFINE rate == TruncDiv((now - recorded) * EPOCH_OF_YEAR, n)
  <2>1. /\ rate \in Int
        /\ Magnitude(rate * n - (now - ended) * EPOCH_OF_YEAR) <= EPOCH_OF_YEAR * dust + n
    BY <1>8, <1>9, RateNear
  <2> QED
    BY <1>10, <2>1
<1> QED
  BY <1>11

\* Histories are never empty and their epochs are of the past, for any calls and bounds.
THEOREM KeeperType == Spec => []TypeOK
<1>1. KeeperInv => TypeOK
    BY DEF KeeperInv
<1> QED BY KeeperInvariant, <1>1, PTL

\* A validator has one entry a week, newest first, however late, often or repeatedly the
\* histories are logged, filled, repaired and dropped: the period get_validator_apy
\* divides by is positive.
THEOREM KeeperOrdered == Spec => []HistoryOrdered
<1>1. KeeperInv => HistoryOrdered
    BY DEF KeeperInv, HistoriesOrdered, Ordered, HistoryOrdered
<1> QED BY KeeperInvariant, <1>1, PTL

\* No call rewrites an entry of a week that is over, unless it drops the validator's history
\* and starts it anew.
THEOREM KeeperPast == Spec => PastKept
<1> DEFINE Past ==
        \A v \in DOMAIN validator_map \cap DOMAIN validator_map' :
            \/ validator_map'[v] = <<NewStakeData(v, epoch)>>
            \/ \A d \in Range(validator_map[v]) :
                  GetWeekIndex(d.epoch_at) < GetWeekIndex(epoch)
                    => d \in Range(validator_map'[v])
<1>1. KeeperInv /\ [Next]_vars => [Past]_vars
    BY KeeperStep DEF PastKeptStep, KeepsPast
<1>2. Spec => [][Past]_vars
    BY KeeperInvariant, <1>1, PTL DEF Spec
<1> QED BY <1>2 DEF PastKept

\* The return reported for a validator is the growth of the price of its stake
\* units over the epochs since its second entry, by the year, up to the rounding
\* of the stake units a delegator gets, whatever was logged, filled, inserted or
\* dropped when; that of the active set lies between the least and the greatest
\* of the validators that have one.
THEOREM KeeperGrowth == Spec => []ApyIsGrowth
<1>1. ASSUME KeeperInv, PricesKept PROVE ApyIsGrowth
  <2> DEFINE reported == {v \in DOMAIN validator_map : HasApy(v)}
             rate == [v \in reported |-> GetValidatorApy(v)]
             apys == {GetValidatorApy(v) : v \in reported}
  <2>1. \A v \in reported : GetValidatorApy(v) \in Int
    BY <1>1, ReportedGrowth
  <2>2. ASSUME apys # {}
        PROVE  Min(apys) <= GetActiveSetApy /\ GetActiveSetApy <= Max(apys)
    <3>1. reported # {}
      BY <2>2
    <3>2. IsFiniteSet(reported)
      BY <1>1, ValidatorKeeperAssumption, FS_Subset DEF KeeperInv, TypeOK
    <3>3. DOMAIN rate = reported /\ (\A v \in reported : rate[v] = GetValidatorApy(v))
          /\ (\A v \in reported : rate[v] \in Int)
      BY <2>1
    <3>4. apys = {rate[v] : v \in reported}
      OBVIOUS
    <3>5. GetActiveSetApy = TruncDiv(SumFunction(rate), Cardinality(reported))
      BY <3>1 DEF GetActiveSetApy
    <3> HIDE DEF rate, reported, apys
    <3>6. /\ Min({rate[v] : v \in reported}) <= TruncDiv(SumFunction(rate), Cardinality(reported))
          /\ TruncDiv(SumFunction(rate), Cardinality(reported)) <= Max({rate[v] : v \in reported})
      BY <3>1, <3>2, <3>3, MeanBetween
    <3> QED
      BY <3>4, <3>5, <3>6
  <2> QED
    BY <1>1, <2>2, ReportedGrowth DEF ApyIsGrowth
<1> QED
  BY PricesInvariant, <1>1, PTL
=============================================================================
