--------------------------- MODULE MeasurementProofs ---------------------------
(***************************************************************************)
(* The times that main prints are right, and so is the text, for a counter *)
(* of any width, a FIFO of any depth, and lines of any length.  TimerInv   *)
(* has what the timer shows; MeasureInv takes a measurement access by      *)
(* access; UartInv says where there is room for a character.               *)
(***************************************************************************)
EXTENDS Measurement, TLAPS

USE MeasurementAssumption

(* Halves of a counter. *)
LEMMA FullFacts == Full \in Nat /\ Full + 1 = Half * Half /\ Full + 1 \in Nat \ {0}
  <1>1. Half * Half \in Nat /\ Half * Half >= 1
    OBVIOUS
  <1> QED BY <1>1 DEF Full

LEMMA JoinedHalves ==
  ASSUME NEW h \in 0..(Half - 1), NEW l \in 0..(Half - 1)
  PROVE  h * Half + l \in 0..Full
  <1>1. (Half - 1 - h) * Half \in Nat /\ h * Half \in Nat
    OBVIOUS
  <1>2. (Half - 1 - h) * Half = Half * Half - Half - h * Half
    OBVIOUS
  <1>3. Half * Half \in Int
    OBVIOUS
  <1> QED BY <1>1, <1>2, <1>3 DEF Full

LEMMA AllOnes ==
  ASSUME NEW h, NEW l, h = Half - 1, l = Half - 1
  PROVE  h * Half + l = Full
  <1>1. (Half - 1) * Half + (Half - 1) = Half * Half - 1
    OBVIOUS
  <1> QED BY <1>1 DEF Full

LEMMA SplitHalves ==
  ASSUME NEW v \in 0..Full
  PROVE  /\ v \div Half \in 0..(Half - 1) /\ v % Half \in 0..(Half - 1)
         /\ ((v \div Half) * Half) + (v % Half) = v
  <1>1. v \in Nat
    BY FullFacts
  <1>2. v \div Half \in Int /\ v % Half \in 0..(Half - 1) /\ ((v \div Half) * Half) + (v % Half) = v
    BY <1>1
  <1>3. v \div Half >= 0
    BY <1>1
  <1>4. ASSUME v \div Half >= Half PROVE FALSE
    <2>1. (v \div Half) * Half >= Half * Half
      BY <1>2, <1>4
    <2> QED BY <1>2, <2>1, FullFacts
  <1> QED BY <1>2, <1>3, <1>4

LEMMA Residue ==
  ASSUME NEW n \in Nat \ {0}, NEW v \in Int
  PROVE  v % n \in 0..(n - 1) /\ (v \in 0..(n - 1) => v % n = v)
  OBVIOUS
-----------------------------------------------------------------------------
(* The accesses of main, by their places. *)
Ops == {"stop", "periodl", "periodh", "start", "snap", "snapl", "snaph1",
        "snaph2", "control", "data"}

LEMMA PrintfIs ==
  ASSUME NEW k \in Nat
  PROVE  /\ Printf(k) \in Seq(Ops) /\ Len(Printf(k)) = 2 * k
         /\ \A i \in 1..(2 * k) : Printf(k)[i] = IF i % 2 = 1 THEN "control" ELSE "data"
  <1>1. Printf(k) \in [1..(2 * k) -> Ops]
    BY DEF Printf, Ops
  <1> QED BY <1>1 DEF Printf

(* The sequence u is s, of m elements, followed by t, of n elements. *)
Joins(u, s, m, t, n) ==
  /\ Len(u) = m + n
  /\ \A i \in 1..m : u[i] = s[i]
  /\ \A i \in (m + 1)..(m + n) : u[i] = t[i - m]

LEMMA Concatenation ==
  ASSUME NEW s \in Seq(Ops), NEW t \in Seq(Ops), NEW m, NEW n, Len(s) = m, Len(t) = n
  PROVE  s \o t \in Seq(Ops) /\ Joins(s \o t, s, m, t, n)
  <1>1. /\ s \o t \in Seq(Ops) /\ Len(s \o t) = Len(s) + Len(t)
        /\ \A i \in 1..Len(s) : (s \o t)[i] = s[i]
        /\ \A i \in (Len(s) + 1)..(Len(s) + Len(t)) : (s \o t)[i] = t[i - Len(s)]
    OBVIOUS
  <1> QED BY <1>1, Zenon DEF Joins

LEMMA MainIs ==
  /\ Len(Main) = 16 + 2 * Line1 + 2 * Line2
  /\ Main[1] = "stop" /\ Main[2] = "periodl" /\ Main[3] = "periodh" /\ Main[4] = "start"
  /\ \A m \in {4, Second} :
       /\ Main[m + 1] = "snap" /\ Main[m + 2] = "snapl" /\ Main[m + 3] = "snaph1"
       /\ Main[m + 4] = "snap" /\ Main[m + 5] = "snapl" /\ Main[m + 6] = "snaph2"
  /\ \A i \in 11..Second : Main[i] = IF i % 2 = 1 THEN "control" ELSE "data"
  /\ \A i \in (Second + 7)..Len(Main) : Main[i] = IF i % 2 = 1 THEN "control" ELSE "data"
  <1> DEFINE s1 == TimestampStart \o Measure
             P1 == Printf(Line1)
             s2 == s1 \o P1
             s3 == s2 \o Measure
             P2 == Printf(Line2)
             s4 == s3 \o P2
  <1> HIDE DEF s1, s2, s3, s4, P1, P2
  <1>1. /\ TimestampStart \in Seq(Ops) /\ Len(TimestampStart) = 4
        /\ TimestampStart[1] = "stop" /\ TimestampStart[2] = "periodl"
        /\ TimestampStart[3] = "periodh" /\ TimestampStart[4] = "start"
    BY DEF TimestampStart, Ops
  <1>2. /\ Measure \in Seq(Ops) /\ Len(Measure) = 6
        /\ Measure[1] = "snap" /\ Measure[2] = "snapl" /\ Measure[3] = "snaph1"
        /\ Measure[4] = "snap" /\ Measure[5] = "snapl" /\ Measure[6] = "snaph2"
    BY DEF Measure, Ops
  <1>3. /\ P1 \in Seq(Ops) /\ Len(P1) = 2 * Line1
        /\ P2 \in Seq(Ops) /\ Len(P2) = 2 * Line2
        /\ \A i \in 1..(2 * Line1) : P1[i] = IF i % 2 = 1 THEN "control" ELSE "data"
        /\ \A i \in 1..(2 * Line2) : P2[i] = IF i % 2 = 1 THEN "control" ELSE "data"
    BY PrintfIs DEF P1, P2
  <1>4. s1 \in Seq(Ops) /\ Len(s1) = 10 /\ Joins(s1, TimestampStart, 4, Measure, 6)
    <2>1. s1 \in Seq(Ops) /\ Joins(s1, TimestampStart, 4, Measure, 6)
      BY <1>1, <1>2, Concatenation, Zenon DEF s1
    <2> QED BY <2>1 DEF Joins
  <1>5. s2 \in Seq(Ops) /\ Len(s2) = Second /\ Joins(s2, s1, 10, P1, 2 * Line1)
    <2>1. s2 \in Seq(Ops) /\ Joins(s2, s1, 10, P1, 2 * Line1)
      BY <1>3, <1>4, Concatenation, Zenon DEF s2
    <2> QED BY <2>1 DEF Joins, Second
  <1>6. s3 \in Seq(Ops) /\ Len(s3) = Second + 6 /\ Joins(s3, s2, Second, Measure, 6)
    <2>1. s3 \in Seq(Ops) /\ Joins(s3, s2, Second, Measure, 6)
      BY <1>2, <1>5, Concatenation, Zenon DEF s3
    <2> QED BY <2>1 DEF Joins
  <1>7. Joins(s4, s3, Second + 6, P2, 2 * Line2)
    BY <1>3, <1>6, Concatenation, Zenon DEF s4
  <1>8. Main = s4
    BY DEF Main, s1, s2, s3, s4, P1, P2
  <1>9. ASSUME NEW i \in 1..4 PROVE Main[i] = TimestampStart[i]
    <2>1. s1[i] = TimestampStart[i]
      BY <1>4 DEF Joins
    <2>2. s2[i] = s1[i]
      BY <1>5 DEF Joins
    <2>3. s3[i] = s2[i] /\ s4[i] = s3[i]
      BY <1>6, <1>7 DEF Joins, Second
    <2> QED BY <1>8, <2>1, <2>2, <2>3
  <1>10. ASSUME NEW m \in {4, Second}, NEW i \in 1..6 PROVE Main[m + i] = Measure[i]
    <2>1. CASE m = 4
      BY <2>1, <1>4, <1>5, <1>6, <1>7, <1>8 DEF Joins, Second
    <2>2. CASE m = Second
      <3>1. Second + i \in 1..(Second + 6) /\ Second + i \in (Second + 1)..(Second + 6)
            /\ Second \in Nat
        BY DEF Second
      <3> HIDE DEF Second
      <3>2. s4[Second + i] = s3[Second + i]
        BY <1>7, <3>1, Zenon DEF Joins
      <3>3. s3[Second + i] = Measure[i]
        <4> DEFINE j == Second + i
        <4>1. j \in (Second + 1)..(Second + 6) /\ j - Second = i
          BY <3>1
        <4> HIDE DEF j
        <4>2. s3[j] = Measure[j - Second]
          BY <1>6, <4>1, Zenon DEF Joins
        <4> QED BY <4>1, <4>2 DEF j
      <3> QED BY <1>8, <2>2, <3>1, <3>2, <3>3
    <2> QED BY <2>1, <2>2
  <1>11. ASSUME NEW m \in {4, Second}
         PROVE  /\ Main[m + 1] = "snap" /\ Main[m + 2] = "snapl" /\ Main[m + 3] = "snaph1"
                /\ Main[m + 4] = "snap" /\ Main[m + 5] = "snapl" /\ Main[m + 6] = "snaph2"
    <2> HIDE DEF Second
    <2>1. /\ Main[m + 1] = Measure[1] /\ Main[m + 2] = Measure[2] /\ Main[m + 3] = Measure[3]
          /\ Main[m + 4] = Measure[4] /\ Main[m + 5] = Measure[5] /\ Main[m + 6] = Measure[6]
      BY <1>10
    <2> QED BY <2>1, <1>2
  <1>12. ASSUME NEW i \in 11..Second PROVE Main[i] = IF i % 2 = 1 THEN "control" ELSE "data"
    <2>1. (i - 10) % 2 = i % 2 /\ i - 10 \in 1..(2 * Line1)
      BY DEF Second
    <2>2. Main[i] = P1[i - 10]
      BY <1>5, <1>6, <1>7, <1>8 DEF Joins, Second
    <2> QED BY <1>3, <2>1, <2>2
  <1>13. ASSUME NEW i \in (Second + 7)..Len(Main)
         PROVE  Main[i] = IF i % 2 = 1 THEN "control" ELSE "data"
    <2>1. (i - (Second + 6)) % 2 = i % 2 /\ i - (Second + 6) \in 1..(2 * Line2)
      BY <1>7, <1>8 DEF Joins, Second
    <2>2. Main[i] = P2[i - (Second + 6)]
      BY <1>7, <1>8 DEF Joins, Second
    <2> QED BY <1>3, <2>1, <2>2
  <1>14. Main[1] = "stop" /\ Main[2] = "periodl" /\ Main[3] = "periodh" /\ Main[4] = "start"
    BY <1>1, <1>9
  <1>15. Len(Main) = 16 + 2 * Line1 + 2 * Line2
    BY <1>7, <1>8 DEF Joins, Second
  <1> HIDE DEF Second
  <1> QED BY <1>11, <1>12, <1>13, <1>14, <1>15

LEMMA MainLen == /\ Second \in Nat /\ Second = 10 + 2 * Line1
                 /\ Len(Main) = 16 + 2 * Line1 + 2 * Line2 /\ Len(Main) = Second + 6 + 2 * Line2
  <1>1. Len(Main) = 16 + 2 * Line1 + 2 * Line2
    BY MainIs, Zenon
  <1> QED BY <1>1 DEF Second

(* Which access stands where, and what is written by then. *)
LEMMA Places ==
  ASSUME NEW p \in 1..Len(Main)
  PROVE  /\ Main[p] = "stop" <=> p = 1
         /\ Main[p] = "periodl" <=> p = 2
         /\ Main[p] = "periodh" <=> p = 3
         /\ Main[p] = "start" <=> p = 4
         /\ Main[p] = "snap" <=> p \in {5, 8, Second + 1, Second + 4}
         /\ Main[p] = "snapl" <=> p \in {6, 9, Second + 2, Second + 5}
         /\ Main[p] = "snaph1" <=> p \in {7, Second + 3}
         /\ Main[p] = "snaph2" <=> p \in {10, Second + 6}
         /\ Main[p] \in {"control", "data"} <=> p \in (11..Second) \cup ((Second + 7)..Len(Main))
         /\ Main[p] = "data" <=> p \in (11..Second) \cup ((Second + 7)..Len(Main)) /\ p % 2 = 0
         /\ Main[p] # "none"
  <1> DEFINE first == p \in 1..4
             print == p \in (11..Second) \cup ((Second + 7)..Len(Main))
  <1>1. CASE p \in 1..4
    BY <1>1, MainIs DEF Second
  <1>2. CASE p \in 5..10
    <2>1. ~(p \in 1..4) /\ ~print /\ p \notin {Second + 1, Second + 4}
          /\ p \notin {Second + 2, Second + 5} /\ p # Second + 3 /\ p # Second + 6
      BY <1>2, MainLen
    <2>2. /\ Main[5] = "snap" /\ Main[6] = "snapl" /\ Main[7] = "snaph1"
          /\ Main[8] = "snap" /\ Main[9] = "snapl" /\ Main[10] = "snaph2"
      <3>1. /\ Main[4 + 1] = "snap" /\ Main[4 + 2] = "snapl" /\ Main[4 + 3] = "snaph1"
            /\ Main[4 + 4] = "snap" /\ Main[4 + 5] = "snapl" /\ Main[4 + 6] = "snaph2"
        BY MainIs, Zenon
      <3> QED BY <3>1
    <2>3. p = 5 \/ p = 6 \/ p = 7 \/ p = 8 \/ p = 9 \/ p = 10
      BY <1>2
    <2> QED BY <2>1, <2>2, <2>3
  <1>3. CASE print
    <2>1. /\ ~(p \in 1..4) /\ p \notin {5, 8, Second + 1, Second + 4}
          /\ p \notin {6, 9, Second + 2, Second + 5}
          /\ p \notin {7, Second + 3} /\ p \notin {10, Second + 6}
      BY <1>3, MainLen
    <2>2. Main[p] = IF p % 2 = 1 THEN "control" ELSE "data"
      BY <1>3, MainIs, Zenon
    <2>3. p % 2 \in {0, 1}
      OBVIOUS
    <2> HIDE DEF print
    <2> QED BY <1>3, <2>1, <2>2, <2>3 DEF print
  <1>4. CASE p \in (Second + 1)..(Second + 6)
    <2>1. ~(p \in 1..4) /\ ~(p \in 5..10) /\ ~print /\ p \notin {5, 8} /\ p \notin {6, 9}
          /\ p # 7 /\ p # 10 /\ p \notin {1, 2, 3, 4}
      BY <1>4 DEF Second
    <2>2. CASE p = Second + 1
      BY <2>1, <2>2, MainIs DEF Second
    <2>3. CASE p = Second + 2
      BY <2>1, <2>3, MainIs DEF Second
    <2>4. CASE p = Second + 3
      BY <2>1, <2>4, MainIs DEF Second
    <2>5. CASE p = Second + 4
      BY <2>1, <2>5, MainIs DEF Second
    <2>6. CASE p = Second + 5
      BY <2>1, <2>6, MainIs DEF Second
    <2>7. CASE p = Second + 6
      BY <2>1, <2>7, MainIs DEF Second
    <2> HIDE DEF first, print
    <2>8. p = Second + 1 \/ p = Second + 2 \/ p = Second + 3 \/ p = Second + 4 \/ p = Second + 5 \/ p = Second + 6
      BY <1>4, MainLen
    <2> QED BY <2>2, <2>3, <2>4, <2>5, <2>6, <2>7, <2>8
  <1>5. p \in 1..4 \/ p \in 5..10 \/ print \/ p \in (Second + 1)..(Second + 6)
    BY MainLen
  <1> QED BY <1>1, <1>2, <1>3, <1>4, <1>5

LEMMA WrittenSteps ==
  ASSUME NEW n \in Int, NEW k \in Nat
  PROVE  /\ Written(n, k) \in 0..k
         /\ n % 2 = 1 /\ n \in 1..(2 * k) => Written(n + 1, k) = Written(n, k) + 1
         /\ n % 2 = 0 \/ ~(n \in 1..(2 * k)) => Written(n + 1, k) = Written(n, k)
  BY DEF Written

LEMMA PrintedSteps ==
  ASSUME NEW p \in 1..Len(Main)
  PROVE  /\ Printed(p) \in 0..(Line1 + Line2) /\ Printed(p + 1) \in 0..(Line1 + Line2)
         /\ Printed(p + 1) = IF Main[p] = "data" THEN Printed(p) + 1 ELSE Printed(p)
  <1> DEFINE n1_ == p - 11
             n2_ == p - (Second + 7)
  <1>1. Main[p] = "data" <=> p \in (11..Second) \cup ((Second + 7)..Len(Main)) /\ p % 2 = 0
    BY Places
  <1>2. Len(Main) = 16 + 2 * Line1 + 2 * Line2
    BY MainLen
  <1>3. /\ n1_ \in Int /\ n2_ \in Int
        /\ Printed(p) = Written(n1_, Line1) + Written(n2_, Line2)
        /\ Printed(p + 1) = Written(n1_ + 1, Line1) + Written(n2_ + 1, Line2)
    <2>1. (p + 1) - 11 = n1_ + 1 /\ (p + 1) - (Second + 7) = n2_ + 1
      BY DEF Second
    <2> QED BY <2>1 DEF Printed, Second
  <1>4. /\ p % 2 = 0 <=> n1_ % 2 = 1
        /\ p % 2 = 0 <=> n2_ % 2 = 1
        /\ n1_ % 2 \in {0, 1} /\ n2_ % 2 \in {0, 1}
    BY DEF Second
  <1>5. /\ p \in 11..Second /\ p % 2 = 0 <=> n1_ \in 1..(2 * Line1) /\ n1_ % 2 = 1
        /\ p \in (Second + 7)..Len(Main) /\ p % 2 = 0 <=> n2_ \in 1..(2 * Line2) /\ n2_ % 2 = 1
        /\ ~(n1_ \in 1..(2 * Line1) /\ n2_ \in 1..(2 * Line2))
    BY <1>2, <1>4 DEF Second
  <1> HIDE DEF n1_, n2_
  <1>6. /\ Written(n1_, Line1) \in 0..Line1 /\ Written(n1_ + 1, Line1) \in 0..Line1
        /\ Written(n2_, Line2) \in 0..Line2 /\ Written(n2_ + 1, Line2) \in 0..Line2
    BY <1>3, WrittenSteps
  <1>7. /\ n1_ % 2 = 1 /\ n1_ \in 1..(2 * Line1) => Written(n1_ + 1, Line1) = Written(n1_, Line1) + 1
        /\ n1_ % 2 = 0 \/ ~(n1_ \in 1..(2 * Line1)) => Written(n1_ + 1, Line1) = Written(n1_, Line1)
        /\ n2_ % 2 = 1 /\ n2_ \in 1..(2 * Line2) => Written(n2_ + 1, Line2) = Written(n2_, Line2) + 1
        /\ n2_ % 2 = 0 \/ ~(n2_ \in 1..(2 * Line2)) => Written(n2_ + 1, Line2) = Written(n2_, Line2)
    BY <1>3, WrittenSteps
  <1>8. Printed(p) \in 0..(Line1 + Line2) /\ Printed(p + 1) \in 0..(Line1 + Line2)
    BY <1>3, <1>6
  <1>9. CASE Main[p] = "data"
    <2>1. \/ n1_ \in 1..(2 * Line1) /\ n1_ % 2 = 1 /\ ~(n2_ \in 1..(2 * Line2))
          \/ n2_ \in 1..(2 * Line2) /\ n2_ % 2 = 1 /\ ~(n1_ \in 1..(2 * Line1))
      BY <1>1, <1>5, <1>9
    <2>2. Written(n1_ + 1, Line1) + Written(n2_ + 1, Line2)
            = Written(n1_, Line1) + Written(n2_, Line2) + 1
      <3>1. CASE n1_ \in 1..(2 * Line1) /\ n1_ % 2 = 1 /\ ~(n2_ \in 1..(2 * Line2))
        <4>1. /\ Written(n1_ + 1, Line1) = Written(n1_, Line1) + 1
              /\ Written(n2_ + 1, Line2) = Written(n2_, Line2)
          BY <1>7, <3>1
        <4> QED BY <1>6, <4>1
      <3>2. CASE n2_ \in 1..(2 * Line2) /\ n2_ % 2 = 1 /\ ~(n1_ \in 1..(2 * Line1))
        <4>1. /\ Written(n1_ + 1, Line1) = Written(n1_, Line1)
              /\ Written(n2_ + 1, Line2) = Written(n2_, Line2) + 1
          BY <1>7, <3>2
        <4> QED BY <1>6, <4>1
      <3> QED BY <2>1, <3>1, <3>2
    <2> QED BY <1>3, <1>8, <1>9, <2>2
  <1>10. CASE Main[p] # "data"
    <2>1. /\ n1_ % 2 = 0 \/ ~(n1_ \in 1..(2 * Line1))
          /\ n2_ % 2 = 0 \/ ~(n2_ \in 1..(2 * Line2))
      BY <1>1, <1>4, <1>5, <1>10
    <2> QED BY <1>3, <1>7, <1>8, <1>10, <2>1
  <1> QED BY <1>8, <1>9, <1>10

LEMMA AllPrinted == Printed(Len(Main) + 1) = Line1 + Line2 /\ Printed(1) = 0
  <1>1. (Len(Main) + 1) - 11 = 6 + 2 * Line1 + 2 * Line2 /\ (Len(Main) + 1) - (Second + 7) = 2 * Line2
    BY MainLen
  <1>2. Written(1 - 11, Line1) = 0 /\ Written(1 - (Second + 7), Line2) = 0
    BY DEF Written, Second
  <1>3. Printed(Len(Main) + 1) = Line1 + Line2
    <2>1. Written((Len(Main) + 1) - 11, Line1) = Line1
      BY <1>1 DEF Written
    <2>2. Written((Len(Main) + 1) - (Second + 7), Line2) = Line2
      BY <1>1 DEF Written
    <2> QED BY <2>1, <2>2, Zenon DEF Printed
  <1>4. Printed(1) = 0 + 0
    BY <1>2, Zenon DEF Printed
  <1> QED BY <1>3, <1>4
-----------------------------------------------------------------------------
(* The timer. *)
TimerTypeOK ==
  /\ internal_counter \in 0..Full /\ counter_snapshot \in 0..Full
  /\ period_h \in 0..(Half - 1) /\ period_l \in 0..(Half - 1)
  /\ counter_is_running \in BOOLEAN /\ force_reload \in BOOLEAN
  /\ age \in 0..(Full + 1)

LEMMA TimerTypes ==
  ASSUME TimerTypeOK, NEW op, TimerTick(op)
  PROVE  TimerTypeOK' /\ age <= age'
  <1>1. period_h * Half + period_l \in 0..Full
    BY JoinedHalves DEF TimerTypeOK
  <1>2. internal_counter' \in 0..Full
    BY <1>1, FullFacts DEF TimerTypeOK, TimerTick
  <1>3. age' \in 0..(Full + 1) /\ age <= age'
    BY FullFacts DEF TimerTypeOK, TimerTick
  <1>4. period_h' \in 0..(Half - 1) /\ period_l' \in 0..(Half - 1)
    BY DEF TimerTypeOK, TimerTick
  <1> QED BY <1>2, <1>3, <1>4 DEF TimerTypeOK, TimerTick

LEMMA TimerBits ==
  ASSUME TimerTypeOK, NEW op, TimerTick(op)
  PROVE  /\ force_reload' <=> op \in {"periodl", "periodh"}
         /\ counter_is_running' <=>
              \/ op = "start"
              \/ counter_is_running /\ op # "stop" /\ ~force_reload /\ internal_counter # 0
  BY Zenon DEF TimerTypeOK, TimerTick

(* Once it runs, it shows its age, and nothing but a snapshot is taken.      *)
LEMMA TimerRuns ==
  ASSUME TimerTypeOK, TimerInv, pc \in Nat, pc > 4,
         NEW op, op \notin {"stop", "start", "periodl", "periodh"}, TimerTick(op)
  PROVE  /\ ~force_reload' /\ (counter_is_running' <=> ~RanOut(age'))
         /\ internal_counter' = Shown(age')
         /\ period_l' = Half - 1 /\ period_h' = Half - 1
  <1>1. /\ ~force_reload /\ (counter_is_running <=> ~RanOut(age)) /\ internal_counter = Shown(age)
        /\ period_l = Half - 1 /\ period_h = Half - 1
    BY DEF TimerInv
  <1>2. ~force_reload' /\ period_l' = Half - 1 /\ period_h' = Half - 1
    BY <1>1, TimerBits DEF TimerTick
  <1>3. period_h * Half + period_l = Full
    BY <1>1, AllOnes
  <1>4. age \in 0..(Full + 1) /\ Full \in Nat
    BY FullFacts DEF TimerTypeOK
  <1>5. CASE age = Full + 1
    BY <1>1, <1>2, <1>4, <1>5, TimerBits DEF TimerTick, RanOut, Shown
  <1>6. CASE age = Full
    BY <1>1, <1>2, <1>3, <1>4, <1>6, TimerBits DEF TimerTick, RanOut, Shown
  <1>7. CASE age < Full
    BY <1>1, <1>2, <1>4, <1>7, TimerBits DEF TimerTick, RanOut, Shown
  <1> QED BY <1>4, <1>5, <1>6, <1>7

(* While it is set up. *)
LEMMA TimerStands ==
  ASSUME TimerTypeOK, TimerInv, pc \in 1..4, NEW op, TimerTick(op)
  PROVE  /\ age' = 0 /\ (counter_is_running' <=> op = "start")
         /\ ~force_reload => internal_counter' = internal_counter
         /\ pc = 4 /\ gap => internal_counter' = Full
  <1>1. ~counter_is_running /\ age = 0
    BY DEF TimerInv
  <1>2. age' = 0 /\ (counter_is_running' <=> op = "start")
    BY <1>1, TimerBits DEF TimerTick
  <1>3. ASSUME pc = 4, gap PROVE internal_counter' = Full
    <2>1. force_reload /\ period_h = Half - 1 /\ period_l = Half - 1
      BY <1>3 DEF TimerInv
    <2>2. period_h * Half + period_l = Full
      BY <2>1, AllOnes
    <2> QED BY <2>1, <2>2 DEF TimerTick
  <1> QED BY <1>1, <1>2, <1>3 DEF TimerTick

LEMMA TimerStall ==
  ASSUME TypeOK, TimerInv, NEW drain \in BOOLEAN, Stall(drain)
  PROVE  TimerInv'
  <1>1. TimerTypeOK /\ TimerTick("none") /\ pc' = pc /\ ~gap' /\ pc \in Nat \ {0}
    BY DEF TypeOK, TimerTypeOK, Stall
  <1>2. CASE pc > 4
    BY <1>1, <1>2, TimerRuns DEF TimerInv
  <1>3. CASE pc <= 4
    <2>1. /\ age' = 0 /\ ~counter_is_running'
          /\ ~force_reload => internal_counter' = internal_counter
          /\ pc = 4 /\ gap => internal_counter' = Full
      BY <1>1, <1>3, TimerStands
    <2>2. ~force_reload' /\ period_h' = period_h /\ period_l' = period_l
      BY <1>1, TimerBits DEF TimerTick
    <2> QED BY <1>1, <1>3, <2>1, <2>2 DEF TimerInv
  <1> QED BY <1>1, <1>2, <1>3

LEMMA TimerAccess ==
  ASSUME TypeOK, TimerInv, NEW drain \in BOOLEAN, Access(drain)
  PROVE  TimerInv'
  <1> DEFINE op == Main[pc]
  <1>1. /\ TimerTypeOK /\ TimerTick(op) /\ pc \in 1..Len(Main) /\ ~gap /\ gap'
        /\ pc' = pc \/ pc' = pc + 1
        /\ op # "control" => pc' = pc + 1
    <2>1. TimerTypeOK /\ pc \in 1..(Len(Main) + 1)
      BY DEF TypeOK, TimerTypeOK
    <2>2. /\ TimerTick(op) /\ ~(pc > Len(Main)) /\ ~gap /\ gap'
          /\ pc' = IF op = "control" /\ ~MayWrite THEN pc ELSE pc + 1
      BY DEF Access, Done
    <2> HIDE DEF op
    <2> QED BY <2>1, <2>2, MainLen
  <1>2. CASE pc > 4
    <2>1. op \notin {"stop", "start", "periodl", "periodh"}
      BY <1>1, <1>2, Places
    <2> HIDE DEF op
    <2>2. /\ ~force_reload' /\ (counter_is_running' <=> ~RanOut(age'))
          /\ internal_counter' = Shown(age')
          /\ period_l' = Half - 1 /\ period_h' = Half - 1
      BY <1>1, <1>2, <2>1, TimerRuns
    <2>3. pc' > 4
      BY <1>1, <1>2
    <2> QED BY <2>2, <2>3, MainLen, <1>1 DEF TimerInv
  <1>3. CASE pc <= 4
    <2>1. /\ pc' = pc + 1
          /\ op = "periodl" <=> pc = 2
          /\ op = "periodh" <=> pc = 3
          /\ op = "start" <=> pc = 4
          /\ op # "snap"
      BY <1>1, <1>3, Places, MainLen
    <2> HIDE DEF op
    <2>2. /\ age' = 0 /\ (counter_is_running' <=> op = "start")
          /\ ~force_reload => internal_counter' = internal_counter
      BY <1>1, <1>3, TimerStands
    <2>3. /\ period_l' = IF pc = 2 THEN Half - 1 ELSE period_l
          /\ period_h' = IF pc = 3 THEN Half - 1 ELSE period_h
          /\ (force_reload' <=> pc \in {2, 3})
      BY <1>1, <2>1, TimerBits DEF TimerTick
    <2>4. CASE pc = 4
      BY <1>1, <2>1, <2>2, <2>3, <2>4, FullFacts DEF TimerInv, RanOut, Shown
    <2>5. CASE pc \in {1, 2}
      <3>1. pc' \in {2, 3} /\ ~counter_is_running' /\ age' = 0
        BY <2>1, <2>2, <2>5
      <3>2. pc = 1 => pc' = 2
        BY <2>1
      <3>3. pc = 2 => pc' = 3 /\ period_l' = Half - 1
        BY <2>1, <2>3
      <3> QED BY <2>5, <3>1, <3>2, <3>3 DEF TimerInv
    <2>6. CASE pc = 3
      BY <1>1, <2>1, <2>2, <2>3, <2>6 DEF TimerInv
    <2> QED BY <1>1, <1>3, <2>4, <2>5, <2>6
  <1> QED BY <1>1, <1>2, <1>3
-----------------------------------------------------------------------------
(* A measurement. *)
LEMMA Readings ==
  ASSUME NEW t \in 0..(Full + 1)
  PROVE  Shown(t) \in 0..Full /\ Reading(t) \in 0..Full /\ Full - Shown(t) = Reading(t)
  BY FullFacts DEF Shown, Reading, RanOut

MeasureTypeOK ==
  /\ lower \in 0..(Half - 1) /\ n1 \in 0..Full
  /\ began \in 0..(Full + 1) /\ ended \in 0..(Full + 1)

LEMMA MeasureStall ==
  ASSUME TypeOK, NEW m \in {4, Second}, MeasureInv(m), NEW drain \in BOOLEAN, Stall(drain)
  PROVE  MeasureInv(m)' /\ MeasureTypeOK'
  <1>1. /\ TimerTypeOK /\ TimerTick("none") /\ pc' = pc /\ lower' = lower /\ n1' = n1
        /\ began' = began /\ ended' = ended /\ pc \in 1..(Len(Main) + 1)
    BY DEF TypeOK, TimerTypeOK, Stall
  <1>2. age <= age' /\ counter_snapshot' = counter_snapshot /\ age' \in 0..(Full + 1)
    BY <1>1, TimerTypes DEF TimerTick, TimerTypeOK
  <1>3. MeasureTypeOK'
    BY <1>1 DEF MeasureTypeOK, TypeOK
  <1>4. began <= age => began <= age'
    BY <1>1, <1>2, FullFacts DEF TypeOK
  <1> QED BY <1>1, <1>2, <1>3, <1>4 DEF MeasureInv

(* The half that was read and the half that is read make the snapshot.       *)
LEMMA TimestampIs ==
  ASSUME TypeOK, NEW t \in 0..(Full + 1), counter_snapshot = Shown(t),
         lower = counter_snapshot % Half
  PROVE  Timestamp = Reading(t)
  <1>1. ((counter_snapshot \div Half) * Half) + lower = counter_snapshot
    BY SplitHalves DEF TypeOK
  <1> QED BY <1>1, Readings DEF Timestamp, ReadSnap

LEMMA Outside ==
  ASSUME NEW p \in Nat, NEW m \in Nat, p <= m + 1 \/ p > m + 7
  PROVE  /\ p - m \notin {2, 3} /\ p - m \notin {5, 6} /\ p - m \notin {3, 6}
         /\ p - m \notin 4..6 /\ p - m \notin 2..7 /\ p - m \notin 5..7 /\ p - m # 7
  OBVIOUS

LEMMA MeasureAccess ==
  ASSUME TypeOK, TimerInv, NEW m \in {4, Second}, MeasureInv(m),
         NEW drain \in BOOLEAN, Access(drain)
  PROVE  MeasureInv(m)'
  <1> DEFINE op == Main[pc]
  <1>1. /\ TimerTypeOK /\ pc \in 1..Len(Main) /\ m \in Nat /\ m >= 4
        /\ began \in 0..(Full + 1) /\ ended \in 0..(Full + 1) /\ age \in 0..(Full + 1)
        /\ n1 \in 0..Full
    <2>1. TimerTypeOK /\ pc \in 1..(Len(Main) + 1)
      BY DEF TypeOK, TimerTypeOK
    <2>2. ~(pc > Len(Main))
      BY DEF Access, Done
    <2> QED BY <2>1, <2>2, MainLen DEF TypeOK
  <1>2. /\ TimerTick(op)
        /\ pc' = pc \/ pc' = pc + 1
        /\ op # "control" => pc' = pc + 1
        /\ lower' = IF op = "snapl" THEN counter_snapshot % Half ELSE lower
        /\ op = "snaph1" => n1' = Timestamp
        /\ op = "snaph2" => n1' = (Timestamp - n1) % (Full + 1)
        /\ op \notin {"snaph1", "snaph2"} => n1' = n1
        /\ began' = IF op = "snap" /\ Main[pc + 2] = "snaph1" THEN age ELSE began
        /\ ended' = IF op = "snap" /\ Main[pc + 2] # "snaph1" THEN age ELSE ended
    BY DEF Access, ReadSnap
  <1>3. /\ age <= age' /\ age' \in 0..(Full + 1)
        /\ counter_snapshot' = IF op = "snap" THEN internal_counter ELSE counter_snapshot
    BY <1>1, <1>2, TimerTypes DEF TimerTick, TimerTypeOK
  <1>4. ASSUME pc > 4 PROVE internal_counter = Shown(age)
    BY <1>4 DEF TimerInv
  <1>5. /\ Main[m + 1] = "snap" /\ Main[m + 2] = "snapl" /\ Main[m + 3] = "snaph1"
        /\ Main[m + 4] = "snap" /\ Main[m + 5] = "snapl" /\ Main[m + 6] = "snaph2"
    BY MainIs, Zenon
  <1>6. CASE pc = m + 1
    <2>1. op = "snap" /\ Main[pc + 2] = "snaph1" /\ pc' = m + 2
      BY <1>1, <1>2, <1>5, <1>6
    <2>2. counter_snapshot' = Shown(age) /\ began' = age
      BY <1>1, <1>2, <1>3, <1>4, <1>6, <2>1
    <2>3. pc' - m = 2 /\ began' <= age'
      BY <1>1, <1>3, <2>1, <2>2
    <2> QED BY <2>2, <2>3 DEF MeasureInv
  <1>7. CASE pc = m + 2
    <2>1. op = "snapl" /\ pc' = m + 3
      BY <1>1, <1>2, <1>5, <1>7
    <2>2. counter_snapshot = Shown(began) /\ began <= age
      BY <1>1, <1>7 DEF MeasureInv
    <2> QED BY <1>1, <1>2, <1>3, <2>1, <2>2, FullFacts DEF MeasureInv
  <1>8. CASE pc = m + 3
    <2>1. op = "snaph1" /\ pc' = m + 4
      BY <1>1, <1>2, <1>5, <1>8
    <2>2. counter_snapshot = Shown(began) /\ began <= age /\ lower = counter_snapshot % Half
      BY <1>1, <1>8 DEF MeasureInv
    <2>3. n1' = Reading(began) /\ began' = began /\ began <= age'
      BY <1>1, <1>2, <1>3, <2>1, <2>2, TimestampIs, FullFacts
    <2> QED BY <1>1, <2>1, <2>3 DEF MeasureInv
  <1>9. CASE pc = m + 4
    <2>1. op = "snap" /\ Main[pc + 2] # "snaph1" /\ pc' = m + 5
      <3>1. m + 4 + 2 = m + 6
        BY <1>1
      <3>2. Main[pc + 2] = "snaph2"
        BY <1>5, <1>9, <3>1
      <3> QED BY <1>1, <1>2, <1>5, <1>9, <3>2
    <2>2. counter_snapshot' = Shown(age) /\ ended' = age /\ began' = began /\ n1' = n1
      BY <1>1, <1>2, <1>3, <1>4, <1>9, <2>1
    <2>3. began <= age /\ n1 = Reading(began)
      BY <1>1, <1>9 DEF MeasureInv
    <2> QED BY <1>1, <1>3, <2>1, <2>2, <2>3, FullFacts DEF MeasureInv
  <1>10. CASE pc = m + 5
    <2>1. op = "snapl" /\ pc' = m + 6
      BY <1>1, <1>2, <1>5, <1>10
    <2>2. counter_snapshot = Shown(ended) /\ began <= age /\ began <= ended /\ n1 = Reading(began)
      BY <1>1, <1>10 DEF MeasureInv
    <2> QED BY <1>1, <1>2, <1>3, <2>1, <2>2, FullFacts DEF MeasureInv
  <1>11. CASE pc = m + 6
    <2>1. op = "snaph2" /\ pc' = m + 7
      BY <1>1, <1>2, <1>5, <1>11
    <2>2. /\ counter_snapshot = Shown(ended) /\ began <= age /\ began <= ended
          /\ n1 = Reading(began) /\ lower = counter_snapshot % Half
      BY <1>1, <1>11 DEF MeasureInv
    <2>3. n1' = (Reading(ended) - Reading(began)) % (Full + 1)
      BY <1>1, <1>2, <2>1, <2>2, TimestampIs
    <2> QED BY <1>1, <1>2, <1>3, <2>1, <2>2, <2>3, FullFacts DEF MeasureInv
  <1>12. CASE pc = m + 7
    <2>1. op \notin {"snap", "snaph1", "snaph2"} \/ pc' = m + 8
      BY <1>1, <1>2, <1>12
    <2>2. CASE pc' = m + 8
      BY <1>1, <2>2 DEF MeasureInv
    <2>3. CASE pc' = m + 7 /\ op \notin {"snap", "snaph1", "snaph2"}
      <3>1. began' = began /\ ended' = ended /\ n1' = n1
        BY <1>2, <2>3
      <3>2. /\ began <= age /\ began <= ended
            /\ n1 = (Reading(ended) - Reading(began)) % (Full + 1)
        BY <1>1, <1>12 DEF MeasureInv
      <3> QED BY <1>1, <1>3, <2>3, <3>1, <3>2, FullFacts DEF MeasureInv
    <2> QED BY <1>1, <1>2, <1>12, <2>1, <2>2, <2>3
  <1>13. CASE pc <= m \/ pc > m + 7
    <2>1. pc' \in Nat /\ (pc' <= m + 1 \/ pc' > m + 7)
      BY <1>1, <1>2, <1>13, MainLen
    <2>2. /\ pc' - m \notin {2, 3} /\ pc' - m \notin {5, 6} /\ pc' - m \notin {3, 6}
          /\ pc' - m \notin 4..6 /\ pc' - m \notin 2..7 /\ pc' - m \notin 5..7 /\ pc' - m # 7
      BY <1>1, <2>1, Outside
    <2> QED BY <2>2 DEF MeasureInv
  <1> QED BY <1>1, <1>6, <1>7, <1>8, <1>9, <1>10, <1>11, <1>12, <1>13, MainLen

LEMMA MeasureTypes ==
  ASSUME TypeOK, NEW drain \in BOOLEAN, Access(drain)
  PROVE  MeasureTypeOK'
  <1>1. lower' \in 0..(Half - 1)
    BY SplitHalves DEF Access, ReadSnap, TypeOK
  <1>2. Timestamp \in 0..Full
    <2>1. counter_snapshot \div Half \in 0..(Half - 1) /\ lower \in 0..(Half - 1)
      BY SplitHalves DEF TypeOK
    <2>2. (counter_snapshot \div Half) * Half + lower \in 0..Full
      BY <2>1, JoinedHalves
    <2> QED BY <2>2, FullFacts DEF Timestamp, ReadSnap
  <1>3. (Timestamp - n1) % (Full + 1) \in 0..Full /\ n1 \in 0..Full
    <2>1. n1 \in 0..Full /\ Timestamp - n1 \in Int
      BY <1>2, FullFacts DEF TypeOK
    <2> DEFINE N == Full + 1
               v == Timestamp - n1
    <2>2. N \in Nat \ {0} /\ N - 1 = Full
      BY FullFacts
    <2> HIDE DEF N, v
    <2>3. v % N \in 0..(N - 1)
      BY <2>1, <2>2, Residue DEF v
    <2> QED BY <2>1, <2>2, <2>3 DEF N, v
  <1>4. n1' \in 0..Full
    BY <1>2, <1>3 DEF Access
  <1>5. began' \in 0..(Full + 1) /\ ended' \in 0..(Full + 1)
    BY DEF Access, TypeOK
  <1> QED BY <1>1, <1>4, <1>5 DEF MeasureTypeOK
-----------------------------------------------------------------------------
(* The text. *)
LEMMA BeforeData ==
  ASSUME NEW p \in 1..Len(Main), p + 1 \in 1..Len(Main), Main[p + 1] = "data"
  PROVE  Main[p] = "control"
  <1>1. p + 1 \in (11..Second) \cup ((Second + 7)..Len(Main)) /\ (p + 1) % 2 = 0
    BY Places
  <1>2. p % 2 = 1 /\ p \in (11..Second) \cup ((Second + 7)..Len(Main))
    BY <1>1, MainLen
  <1>3. Main[p] \in {"control", "data"} /\ Main[p] # "data"
    BY <1>2, Places
  <1> QED BY <1>3

Char == 1..(Line1 + Line2)

Text(f, w) == f \o IF w = 0 THEN <<>> ELSE <<w>>

LEMMA TextElements ==
  ASSUME NEW f \in Seq(Char), NEW w \in 0..(Line1 + Line2)
  PROVE  /\ Len(Text(f, w)) = Len(f) + (IF w = 0 THEN 0 ELSE 1)
         /\ \A i \in 1..Len(f) : Text(f, w)[i] = f[i]
         /\ w # 0 => Text(f, w)[Len(f) + 1] = w
  <1>1. CASE w = 0
    BY <1>1 DEF Text
  <1>2. CASE w # 0
    <2>1. Text(f, w) = Append(f, w) /\ w \in Char
      BY <1>2 DEF Char, Text
    <2> QED BY <1>2, <2>1
  <1> QED BY <1>1, <1>2

(* The characters that are in the FIFO and on the way to it are those after *)
(* the last that was received, in their order: f is the FIFO, w what is on  *)
(* the way, g was received and p written last.                              *)
InOrder(f, w, g, p) ==
  /\ f \in Seq(Char) /\ w \in 0..(Line1 + Line2) /\ g \in Nat /\ p \in 0..(Line1 + Line2)
  /\ \A i \in 1..Len(f) : f[i] = g + i
  /\ w # 0 => w = p
  /\ p = g + Len(f) + (IF w = 0 THEN 0 ELSE 1)

IsText(f, w, g, p) ==
  (\A i \in 1..Len(Text(f, w)) : Text(f, w)[i] = g + i) /\ p = g + Len(Text(f, w))

LEMMA InOrderTypes ==
  ASSUME NEW f, NEW w, NEW g, NEW p, InOrder(f, w, g, p)
  PROVE  /\ f \in Seq(Char) /\ w \in 0..(Line1 + Line2) /\ p \in 0..(Line1 + Line2)
         /\ g \in Nat /\ g \in 0..p
  <1>1. /\ f \in Seq(Char) /\ w \in 0..(Line1 + Line2) /\ g \in Nat /\ p \in 0..(Line1 + Line2)
        /\ p = g + Len(f) + (IF w = 0 THEN 0 ELSE 1)
    BY DEF InOrder
  <1>2. Len(f) \in Nat
    BY <1>1
  <1> QED BY <1>1, <1>2

LEMMA InOrderIsText ==
  ASSUME NEW f \in Seq(Char), NEW w \in 0..(Line1 + Line2), NEW g \in Nat,
         NEW p \in 0..(Line1 + Line2)
  PROVE  InOrder(f, w, g, p) <=> IsText(f, w, g, p)
  <1> DEFINE t == Text(f, w)
  <1>1. /\ Len(t) = Len(f) + (IF w = 0 THEN 0 ELSE 1) /\ Len(f) \in Nat
        /\ \A i \in 1..Len(f) : t[i] = f[i]
        /\ w # 0 => t[Len(f) + 1] = w
    BY TextElements
  <1> HIDE DEF t
  <1>2. ASSUME InOrder(f, w, g, p), NEW i \in 1..Len(t)
        PROVE  t[i] = g + i
    <2>1. /\ \A j \in 1..Len(f) : f[j] = g + j
          /\ w # 0 => w = g + Len(f) + 1
      BY <1>1, <1>2 DEF InOrder
    <2>2. CASE i \in 1..Len(f)
      BY <1>1, <2>1, <2>2
    <2>3. CASE w # 0 /\ i = Len(f) + 1
      BY <1>1, <2>1, <2>3
    <2> QED BY <1>1, <2>2, <2>3
  <1>3. ASSUME InOrder(f, w, g, p) PROVE p = g + Len(t)
    BY <1>1, <1>3 DEF InOrder
  <1>4. ASSUME \A i \in 1..Len(t) : t[i] = g + i, p = g + Len(t)
        PROVE  InOrder(f, w, g, p)
    <2>1. ASSUME NEW i \in 1..Len(f) PROVE f[i] = g + i
      BY <1>1, <1>4
    <2>2. w # 0 => w = g + (Len(f) + 1) /\ w = p
      BY <1>1, <1>4
    <2> QED BY <1>1, <1>4, <2>1, <2>2 DEF InOrder
  <1> QED BY <1>2, <1>3, <1>4 DEF t, IsText

(* The numbers in it: the characters received and in the queue are those    *)
(* written, and there is room for the one on its way.                       *)
LEMMA CharactersCounted ==
  ASSUME NEW l \in Nat, NEW p \in Nat, NEW g \in Nat, NEW char \in Nat, NEW p2, NEW w2,
         w2 = char, l = p - g, char = 0 \/ char = p + 1, p2 = IF char # 0 THEN char ELSE p
  PROVE  p2 = g + l + (IF w2 = 0 THEN 0 ELSE 1) /\ (w2 # 0 => w2 = p2)
  OBVIOUS

LEMMA RoomKept ==
  ASSUME NEW l \in Nat, NEW lq \in Nat, NEW l2 \in Nat, NEW w \in Nat,
         l <= Depth, w # 0 => l < Depth, lq = l + (IF w = 0 THEN 0 ELSE 1), l2 <= lq
  PROVE  l2 <= Depth /\ (w = 0 => l2 <= l)
  BY MeasurementAssumption

(* A cycle of the UART, as UartTick has it.                                 *)
Queue(f, w) == IF w = 0 THEN f ELSE Append(f, w)

Moves(f, w, g, p, char, drain, f2, w2, g2, p2) ==
  /\ drain => f # <<>>
  /\ f2 = IF drain THEN Tail(Queue(f, w)) ELSE Queue(f, w)
  /\ w2 = IF Len(f) < Depth THEN char ELSE 0
  /\ g2 = IF drain THEN Head(f) ELSE g
  /\ p2 = IF char # 0 THEN char ELSE p

(* It keeps the order, if a character is written only when there is room.   *)
LEMMA InOrderStep ==
  ASSUME NEW f, NEW w, NEW g, NEW p, InOrder(f, w, g, p),
         w # 0 => Len(f) < Depth, Len(f) <= Depth,
         NEW char, char = 0 \/ (char = p + 1 /\ char \in Char /\ w = 0 /\ Len(f) < Depth),
         NEW drain \in BOOLEAN, NEW f2, NEW w2, NEW g2, NEW p2,
         Moves(f, w, g, p, char, drain, f2, w2, g2, p2)
  PROVE  /\ InOrder(f2, w2, g2, p2) /\ Len(f2) <= Depth /\ w2 = char
         /\ w = 0 => Len(f2) <= Len(f)
  <1> DEFINE queue == Queue(f, w)
  <1>0. queue = IF w = 0 THEN f ELSE Append(f, w)
    BY DEF Queue
  <1> HIDE DEF queue
  <1>1. /\ f \in Seq(Char) /\ w \in 0..(Line1 + Line2) /\ g \in Nat
        /\ p \in 0..(Line1 + Line2) /\ Len(f) \in Nat
        /\ \A i \in 1..Len(f) : f[i] = g + i
        /\ w # 0 => w = p
        /\ p = g + Len(f) + (IF w = 0 THEN 0 ELSE 1)
    BY DEF InOrder
  <1>2. /\ queue \in Seq(Char) /\ Len(queue) = p - g /\ Len(queue) \in Nat
        /\ Len(queue) = Len(f) + (IF w = 0 THEN 0 ELSE 1)
        /\ \A i \in 1..Len(queue) : queue[i] = g + i
    <2>1. CASE w = 0
      BY <1>0, <1>1, <2>1
    <2>2. CASE w # 0
      <3>1. queue = Append(f, w) /\ w \in Char
        BY <1>0, <1>1, <2>2 DEF Char
      <3>2. /\ queue \in Seq(Char) /\ Len(queue) = Len(f) + 1
            /\ \A i \in 1..Len(f) : queue[i] = f[i]
            /\ queue[Len(f) + 1] = w
        BY <1>1, <3>1
      <3>3. Len(queue) = p - g
        BY <1>1, <2>2, <3>2
      <3>4. ASSUME NEW i \in 1..Len(queue) PROVE queue[i] = g + i
        <4>1. CASE i \in 1..Len(f)
          BY <1>1, <3>2, <4>1
        <4>2. CASE i = Len(f) + 1
          BY <1>1, <2>2, <3>2, <4>2
        <4> QED BY <1>1, <3>2, <4>1, <4>2
      <3> QED BY <1>1, <2>2, <3>2, <3>3, <3>4
    <2> QED BY <2>1, <2>2
  <1>3. /\ w2 = char /\ w2 \in 0..(Line1 + Line2)
        /\ p2 \in 0..(Line1 + Line2) /\ p2 = IF char # 0 THEN char ELSE p
    BY <1>1 DEF Char, Moves
  <1>4. /\ f2 \in Seq(Char) /\ g2 \in Nat /\ Len(f2) = p - g2 /\ Len(f2) \in Nat
        /\ \A i \in 1..Len(f2) : f2[i] = g2 + i
        /\ Len(f2) <= Len(queue)
        /\ drain => Len(f2) = Len(queue) - 1
    <2>1. CASE drain
      <3>1. f # <<>> /\ f2 = Tail(queue) /\ g2 = Head(f)
        BY <2>1 DEF Moves, queue
      <3>2. Len(f) >= 1 /\ Head(f) = f[1] /\ queue # <<>>
        BY <1>1, <1>2, <3>1
      <3>3. g2 = g + 1
        BY <1>1, <3>1, <3>2
      <3>4. /\ f2 \in Seq(Char) /\ Len(f2) = Len(queue) - 1
            /\ \A i \in 1..Len(f2) : f2[i] = queue[i + 1]
        BY <1>2, <3>1, <3>2
      <3>5. ASSUME NEW i \in 1..Len(f2) PROVE f2[i] = g2 + i
        <4>1. i + 1 \in 1..Len(queue) /\ f2[i] = queue[i + 1]
          BY <1>2, <3>4
        <4> QED BY <1>1, <1>2, <3>3, <4>1
      <3>6. g2 \in Nat /\ Len(f2) = p - g2 /\ Len(f2) \in Nat /\ Len(f2) <= Len(queue)
        <4> DEFINE l  == Len(queue)
                   l2 == Len(f2)
        <4>1. l2 \in Nat /\ l2 = l - 1
          BY <3>4
        <4>2. g \in Nat /\ p \in Nat /\ l \in Nat /\ l = p - g
          BY <1>1, <1>2
        <4> HIDE DEF l, l2
        <4>3. g2 \in Nat /\ l2 = p - g2 /\ l2 \in Nat /\ l2 <= l
          BY <3>3, <4>1, <4>2
        <4> QED BY <4>3, Zenon DEF l, l2
      <3> QED BY <3>4, <3>5, <3>6, Zenon
    <2>2. CASE ~drain
      <3>1. f2 = queue /\ g2 = g
        BY <2>2 DEF Moves, queue
      <3> QED BY <1>1, <1>2, <2>2, <3>1
    <2> QED BY <2>1, <2>2
  <1>5. p2 = g2 + Len(f2) + (IF w2 = 0 THEN 0 ELSE 1) /\ (w2 # 0 => w2 = p2)
    <2>1. p \in Nat /\ char \in Nat /\ (char = 0 \/ char = p + 1)
      BY <1>1 DEF Char
    <2> QED BY <1>3, <1>4, <2>1, CharactersCounted
  <1>6. Len(f2) <= Depth /\ (w = 0 => Len(f2) <= Len(f))
    <2>1. w \in Nat
      BY <1>1
    <2> QED BY <1>1, <1>2, <1>4, <2>1, RoomKept, Zenon
  <1> QED BY <1>3, <1>4, <1>5, <1>6, Zenon DEF InOrder

UartTypeOK ==
  /\ fifo \in Seq(Char) /\ Len(fifo) <= Depth /\ fifo_wr \in 0..(Line1 + Line2)
  /\ put \in 0..(Line1 + Line2) /\ got \in 0..put

LEMMA TextFacts ==
  ASSUME TypeOK, TextArrives
  PROVE  UartTypeOK /\ InOrder(fifo, fifo_wr, got, put)
  <1>1. UartTypeOK /\ got \in Nat
    BY DEF TypeOK, UartTypeOK, Char
  <1>2. IsText(fifo, fifo_wr, got, put)
    BY Zenon DEF TextArrives, Text, IsText
  <1>3. fifo \in Seq(Char) /\ fifo_wr \in 0..(Line1 + Line2) /\ put \in 0..(Line1 + Line2)
    BY <1>1 DEF UartTypeOK
  <1> QED BY <1>1, <1>2, <1>3, InOrderIsText, Zenon

LEMMA TextNext ==
  ASSUME InOrder(fifo', fifo_wr', got', put'), Len(fifo') <= Depth,
         Done' => put' = Line1 + Line2
  PROVE  UartTypeOK' /\ TextArrives'
  <1>1. /\ fifo' \in Seq(Char) /\ fifo_wr' \in 0..(Line1 + Line2)
        /\ put' \in 0..(Line1 + Line2) /\ got' \in Nat /\ got' \in 0..put'
    BY InOrderTypes, Zenon
  <1>2. IsText(fifo', fifo_wr', got', put')
    BY <1>1, InOrderIsText, Zenon
  <1> QED BY <1>1, <1>2, Zenon DEF UartTypeOK, TextArrives, IsText, Text

LEMMA UartStall ==
  ASSUME TypeOK, UartInv, TextArrives, NEW drain \in BOOLEAN, Stall(drain)
  PROVE  UartTypeOK' /\ UartInv' /\ TextArrives'
  <1>1. UartTypeOK /\ InOrder(fifo, fifo_wr, got, put)
    BY TextFacts
  <1>2. pc' = pc /\ Moves(fifo, fifo_wr, got, put, 0, drain, fifo', fifo_wr', got', put')
    BY Zenon DEF Stall, UartTick, Moves, Queue
  <1>3. /\ InOrder(fifo', fifo_wr', got', put') /\ Len(fifo') <= Depth /\ fifo_wr' = 0
        /\ fifo_wr = 0 => Len(fifo') <= Len(fifo)
    <2>1. Len(fifo) <= Depth /\ (fifo_wr # 0 => Len(fifo) < Depth)
      BY <1>1 DEF UartInv, UartTypeOK
    <2> QED BY <1>1, <1>2, <2>1, InOrderStep
  <1>4. put' = put
    BY <1>2, Zenon DEF Moves
  <1>5. UartTypeOK' /\ TextArrives'
    <2>1. Done' => put' = Line1 + Line2
      BY <1>2, <1>4, Zenon DEF Done, TextArrives
    <2> QED BY <1>3, <2>1, TextNext, Zenon
  <1>6. UartInv'
    <2>1. ASSUME ~Done, Main[pc] = "data" PROVE Len(fifo') < Depth
      BY <1>1, <1>3, <2>1 DEF UartInv, UartTypeOK, InOrder
    <2> QED BY <1>2, <1>3, <1>4, <2>1, Zenon DEF UartInv, Done
  <1> QED BY <1>5, <1>6

(* The FIFO has room when the processor writes: it has looked an access     *)
(* before, and nothing but the host has touched the FIFO since.             *)
LEMMA UartAccess ==
  ASSUME TypeOK, UartInv, TextArrives, NEW drain \in BOOLEAN, Access(drain)
  PROVE  UartTypeOK' /\ UartInv' /\ TextArrives'
  <1> DEFINE op   == Main[pc]
             char == IF op = "data" THEN put + 1 ELSE 0
  <1>1. /\ UartTypeOK /\ InOrder(fifo, fifo_wr, got, put)
        /\ Len(fifo) \in Nat /\ put \in Nat /\ Len(fifo) <= Depth
    BY TextFacts DEF UartTypeOK, InOrder
  <1>2. /\ Moves(fifo, fifo_wr, got, put, char, drain, fifo', fifo_wr', got', put')
        /\ ~Done /\ ~gap /\ gap'
        /\ pc' = IF op = "control" /\ ~MayWrite THEN pc ELSE pc + 1
    BY Zenon DEF Access, UartTick, Moves, Queue
  <1>3. pc \in 1..Len(Main)
    <2>1. pc \in 1..(Len(Main) + 1) /\ ~(pc > Len(Main))
      BY <1>2 DEF TypeOK, Done
    <2> QED BY <2>1, MainLen
  <1>4. /\ put = Printed(pc) /\ fifo_wr = 0
        /\ op = "data" => Len(fifo) < Depth
    BY <1>2 DEF UartInv
  <1>5. /\ Printed(pc) \in 0..(Line1 + Line2) /\ Printed(pc + 1) \in 0..(Line1 + Line2)
        /\ Printed(pc + 1) = IF op = "data" THEN Printed(pc) + 1 ELSE Printed(pc)
    BY <1>3, PrintedSteps
  <1>6. char = 0 \/ (char = put + 1 /\ char \in Char /\ fifo_wr = 0 /\ Len(fifo) < Depth)
    BY <1>4, <1>5 DEF Char
  <1>7. char # 0 <=> op = "data"
    BY <1>1
  <1> HIDE DEF char
  <1>8. /\ InOrder(fifo', fifo_wr', got', put') /\ Len(fifo') <= Depth /\ fifo_wr' = char
        /\ Len(fifo') <= Len(fifo)
    BY <1>1, <1>2, <1>4, <1>6, InOrderStep
  <1>9. put' = IF char # 0 THEN char ELSE put
    BY <1>2, Zenon DEF Moves
  <1>10. put' = Printed(pc')
    <2>1. CASE op = "data"
      <3>1. pc' = pc + 1 /\ put' = put + 1
        BY <1>2, <1>6, <1>7, <1>9, <2>1
      <3> QED BY <1>4, <1>5, <2>1, <3>1
    <2>2. CASE op # "data"
      <3>1. put' = put /\ (pc' = pc \/ pc' = pc + 1)
        BY <1>2, <1>7, <1>9, <2>2
      <3> QED BY <1>4, <1>5, <2>2, <3>1
    <2> QED BY <2>1, <2>2
  <1>11. UartTypeOK' /\ TextArrives'
    <2>1. ASSUME Done' PROVE put' = Line1 + Line2
      <3>1. pc' = Len(Main) + 1
        BY <1>2, <1>3, <2>1, MainLen DEF Done
      <3> QED BY <1>10, <3>1, AllPrinted, Zenon
    <2> QED BY <1>8, <2>1, TextNext, Zenon
  <1>12. Len(fifo') \in Nat
    BY <1>8 DEF InOrder
  <1>13. ASSUME op = "data" PROVE Len(fifo') < Depth
    BY <1>1, <1>4, <1>8, <1>12, <1>13
  <1>14. ASSUME ~Done', Main[pc'] = "data"
         PROVE  op = "control" /\ Len(fifo') < Depth
    <2>1. op = "control" /\ MayWrite
      <3>1. CASE op = "control" /\ ~MayWrite
        BY <1>2, <1>14, <3>1
      <3>2. CASE ~(op = "control" /\ ~MayWrite)
        <4>1. pc' = pc + 1 /\ pc + 1 \in 1..Len(Main)
          BY <1>2, <1>3, <1>14, <3>2, MainLen DEF Done
        <4> QED BY <1>3, <1>14, <3>2, <4>1, BeforeData
      <3> QED BY <3>1, <3>2
    <2>2. Len(fifo) < Depth
      BY <1>1, <2>1 DEF MayWrite, wspace
    <2> QED BY <1>1, <1>8, <1>12, <2>1, <2>2
  <1>15. UartInv'
    BY <1>2, <1>7, <1>8, <1>10, <1>13, <1>14 DEF UartInv
  <1> QED BY <1>11, <1>15
-----------------------------------------------------------------------------
LEMMA InitInv == Init => Inv
  <1> SUFFICES ASSUME Init PROVE Inv
    OBVIOUS
  <1>1. TypeOK
    <2>1. Reset \div Half \in 0..(Half - 1) /\ Reset % Half \in 0..(Half - 1)
      BY SplitHalves
    <2>2. 1 \in 1..(Len(Main) + 1)
      BY MainLen
    <2>3. fifo \in Seq(1..(Line1 + Line2)) /\ Len(fifo) <= Depth
      BY DEF Init
    <2>4. pc \in 1..(Len(Main) + 1)
      BY <2>2 DEF Init
    <2>5. counter_is_running \in BOOLEAN /\ force_reload \in BOOLEAN /\ gap \in BOOLEAN
      BY DEF Init
    <2>6. /\ internal_counter \in 0..Full /\ counter_snapshot \in 0..Full
          /\ period_h \in 0..(Half - 1) /\ period_l \in 0..(Half - 1)
          /\ fifo_wr \in 0..(Line1 + Line2)
          /\ lower \in 0..(Half - 1) /\ n1 \in 0..Full
      BY <2>1, FullFacts DEF Init
    <2>7. /\ put \in 0..(Line1 + Line2) /\ got \in 0..put
          /\ age \in 0..(Full + 1) /\ began \in 0..(Full + 1) /\ ended \in 0..(Full + 1)
      BY FullFacts DEF Init
    <2> QED BY <2>3, <2>4, <2>5, <2>6, <2>7, Zenon DEF TypeOK
  <1>2. TimerInv
    BY DEF Init, TimerInv
  <1>3. ASSUME NEW m \in {4, Second} PROVE MeasureInv(m)
    <2>1. m \in Nat /\ m >= 4 /\ pc = 1
      BY MainLen DEF Init
    <2>2. /\ pc - m \notin {2, 3} /\ pc - m \notin {5, 6} /\ pc - m \notin {3, 6}
          /\ pc - m \notin 4..6 /\ pc - m \notin 2..7 /\ pc - m \notin 5..7 /\ pc - m # 7
      BY <2>1, Outside
    <2> QED BY <2>2 DEF MeasureInv
  <1>4. UartInv /\ TextArrives
    <2>1. Main[1] # "data" /\ ~Done
      BY MainIs, MainLen DEF Init, Done
    <2>2. UartInv
      BY <2>1, AllPrinted DEF Init, UartInv
    <2>3. InOrder(fifo, fifo_wr, got, put)
      BY DEF Init, InOrder
    <2>4. IsText(fifo, fifo_wr, got, put)
      BY <2>3, InOrderTypes, InOrderIsText, Zenon
    <2> QED BY <2>1, <2>2, <2>4, Zenon DEF TextArrives, IsText, Text
  <1> QED BY <1>1, <1>2, <1>3, <1>4 DEF Inv

LEMMA NextInv == Inv /\ [Next]_vars => Inv'
  <1> SUFFICES ASSUME Inv, [Next]_vars PROVE Inv'
    OBVIOUS
  <1>1. TypeOK /\ TimerInv /\ UartInv /\ TextArrives /\ \A m \in {4, Second} : MeasureInv(m)
    BY DEF Inv
  <1>2. TimerTypeOK
    BY <1>1 DEF TypeOK, TimerTypeOK
  <1>3. ASSUME NEW drain \in BOOLEAN, Access(drain) PROVE Inv'
    <2>1. TimerTypeOK' /\ TimerInv'
      <3>1. TimerTick(Main[pc])
        BY <1>3 DEF Access
      <3> QED BY <1>1, <1>2, <1>3, <3>1, TimerTypes, TimerAccess
    <2>2. MeasureTypeOK' /\ MeasureInv(4)' /\ MeasureInv(Second)'
      BY <1>1, <1>3, MeasureTypes, MeasureAccess
    <2>3. UartTypeOK' /\ UartInv' /\ TextArrives'
      BY <1>1, <1>3, UartAccess
    <2>4. pc' \in 1..(Len(Main) + 1) /\ gap' \in BOOLEAN
      <3>1. pc \in 1..(Len(Main) + 1)
        BY <1>1 DEF TypeOK
      <3>2. ~(pc > Len(Main)) /\ (pc' = pc \/ pc' = pc + 1) /\ gap' = TRUE
        BY <1>3 DEF Access, Done
      <3> QED BY <3>1, <3>2, MainLen
    <2>5. TypeOK'
      BY <2>1, <2>2, <2>3, <2>4 DEF TypeOK, TimerTypeOK, MeasureTypeOK, UartTypeOK, Char
    <2> QED BY <2>1, <2>2, <2>3, <2>5 DEF Inv
  <1>4. ASSUME NEW drain \in BOOLEAN, Stall(drain) PROVE Inv'
    <2>1. TimerTypeOK' /\ TimerInv'
      <3>1. TimerTick("none")
        BY <1>4 DEF Stall
      <3> QED BY <1>1, <1>2, <1>4, <3>1, TimerTypes, TimerStall
    <2>2. MeasureTypeOK' /\ MeasureInv(4)' /\ MeasureInv(Second)'
      BY <1>1, <1>4, MeasureStall
    <2>3. UartTypeOK' /\ UartInv' /\ TextArrives'
      BY <1>1, <1>4, UartStall
    <2>4. pc' \in 1..(Len(Main) + 1) /\ gap' \in BOOLEAN
      BY <1>1, <1>4 DEF Stall, TypeOK
    <2>5. TypeOK'
      BY <2>1, <2>2, <2>3, <2>4 DEF TypeOK, TimerTypeOK, MeasureTypeOK, UartTypeOK, Char
    <2> QED BY <2>1, <2>2, <2>3, <2>5 DEF Inv
  <1>5. CASE UNCHANGED vars
    <2>1. /\ UNCHANGED <<internal_counter, counter_is_running, period_h, period_l>>
          /\ UNCHANGED <<force_reload, counter_snapshot, fifo, fifo_wr, pc, gap, lower, n1>>
          /\ UNCHANGED <<put, got, age, began, ended>>
      BY <1>5 DEF vars, timer, uart, program, history
    <2>2. TypeOK'
      BY <1>1, <2>1 DEF TypeOK
    <2>3. TimerInv'
      BY <1>1, <2>1 DEF TimerInv
    <2>4. MeasureInv(4)' /\ MeasureInv(Second)'
      BY <1>1, <2>1 DEF MeasureInv
    <2>5. UartInv' /\ TextArrives'
      BY <1>1, <2>1, Zenon DEF UartInv, TextArrives, Done
    <2> QED BY <2>2, <2>3, <2>4, <2>5 DEF Inv
  <1> QED BY <1>3, <1>4, <1>5 DEF Next

(* The inductive invariant.                                                 *)
THEOREM Invariance == Spec => []Inv
  BY InitInv, NextInv, PTL DEF Spec

(* The registers keep their widths, and the FIFO its length.                *)
THEOREM TypeCorrect == Spec => []TypeOK
  <1>1. Inv => TypeOK
    BY DEF Inv
  <1> QED BY <1>1, Invariance, PTL

(* The host gets the text in its order.                                     *)
THEOREM TextInOrder == Spec => []TextArrives
  <1>1. Inv => TextArrives
    BY DEF Inv
  <1> QED BY <1>1, Invariance, PTL

LEMMA TimeOfReadings ==
  ASSUME NEW b \in 0..(Full + 1), NEW e \in 0..(Full + 1), b <= e, NEW n,
         n = (Reading(e) - Reading(b)) % (Full + 1)
  PROVE  n = CASE ~RanOut(e)              -> e - b
               [] RanOut(e) /\ ~RanOut(b) -> (0 - b) % (Full + 1)
               [] RanOut(b)               -> 0
  <1> DEFINE N == Full + 1
  <1>0. N \in Nat \ {0}
    BY FullFacts
  <1>1. CASE e # N
    <2>1. ~RanOut(e) /\ ~RanOut(b) /\ Reading(e) = e /\ Reading(b) = b
      BY <1>0, <1>1 DEF RanOut, Reading
    <2> DEFINE d == e - b
    <2>2. d \in 0..(N - 1) /\ d \in Int
      BY <1>0, <1>1
    <2> HIDE DEF N, d
    <2>3. d % N = d
      BY <1>0, <2>2, Residue
    <2> USE DEF d
    <2>4. n = e - b
      BY <2>1, <2>3 DEF N
    <2> QED BY <2>1, <2>4, Zenon
  <1>2. CASE e = N /\ b # N
    <2>1. RanOut(e) /\ ~RanOut(b) /\ Reading(e) = 0 /\ Reading(b) = b
      BY <1>2, Zenon DEF RanOut, Reading
    <2> QED BY <2>1, Zenon
  <1>3. CASE e = N /\ b = N
    <2>1. RanOut(e) /\ RanOut(b) /\ Reading(e) = 0 /\ Reading(b) = 0
      BY <1>3, Zenon DEF RanOut, Reading
    <2> HIDE DEF N
    <2>2. (0 - 0) % N = 0
      <3>1. 0 % N = 0
        BY <1>0, Residue
      <3> QED BY <3>1
    <2>3. n = 0
      BY <2>1, <2>2 DEF N
    <2> QED BY <2>1, <2>3, Zenon
  <1> QED BY <1>1, <1>2, <1>3

(* A time is that between its two readings, until the timer has run out.    *)
THEOREM TimesMeasured == Spec => []MeasuredTime
  <1>1. Inv => MeasuredTime
    <2> SUFFICES ASSUME Inv, Measured
                 PROVE  n1 = CASE ~RanOut(ended)                 -> ended - began
                               [] RanOut(ended) /\ ~RanOut(began) -> (0 - began) % (Full + 1)
                               [] RanOut(began)                   -> 0
      BY DEF MeasuredTime
    <2>1. \E m \in {4, Second} : pc = m + 7
      <3>1. pc - 1 \in 1..Len(Main) /\ Main[pc - 1] = "snaph2" /\ pc \in Nat
        BY MainLen DEF Inv, TypeOK, Measured
      <3>2. pc - 1 \in {10, Second + 6}
        BY <3>1, Places
      <3> QED BY <3>1, <3>2, MainLen
    <2>2. PICK m \in {4, Second} : pc = m + 7
      BY <2>1
    <2>3. MeasureInv(m) /\ pc - m = 7
      BY <2>2, MainLen DEF Inv
    <2>4. began <= ended /\ n1 = (Reading(ended) - Reading(began)) % (Full + 1)
      BY <2>3 DEF MeasureInv
    <2>5. began \in 0..(Full + 1) /\ ended \in 0..(Full + 1)
      BY DEF Inv, TypeOK
    <2> QED BY <2>4, <2>5, TimeOfReadings, Zenon
  <1> QED BY <1>1, Invariance, PTL
=============================================================================
