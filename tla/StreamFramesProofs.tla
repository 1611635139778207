------------------------- MODULE StreamFramesProofs -------------------------
(***************************************************************************)
(* What a queue of frames carries after a frame is sent on it or taken     *)
(* from it: the lemmas the proofs about the streams rest on.               *)
(***************************************************************************)
EXTENDS StreamFrames, TLAPS

\* An empty queue carries nothing.
LEMMA EmptyCarries ==
    ASSUME NEW n \in Nat
    PROVE  Carries(<<>>, n, n)
BY DEF Carries

\* Sending the next chunk: it is carried as well.
LEMMA SendData ==
    ASSUME NEW F, NEW q \in Seq(F), NEW lo \in Nat, NEW hi \in Nat, lo <= hi,
           Data(hi + 1) \in F, Carries(q, lo, hi)
    PROVE  Carries(Append(q, Data(hi + 1)), lo, hi + 1)
<1> DEFINE r == Append(q, Data(hi + 1))
<1>1. IsData(Data(hi + 1)) /\ Data(hi + 1).chunk = hi + 1
    BY DEF Data, IsData
<1>2. /\ Len(r) = Len(q) + 1 /\ Len(q) \in Nat
      /\ r[Len(q) + 1] = Data(hi + 1)
      /\ \A i \in 1..Len(q) : r[i] = q[i]
    OBVIOUS
<1>3. \A i \in 1..Len(r) : i \in 1..Len(q) \/ i = Len(q) + 1
    BY <1>2
<1> HIDE DEF r
<1>4. \A i \in 1..Len(r) : IsData(r[i]) => r[i].chunk \in (lo + 1)..(hi + 1)
    BY <1>1, <1>2, <1>3 DEF Carries
<1>5. ASSUME NEW i \in 1..Len(r), NEW j \in 1..Len(r), i < j, IsData(r[i]), IsData(r[j])
      PROVE  r[i].chunk < r[j].chunk
    <2>1. i \in 1..Len(q) /\ r[i] = q[i]
        BY <1>2, <1>3, <1>5
    <2>2. CASE j \in 1..Len(q)
        BY <1>2, <1>5, <2>1, <2>2 DEF Carries
    <2>3. CASE j = Len(q) + 1
        <3>1. r[i].chunk \in (lo + 1)..hi
            BY <1>5, <2>1 DEF Carries
        <3>2. QED
            BY <1>1, <1>2, <2>3, <3>1
    <2>4. QED
        BY <1>3, <2>2, <2>3
<1>6. ASSUME NEW n \in (lo + 1)..(hi + 1)
      PROVE  \E i \in 1..Len(r) : IsData(r[i]) /\ r[i].chunk = n
    <2>1. CASE n \in (lo + 1)..hi
        <3>1. PICK i \in 1..Len(q) : IsData(q[i]) /\ q[i].chunk = n
            BY <2>1 DEF Carries
        <3>2. i \in 1..Len(r) /\ r[i] = q[i]
            BY <1>2
        <3>3. QED
            BY <3>1, <3>2
    <2>2. CASE n = hi + 1
        BY <1>1, <1>2, <2>2
    <2>3. QED
        BY <2>1, <2>2
<1>7. Carries(r, lo, hi + 1)
    BY <1>4, <1>5, <1>6 DEF Carries
<1>8. QED
    BY <1>7 DEF r

\* Sending a frame that holds no chunk changes nothing.
LEMMA SendOther ==
    ASSUME NEW F, NEW q \in Seq(F), NEW lo \in Nat, NEW hi \in Nat,
           NEW f \in F, ~IsData(f), Carries(q, lo, hi)
    PROVE  Carries(Append(q, f), lo, hi)
<1> DEFINE r == Append(q, f)
<1>1. /\ Len(r) = Len(q) + 1 /\ Len(q) \in Nat
      /\ r[Len(q) + 1] = f
      /\ \A i \in 1..Len(q) : r[i] = q[i]
    OBVIOUS
<1>2. /\ \A i \in 1..Len(r) : IsData(r[i]) => i \in 1..Len(q) /\ r[i] = q[i]
      /\ \A i \in 1..Len(q) : i \in 1..Len(r)
    BY <1>1
<1> HIDE DEF r
<1>3. /\ \A i \in 1..Len(r) : IsData(r[i]) => r[i].chunk \in (lo + 1)..hi
      /\ \A i, j \in 1..Len(r) :
            i < j /\ IsData(r[i]) /\ IsData(r[j]) => r[i].chunk < r[j].chunk
    BY <1>2 DEF Carries
<1>4. \A n \in (lo + 1)..hi : \E i \in 1..Len(r) : IsData(r[i]) /\ r[i].chunk = n
    BY <1>1, <1>2 DEF Carries
<1>5. Carries(r, lo, hi)
    BY <1>3, <1>4 DEF Carries
<1>6. QED
    BY <1>5 DEF r

\* The frames of Tail(q) are those of q from the second on.
LEMMA TailShifts ==
    ASSUME NEW F, NEW q \in Seq(F), q # <<>>
    PROVE  /\ Len(q) \in Nat \ {0} /\ Len(Tail(q)) = Len(q) - 1
           /\ Head(q) = q[1] /\ Tail(q) \in Seq(F)
           /\ \A i \in 1..Len(Tail(q)) : i + 1 \in 2..Len(q) /\ Tail(q)[i] = q[i + 1]
           /\ \A i \in 2..Len(q) : i - 1 \in 1..Len(Tail(q)) /\ Tail(q)[i - 1] = q[i]
<1>1. /\ Len(q) \in Nat \ {0} /\ Len(Tail(q)) = Len(q) - 1
      /\ Head(q) = q[1] /\ Tail(q) \in Seq(F)
      /\ \A i \in 1..Len(Tail(q)) : Tail(q)[i] = q[i + 1]
    OBVIOUS
<1>2. \A i \in 2..Len(q) : i - 1 \in 1..Len(Tail(q)) /\ (i - 1) + 1 = i
    BY <1>1
<1>3. \A i \in 1..Len(Tail(q)) : i + 1 \in 2..Len(q)
    BY <1>1
<1>4. QED
    BY <1>1, <1>2, <1>3

\* Neither does taking one.
LEMMA TakeOther ==
    ASSUME NEW F, NEW q \in Seq(F), NEW lo \in Nat, NEW hi \in Nat,
           q # <<>>, ~IsData(Head(q)), Carries(q, lo, hi)
    PROVE  Carries(Tail(q), lo, hi)
<1> DEFINE r == Tail(q)
<1>1. /\ Len(q) \in Nat \ {0} /\ ~IsData(q[1])
      /\ \A i \in 1..Len(r) : i + 1 \in 1..Len(q) /\ r[i] = q[i + 1]
      /\ \A i \in 2..Len(q) : i - 1 \in 1..Len(r) /\ r[i - 1] = q[i]
      /\ Len(r) \in Nat
    BY TailShifts
<1> HIDE DEF r
<1>2. \A i \in 1..Len(r) : IsData(r[i]) => r[i].chunk \in (lo + 1)..hi
    BY <1>1 DEF Carries
<1>3. ASSUME NEW i \in 1..Len(r), NEW j \in 1..Len(r), i < j, IsData(r[i]), IsData(r[j])
      PROVE  r[i].chunk < r[j].chunk
    <2>1. /\ i + 1 \in 1..Len(q) /\ j + 1 \in 1..Len(q) /\ i + 1 < j + 1
          /\ r[i] = q[i + 1] /\ r[j] = q[j + 1]
        BY <1>1, <1>3
    <2>2. QED
        BY <1>3, <2>1 DEF Carries
<1>4. ASSUME NEW n \in (lo + 1)..hi
      PROVE  \E i \in 1..Len(r) : IsData(r[i]) /\ r[i].chunk = n
    <2>1. PICK i \in 1..Len(q) : IsData(q[i]) /\ q[i].chunk = n
        BY DEF Carries
    <2>2. i - 1 \in 1..Len(r) /\ r[i - 1] = q[i]
        BY <1>1, <2>1
    <2>3. QED
        BY <2>1, <2>2
<1>5. Carries(r, lo, hi)
    BY <1>2, <1>3, <1>4 DEF Carries
<1>6. QED
    BY <1>5 DEF r

\* Taking a chunk: it is the first one, and the rest is carried on.
LEMMA TakeData ==
    ASSUME NEW F, NEW q \in Seq(F), NEW lo \in Nat, NEW hi \in Nat,
           q # <<>>, IsData(Head(q)), Carries(q, lo, hi)
    PROVE  /\ Head(q).chunk = lo + 1 /\ lo + 1 <= hi
           /\ Carries(Tail(q), lo + 1, hi)
<1> DEFINE r == Tail(q)
<1>1. /\ Len(q) \in Nat \ {0} /\ IsData(q[1]) /\ 1 \in 1..Len(q) /\ Head(q) = q[1]
      /\ \A i \in 1..Len(r) : i + 1 \in 1..Len(q) /\ 1 < i + 1 /\ r[i] = q[i + 1]
      /\ \A i \in 2..Len(q) : i - 1 \in 1..Len(r) /\ r[i - 1] = q[i]
      /\ Len(r) \in Nat
    BY TailShifts
<1> HIDE DEF r
<1>2. q[1].chunk \in (lo + 1)..hi
    BY <1>1 DEF Carries
<1>3. PICK k \in 1..Len(q) : IsData(q[k]) /\ q[k].chunk = lo + 1
    BY <1>2 DEF Carries
<1>4. q[1].chunk = lo + 1
    <2>1. CASE k = 1
        BY <1>3, <2>1
    <2>2. CASE 1 < k
        <3>1. q[1].chunk < q[k].chunk
            BY <1>1, <1>3, <2>2 DEF Carries
        <3>2. QED
            BY <1>2, <1>3, <3>1
    <2>3. QED
        BY <2>1, <2>2
<1>5. ASSUME NEW i \in 1..Len(r), IsData(r[i])
      PROVE  r[i].chunk \in (lo + 2)..hi
    <2>1. q[i + 1].chunk \in (lo + 1)..hi /\ q[1].chunk < q[i + 1].chunk
        BY <1>1, <1>5 DEF Carries
    <2>2. QED
        BY <1>1, <1>4, <2>1
<1>6. ASSUME NEW i \in 1..Len(r), NEW j \in 1..Len(r), i < j, IsData(r[i]), IsData(r[j])
      PROVE  r[i].chunk < r[j].chunk
    <2>1. /\ i + 1 \in 1..Len(q) /\ j + 1 \in 1..Len(q) /\ i + 1 < j + 1
          /\ r[i] = q[i + 1] /\ r[j] = q[j + 1]
        BY <1>1, <1>6
    <2>2. QED
        BY <1>6, <2>1 DEF Carries
<1>7. ASSUME NEW n \in (lo + 2)..hi
      PROVE  \E i \in 1..Len(r) : IsData(r[i]) /\ r[i].chunk = n
    <2>1. PICK i \in 1..Len(q) : IsData(q[i]) /\ q[i].chunk = n
        BY DEF Carries
    <2>2. i # 1
        BY <1>4, <2>1
    <2>3. i - 1 \in 1..Len(r) /\ r[i - 1] = q[i]
        BY <1>1, <2>2
    <2>4. QED
        BY <2>1, <2>3
<1>8. Carries(r, lo + 1, hi)
    <2>1. (lo + 1) + 1 = lo + 2
        OBVIOUS
    <2>2. QED
        BY <1>5, <1>6, <1>7, <2>1 DEF Carries
<1>9. QED
    BY <1>1, <1>2, <1>4, <1>8 DEF r

\* A queue without data frames carries nothing.
LEMMA NothingCarried ==
    ASSUME NEW F, NEW q \in Seq(F), NEW lo \in Nat, NEW hi \in Nat, lo <= hi,
           \A i \in 1..Len(q) : ~IsData(q[i]), Carries(q, lo, hi)
    PROVE  lo = hi
BY DEF Carries

\* A queue with one more frame.
LEMMA SendKeeps ==
    ASSUME NEW F, NEW q \in Seq(F), NEW f \in F
    PROVE  /\ Len(Append(q, f)) = Len(q) + 1 /\ Len(q) \in Nat
           /\ Append(q, f) # <<>>
           /\ Append(q, f)[Len(q) + 1] = f
           /\ \A i \in 1..Len(q) : Append(q, f)[i] = q[i]
           /\ \A i \in 1..Len(Append(q, f)) : i \in 1..Len(q) \/ i = Len(q) + 1
<1>1. /\ Len(Append(q, f)) = Len(q) + 1 /\ Len(q) \in Nat
      /\ Append(q, f)[Len(q) + 1] = f
      /\ \A i \in 1..Len(q) : Append(q, f)[i] = q[i]
    OBVIOUS
<1>2. Append(q, f) # <<>>
    BY <1>1
<1>3. \A i \in 1..Len(Append(q, f)) : i \in 1..Len(q) \/ i = Len(q) + 1
    BY <1>1
<1>4. QED
    BY <1>1, <1>2, <1>3

\* A frame that is the last of the queue stays so when another is taken.
LEMMA LastStaysLast ==
    ASSUME NEW F, NEW q \in Seq(F), q # <<>>, NEW t,
           \A i \in 1..Len(q) : q[i].type = t => i = Len(q)
    PROVE  \A i \in 1..Len(Tail(q)) : Tail(q)[i].type = t => i = Len(Tail(q))
<1> DEFINE r == Tail(q)
<1>1. \A i \in 1..Len(r) : i + 1 \in 1..Len(q) /\ r[i] = q[i + 1]
    BY TailShifts
<1>2. Len(r) = Len(q) - 1 /\ Len(q) \in Nat
    BY TailShifts
<1> HIDE DEF r
<1>3. ASSUME NEW i \in 1..Len(r), r[i].type = t
      PROVE  i = Len(r)
    <2>1. i + 1 = Len(q)
        BY <1>1, <1>3
    <2>2. QED
        BY <1>2, <2>1
<1>4. QED
    BY <1>3 DEF r
=============================================================================
