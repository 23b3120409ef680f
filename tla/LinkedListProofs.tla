-------------------------- MODULE LinkedListProofs --------------------------
(***************************************************************************)
(* LinkedList links what its history says (IndInv), and implements         *)
(* WaitQueue, for any set of nodes.                                        *)
(***************************************************************************)
EXTENDS LinkedList, SequenceTheorems, TLAPS

(***************************************************************************)
(* IndInv as a relation between values, in terms of positions only.        *)
(***************************************************************************)
Links(h, t, p, x, q) ==
    /\ q \in Seq(Nodes)
    /\ p \in [Nodes -> Nodes \cup {Null}]
    /\ x \in [Nodes -> Nodes \cup {Null}]
    /\ \A i, j \in 1..Len(q) : q[i] = q[j] => i = j
    /\ t = IF Len(q) = 0 THEN Null ELSE q[1]
    /\ h = IF Len(q) = 0 THEN Null ELSE q[Len(q)]
    /\ \A i \in 1..Len(q) :
          /\ p[q[i]] = IF i = Len(q) THEN Null ELSE q[i + 1]
          /\ x[q[i]] = IF i = 1 THEN Null ELSE q[i - 1]
    /\ \A n \in Nodes :
          (\A i \in 1..Len(q) : q[i] # n) => p[n] = Null /\ x[n] = Null

LEMMA SeqFacts ==
    ASSUME NEW q \in Seq(Nodes)
    PROVE  /\ Len(q) \in Nat
           /\ DOMAIN q = 1..Len(q)
           /\ q = <<>> <=> Len(q) = 0
           /\ \A i \in 1..Len(q) : q[i] \in Nodes /\ q[i] # Null
           /\ \A n : n \in Range(q) <=> \E i \in 1..Len(q) : q[i] = n
  BY EmptySeq, LinkedListAssumption DEF Range

LEMMA LinksEquiv ==
    ASSUME NEW h, NEW t, NEW p, NEW x, NEW q \in Seq(Nodes)
    PROVE  /\ Links(h, t, p, x, q) => h \in Nodes \cup {Null} /\ t \in Nodes \cup {Null}
           /\ Links(h, t, p, x, q) <=>
              /\ p \in [Nodes -> Nodes \cup {Null}]
              /\ x \in [Nodes -> Nodes \cup {Null}]
              /\ Distinct(q)
              /\ t = IF q = <<>> THEN Null ELSE q[1]
              /\ h = IF q = <<>> THEN Null ELSE q[Len(q)]
              /\ \A i \in DOMAIN q :
                    /\ p[q[i]] = IF i = Len(q) THEN Null ELSE q[i + 1]
                    /\ x[q[i]] = IF i = 1 THEN Null ELSE q[i - 1]
              /\ \A n \in Nodes \ Range(q) : p[n] = Null /\ x[n] = Null
<1>1. /\ Len(q) \in Nat
      /\ DOMAIN q = 1..Len(q)
      /\ q = <<>> <=> Len(q) = 0
      /\ \A i \in 1..Len(q) : q[i] \in Nodes /\ q[i] # Null
      /\ \A n : n \in Range(q) <=> \E i \in 1..Len(q) : q[i] = n
  BY SeqFacts
<1>2. Links(h, t, p, x, q) => h \in Nodes \cup {Null} /\ t \in Nodes \cup {Null}
  <2>. SUFFICES ASSUME Links(h, t, p, x, q)
                PROVE  h \in Nodes \cup {Null} /\ t \in Nodes \cup {Null}
    OBVIOUS
  <2>1. CASE Len(q) = 0
    BY <2>1 DEF Links
  <2>2. CASE Len(q) # 0
    <3>1. 1 \in 1..Len(q) /\ Len(q) \in 1..Len(q)
      BY <1>1, <2>2
    <3>. QED
      BY <1>1, <2>2, <3>1 DEF Links
  <2>. QED
    BY <2>1, <2>2
<1>3. Distinct(q) <=> \A i, j \in 1..Len(q) : q[i] = q[j] => i = j
  BY <1>1 DEF Distinct
<1>4. (\A n \in Nodes : (\A i \in 1..Len(q) : q[i] # n) => p[n] = Null /\ x[n] = Null)
      <=> (\A n \in Nodes \ Range(q) : p[n] = Null /\ x[n] = Null)
  BY <1>1
<1>5. \A v, w : (IF q = <<>> THEN v ELSE w) = (IF Len(q) = 0 THEN v ELSE w)
  BY <1>1
<1>6. ASSUME Links(h, t, p, x, q)
      PROVE  /\ t = IF q = <<>> THEN Null ELSE q[1]
             /\ h = IF q = <<>> THEN Null ELSE q[Len(q)]
             /\ Distinct(q)
             /\ \A i \in DOMAIN q :
                   /\ p[q[i]] = IF i = Len(q) THEN Null ELSE q[i + 1]
                   /\ x[q[i]] = IF i = 1 THEN Null ELSE q[i - 1]
             /\ \A n \in Nodes \ Range(q) : p[n] = Null /\ x[n] = Null
             /\ p \in [Nodes -> Nodes \cup {Null}]
             /\ x \in [Nodes -> Nodes \cup {Null}]
  BY <1>1, <1>3, <1>4, <1>5, <1>6 DEF Links
<1>7. ASSUME p \in [Nodes -> Nodes \cup {Null}],
             x \in [Nodes -> Nodes \cup {Null}],
             Distinct(q),
             t = IF q = <<>> THEN Null ELSE q[1],
             h = IF q = <<>> THEN Null ELSE q[Len(q)],
             \A i \in DOMAIN q :
                /\ p[q[i]] = IF i = Len(q) THEN Null ELSE q[i + 1]
                /\ x[q[i]] = IF i = 1 THEN Null ELSE q[i - 1],
             \A n \in Nodes \ Range(q) : p[n] = Null /\ x[n] = Null
      PROVE  Links(h, t, p, x, q)
  BY <1>1, <1>3, <1>4, <1>5, <1>7 DEF Links
<1>. QED
  BY <1>2, <1>6, <1>7

LEMMA IndInvLinks ==
    IndInv <=> Links(head, tail, prev, next, order) /\ result \in Nodes \cup {Null}
<1>1. IndInv => order \in Seq(Nodes)
  BY DEF IndInv, TypeOK
<1>2. Links(head, tail, prev, next, order) => order \in Seq(Nodes)
  BY DEF Links
<1>. QED
  BY <1>1, <1>2, LinksEquiv DEF IndInv, TypeOK, Linked

LEMMA IndInvLinksPrime ==
    IndInv' <=> Links(head', tail', prev', next', order') /\ result' \in Nodes \cup {Null}
<1>1. IndInv' => order' \in Seq(Nodes)
  BY DEF IndInv, TypeOK
<1>2. Links(head', tail', prev', next', order') => order' \in Seq(Nodes)
  BY DEF Links
<1>. QED
  BY <1>1, <1>2, LinksEquiv DEF IndInv, TypeOK, Linked
-----------------------------------------------------------------------------
(***************************************************************************)
(* The calls, on values.                                                   *)
(***************************************************************************)
LEMMA PushLinks ==
    ASSUME NEW h, NEW t, NEW p, NEW x, NEW q, Links(h, t, p, x, q),
           NEW n \in Nodes, \A i \in 1..Len(q) : q[i] # n
    PROVE  Links(n, IF t = Null THEN n ELSE t,
                 [m \in Nodes |-> IF m = h THEN n ELSE IF m = n THEN Null ELSE p[m]],
                 [x EXCEPT ![n] = h],
                 Append(q, n))
<1>. DEFINE t2 == IF t = Null THEN n ELSE t
            p2 == [m \in Nodes |-> IF m = h THEN n ELSE IF m = n THEN Null ELSE p[m]]
            x2 == [x EXCEPT ![n] = h]
            w == Append(q, n)
<1>0. /\ q \in Seq(Nodes)
      /\ p \in [Nodes -> Nodes \cup {Null}]
      /\ x \in [Nodes -> Nodes \cup {Null}]
  BY DEF Links
<1>1. /\ w \in Seq(Nodes)
      /\ Len(w) = Len(q) + 1
      /\ \A i \in 1..Len(q) : w[i] = q[i]
      /\ w[Len(q) + 1] = n
  BY <1>0, AppendProperties
<1>2. /\ Len(q) \in Nat
      /\ \A i \in 1..Len(q) : q[i] \in Nodes /\ q[i] # Null
      /\ h \in Nodes \cup {Null}
      /\ n # Null
  BY <1>0, SeqFacts, LinksEquiv, LinkedListAssumption
<1>3. /\ p2 \in [Nodes -> Nodes \cup {Null}]
      /\ x2 \in [Nodes -> Nodes \cup {Null}]
      /\ \A m \in Nodes : p2[m] = IF m = h THEN n ELSE IF m = n THEN Null ELSE p[m]
      /\ \A m \in Nodes : x2[m] = IF m = n THEN h ELSE x[m]
  BY <1>0, <1>2
<1>. HIDE DEF w, p2, x2
<1>4. \A i, j \in 1..Len(w) : w[i] = w[j] => i = j
  <2>. SUFFICES ASSUME NEW i \in 1..Len(q)+1, NEW j \in 1..Len(q)+1, w[i] = w[j]
                PROVE  i = j
    BY <1>1
  <2>1. \A k, l \in 1..Len(q) : q[k] = q[l] => k = l
    BY DEF Links
  <2>. QED
    BY <1>1, <1>2, <2>1
<1>5. t2 = w[1] /\ n = w[Len(w)]
  <2>1. CASE Len(q) = 0
    BY <1>1, <2>1 DEF Links
  <2>2. CASE Len(q) # 0
    BY <1>1, <1>2, <2>2 DEF Links
  <2>. QED
    BY <2>1, <2>2
<1>6. ASSUME NEW i \in 1..Len(w)
      PROVE  /\ p2[w[i]] = IF i = Len(w) THEN Null ELSE w[i + 1]
             /\ x2[w[i]] = IF i = 1 THEN Null ELSE w[i - 1]
  <2>0. \A k \in 1..Len(q) : /\ p[q[k]] = IF k = Len(q) THEN Null ELSE q[k + 1]
                             /\ x[q[k]] = IF k = 1 THEN Null ELSE q[k - 1]
    BY DEF Links
  <2>1. CASE i = Len(q) + 1
    <3>1. w[i] = n /\ n # h
      <4>1. Len(q) # 0 => h = q[Len(q)]
        BY DEF Links
      <4>2. Len(q) = 0 => h = Null
        BY DEF Links
      <4>. QED
        BY <1>1, <1>2, <2>1, <4>1, <4>2
    <3>2. p2[n] = Null /\ x2[n] = h
      BY <1>3, <3>1
    <3>3. h = IF i = 1 THEN Null ELSE w[i - 1]
      <4>1. CASE Len(q) = 0
        BY <2>1, <4>1 DEF Links
      <4>2. CASE Len(q) # 0
        BY <1>1, <1>2, <2>1, <4>2 DEF Links
      <4>. QED
        BY <4>1, <4>2
    <3>. QED
      BY <1>1, <2>1, <3>1, <3>2, <3>3
  <2>2. CASE i = Len(q)
    <3>1. w[i] = q[i] /\ q[i] = h /\ q[i] # n /\ q[i] \in Nodes
      BY <1>1, <1>2, <2>2 DEF Links
    <3>2. p2[w[i]] = n /\ x2[w[i]] = x[q[i]]
      BY <1>3, <3>1
    <3>3. x[q[i]] = IF i = 1 THEN Null ELSE w[i - 1]
      BY <1>1, <1>2, <2>0, <2>2
    <3>. QED
      BY <1>1, <1>2, <2>2, <3>2, <3>3
  <2>3. CASE i < Len(q)
    <3>1. i \in 1..Len(q) /\ i + 1 \in 1..Len(q)
      BY <1>1, <1>2, <2>3
    <3>2. h = q[Len(q)] /\ q[i] # q[Len(q)]
      BY <1>2, <2>3, <3>1 DEF Links
    <3>3. w[i] = q[i] /\ q[i] # h /\ q[i] # n /\ q[i] \in Nodes
      BY <1>1, <1>2, <3>1, <3>2
    <3>4. p2[w[i]] = p[q[i]] /\ x2[w[i]] = x[q[i]]
      BY <1>3, <3>3
    <3>5. p[q[i]] = w[i + 1]
      BY <1>1, <2>0, <2>3, <3>1
    <3>6. x[q[i]] = IF i = 1 THEN Null ELSE w[i - 1]
      BY <1>1, <2>0, <3>1
    <3>. QED
      BY <1>1, <2>3, <3>1, <3>4, <3>5, <3>6
  <2>. QED
    BY <1>1, <1>2, <2>1, <2>2, <2>3
<1>7. ASSUME NEW m \in Nodes, \A i \in 1..Len(w) : w[i] # m
      PROVE  p2[m] = Null /\ x2[m] = Null
  <2>1. \A i \in 1..Len(q) : q[i] # m
    BY <1>1, <1>2, <1>7
  <2>2. m # n
    BY <1>1, <1>2, <1>7
  <2>3. m # h
    <3>1. h # Null => h = q[Len(q)] /\ Len(q) \in 1..Len(q)
      BY <1>2 DEF Links
    <3>. QED
      BY <2>1, <3>1, LinkedListAssumption
  <2>4. p[m] = Null /\ x[m] = Null
    BY <2>1 DEF Links
  <2>. QED
    BY <1>3, <2>2, <2>3, <2>4
<1>8. Links(n, t2, p2, x2, w)
  <2>1. Len(w) # 0
    BY <1>1, <1>2
  <2>. HIDE DEF t2
  <2>. QED
    BY <1>1, <1>3, <1>4, <1>5, <1>6, <1>7, <2>1 DEF Links
<1>. QED
  BY <1>8 DEF p2, x2, w

Popped(h, t, p, x, q, h2, t2, p2, x2, w) ==
    /\ h2 = IF p[t] = Null THEN Null ELSE h
    /\ t2 = p[t]
    /\ p2 = [p EXCEPT ![t] = Null]
    /\ x2 = [m \in Nodes |-> IF m = p[t] \/ m = t THEN Null ELSE x[m]]
    /\ w = Tail(q)

LEMMA PopLinks ==
    ASSUME NEW h, NEW t, NEW p, NEW x, NEW q, Links(h, t, p, x, q), t # Null,
           NEW h2, NEW t2, NEW p2, NEW x2, NEW w,
           Popped(h, t, p, x, q, h2, t2, p2, x2, w)
    PROVE  q # <<>> /\ t = Head(q) /\ Links(h2, t2, p2, x2, w)
<1>0. /\ q \in Seq(Nodes)
      /\ p \in [Nodes -> Nodes \cup {Null}]
      /\ x \in [Nodes -> Nodes \cup {Null}]
      /\ Len(q) # 0
      /\ t = q[1]
      /\ h = q[Len(q)]
      /\ \A i, j \in 1..Len(q) : q[i] = q[j] => i = j
      /\ \A i \in 1..Len(q) : /\ p[q[i]] = IF i = Len(q) THEN Null ELSE q[i + 1]
                              /\ x[q[i]] = IF i = 1 THEN Null ELSE q[i - 1]
      /\ \A m \in Nodes : (\A i \in 1..Len(q) : q[i] # m) => p[m] = Null /\ x[m] = Null
  BY DEF Links
<1>1a. Len(q) \in Nat /\ Len(q) # 0
  BY <1>0, SeqFacts
<1>1. /\ Len(q) \in Nat \ {0}
      /\ q # <<>>
      /\ \A i \in 1..Len(q) : q[i] \in Nodes /\ q[i] # Null
      /\ t \in Nodes
  BY <1>0, SeqFacts
<1>2. /\ w \in Seq(Nodes)
      /\ Len(w) = Len(q) - 1
      /\ \A i \in 1..Len(q) - 1 : w[i] = q[i + 1]
      /\ t = Head(q)
  BY <1>0, <1>1, HeadTailProperties DEF Popped
<1>3. /\ p2 \in [Nodes -> Nodes \cup {Null}]
      /\ x2 \in [Nodes -> Nodes \cup {Null}]
      /\ \A m \in Nodes : p2[m] = IF m = t THEN Null ELSE p[m]
      /\ \A m \in Nodes : x2[m] = IF m = t2 \/ m = t THEN Null ELSE x[m]
  BY <1>0, <1>1 DEF Popped
<1>4. t2 = IF Len(q) = 1 THEN Null ELSE q[2]
  <2>1. 1 \in 1..Len(q) /\ t = q[1]
    BY <1>0, <1>1
  <2>2. p[q[1]] = IF 1 = Len(q) THEN Null ELSE q[1 + 1]
    BY <1>0, <2>1
  <2>. QED
    BY <1>1, <2>1, <2>2 DEF Popped
<1>5. \A i, j \in 1..Len(w) : w[i] = w[j] => i = j
  <2>. SUFFICES ASSUME NEW i \in 1..Len(q)-1, NEW j \in 1..Len(q)-1, w[i] = w[j]
                PROVE  i = j
    BY <1>2
  <2>1. /\ i + 1 \in 1..Len(q)
        /\ j + 1 \in 1..Len(q)
        /\ q[i + 1] = q[j + 1]
    BY <1>1, <1>2
  <2>2. i + 1 = j + 1
    BY <1>0, <2>1
  <2>. QED
    BY <2>2
<1>6. /\ t2 = IF Len(w) = 0 THEN Null ELSE w[1]
      /\ h2 = IF Len(w) = 0 THEN Null ELSE w[Len(w)]
  <2>1. CASE Len(q) = 1
    <3>1. t2 = Null /\ Len(w) = 0
      BY <1>2, <1>4, <2>1
    <3>. QED
      BY <3>1 DEF Popped
  <2>2. CASE Len(q) # 1
    <3>0. Len(q) \in Nat /\ Len(q) > 1
      <4>1. \A k \in Nat : k # 0 /\ k # 1 => k > 1
        OBVIOUS
      <4>. QED
        BY <1>1a, <2>2, <4>1
    <3>1. 1 \in 1..Len(q) - 1 /\ Len(q) - 1 \in 1..Len(q) - 1 /\ 2 \in 1..Len(q)
      BY <3>0
    <3>2. t2 = q[2] /\ q[2] # Null
      BY <1>1, <1>4, <2>2, <3>1
    <3>3. w[1] = q[2] /\ w[Len(w)] = q[Len(q)] /\ Len(w) # 0
      BY <1>1, <1>2, <2>2, <3>1
    <3>4. p[t] # Null /\ h2 = h
      BY <3>2 DEF Popped
    <3>. QED
      BY <1>0, <3>2, <3>3, <3>4
  <2>. QED
    BY <2>1, <2>2
<1>7. ASSUME NEW i \in 1..Len(w)
      PROVE  /\ p2[w[i]] = IF i = Len(w) THEN Null ELSE w[i + 1]
             /\ x2[w[i]] = IF i = 1 THEN Null ELSE w[i - 1]
  <2>1. /\ i + 1 \in 1..Len(q)
        /\ w[i] = q[i + 1]
        /\ q[i + 1] \in Nodes
        /\ q[i + 1] # t
    BY <1>0, <1>1, <1>2
  <2>2. p2[w[i]] = IF i = Len(w) THEN Null ELSE w[i + 1]
    <3>1. p2[w[i]] = p[q[i + 1]]
      BY <1>3, <2>1
    <3>. QED
      BY <1>0, <1>1, <1>2, <2>1, <3>1
  <2>3. CASE i = 1
    BY <1>2, <1>3, <1>4, <1>1, <2>1, <2>2, <2>3
  <2>4. CASE i # 1
    <3>1. t2 = q[2] /\ 2 \in 1..Len(q) /\ q[i + 1] # q[2]
      BY <1>0, <1>1, <1>2, <1>4, <2>1, <2>4
    <3>2. x2[w[i]] = x[q[i + 1]]
      BY <1>3, <2>1, <3>1
    <3>3. x[q[i + 1]] = q[i]
      BY <1>0, <1>1, <2>1, <2>4
    <3>4. i - 1 \in 1..Len(q) - 1 /\ w[i - 1] = q[i]
      BY <1>1, <1>2, <2>4
    <3>. QED
      BY <2>2, <2>4, <3>2, <3>3, <3>4
  <2>. QED
    BY <2>3, <2>4
<1>8. ASSUME NEW m \in Nodes, \A i \in 1..Len(w) : w[i] # m
      PROVE  p2[m] = Null /\ x2[m] = Null
  <2>1. CASE m = t
    BY <1>3, <2>1
  <2>2. CASE m # t
    <3>1. ASSUME NEW i \in 1..Len(q) PROVE q[i] # m
      <4>1. CASE i = 1
        BY <1>0, <2>2, <4>1
      <4>2. CASE i # 1
        <5>1. i - 1 \in 1..Len(w) /\ w[i - 1] = q[i]
          BY <1>1, <1>2, <4>2
        <5>. QED
          BY <1>8, <5>1
      <4>. QED
        BY <4>1, <4>2
    <3>2. p[m] = Null /\ x[m] = Null
      BY <1>0, <3>1
    <3>. QED
      BY <1>3, <3>2
  <2>. QED
    BY <2>1, <2>2
<1>. QED
  BY <1>1, <1>2, <1>3, <1>5, <1>6, <1>7, <1>8 DEF Links

\* A node is in the list exactly if remove finds that it has a neighbour on either
\* side or is at that end.
LEMMA InList ==
    ASSUME NEW h, NEW t, NEW p, NEW x, NEW q, Links(h, t, p, x, q),
           NEW n \in Nodes
    PROVE  /\ n \in Range(q) <=> p[n] # Null \/ h = n
           /\ n \in Range(q) <=> x[n] # Null \/ t = n
<1>0. /\ q \in Seq(Nodes)
      /\ \A i \in 1..Len(q) : /\ p[q[i]] = IF i = Len(q) THEN Null ELSE q[i + 1]
                              /\ x[q[i]] = IF i = 1 THEN Null ELSE q[i - 1]
      /\ \A m \in Nodes : (\A i \in 1..Len(q) : q[i] # m) => p[m] = Null /\ x[m] = Null
      /\ t = IF Len(q) = 0 THEN Null ELSE q[1]
      /\ h = IF Len(q) = 0 THEN Null ELSE q[Len(q)]
  BY DEF Links
<1>1. /\ Len(q) \in Nat
      /\ \A i \in 1..Len(q) : q[i] \in Nodes /\ q[i] # Null
      /\ \A m : m \in Range(q) <=> \E i \in 1..Len(q) : q[i] = m
      /\ n # Null
  BY <1>0, SeqFacts, LinkedListAssumption
<1>2. ASSUME n \in Range(q)
      PROVE  (p[n] # Null \/ h = n) /\ (x[n] # Null \/ t = n)
  <2>1. PICK i \in 1..Len(q) : q[i] = n
    BY <1>1, <1>2
  <2>2. p[n] # Null \/ h = n
    <3>1. CASE i = Len(q)
      BY <1>0, <1>1, <2>1, <3>1
    <3>2. CASE i # Len(q)
      <4>1. i + 1 \in 1..Len(q)
        BY <1>1, <3>2
      <4>. QED
        BY <1>0, <1>1, <2>1, <3>2, <4>1
    <3>. QED
      BY <3>1, <3>2
  <2>3. x[n] # Null \/ t = n
    <3>1. CASE i = 1
      BY <1>0, <1>1, <2>1, <3>1
    <3>2. CASE i # 1
      <4>1. i - 1 \in 1..Len(q)
        BY <1>1, <3>2
      <4>. QED
        BY <1>0, <1>1, <2>1, <3>2, <4>1
    <3>. QED
      BY <3>1, <3>2
  <2>. QED
    BY <2>2, <2>3
<1>3. ASSUME n \notin Range(q)
      PROVE  p[n] = Null /\ h # n /\ x[n] = Null /\ t # n
  <2>1. \A i \in 1..Len(q) : q[i] # n
    BY <1>1, <1>3
  <2>2. Len(q) # 0 => 1 \in 1..Len(q) /\ Len(q) \in 1..Len(q)
    BY <1>1
  <2>. QED
    BY <1>0, <1>1, <2>1, <2>2
<1>. QED
  BY <1>2, <1>3

Removed(n, h, t, p, x, q, h2, t2, p2, x2, w) ==
    /\ h2 = IF p[n] = Null THEN x[n] ELSE h
    /\ t2 = IF x[n] = Null THEN p[n] ELSE t
    /\ p2 = [m \in Nodes |->
               IF m = n THEN Null ELSE IF m = x[n] THEN p[n] ELSE p[m]]
    /\ x2 = [m \in Nodes |->
               IF m = n THEN Null ELSE IF m = p[n] THEN x[n] ELSE x[m]]
    /\ w = Without(q, n)

\* A queue that a node leaves closes the gap at its position.
LEMMA GapCloses ==
    ASSUME NEW q \in Seq(Nodes), NEW n \in Range(q)
    PROVE  \E k \in 1..Len(q) :
              /\ q[k] = n
              /\ Without(q, n) \in Seq(Nodes)
              /\ Len(Without(q, n)) = Len(q) - 1
              /\ \A i \in 1..Len(q) - 1 :
                    Without(q, n)[i] = IF i < k THEN q[i] ELSE q[i + 1]
<1>. DEFINE k == CHOOSE j \in 1..Len(q) : q[j] = n
            l == SubSeq(q, 1, k - 1)
            r == SubSeq(q, k + 1, Len(q))
<1>1. k \in 1..Len(q) /\ q[k] = n
  <2>1. \E j \in 1..Len(q) : q[j] = n
    BY DEF Range
  <2>. QED
    BY <2>1
<1>2. Without(q, n) = l \o r
  BY DEF Without
<1>. HIDE DEF k
<1>3. /\ l \in Seq(Nodes) /\ Len(l) = k - 1
      /\ \A i \in 1..k-1 : l[i] = q[i]
  BY <1>1, SubSeqProperties
<1>4. /\ r \in Seq(Nodes) /\ Len(r) = Len(q) - k
      /\ \A i \in 1..Len(q)-k : r[i] = q[k + i]
  BY <1>1, SubSeqProperties
<1>. HIDE DEF l, r
<1>5. /\ l \o r \in Seq(Nodes)
      /\ Len(l \o r) = Len(q) - 1
      /\ \A i \in 1..Len(q)-1 : (l \o r)[i] = IF i < k THEN q[i] ELSE q[i + 1]
  <2>1. /\ l \o r \in Seq(Nodes)
        /\ Len(l \o r) = Len(l) + Len(r)
        /\ \A i \in 1..Len(l) + Len(r) :
              (l \o r)[i] = IF i <= Len(l) THEN l[i] ELSE r[i - Len(l)]
    BY <1>3, <1>4, ConcatProperties
  <2>. QED
    BY <1>1, <1>3, <1>4, <2>1
<1>. QED
  BY <1>1, <1>2, <1>5

LEMMA RemoveLinks ==
    ASSUME NEW h, NEW t, NEW p, NEW x, NEW q, Links(h, t, p, x, q),
           NEW n \in Nodes, n \in Range(q),
           NEW h2, NEW t2, NEW p2, NEW x2, NEW w,
           Removed(n, h, t, p, x, q, h2, t2, p2, x2, w)
    PROVE  Links(h2, t2, p2, x2, w)
<1>0. /\ q \in Seq(Nodes)
      /\ p \in [Nodes -> Nodes \cup {Null}]
      /\ x \in [Nodes -> Nodes \cup {Null}]
      /\ \A i, j \in 1..Len(q) : q[i] = q[j] => i = j
      /\ t = IF Len(q) = 0 THEN Null ELSE q[1]
      /\ h = IF Len(q) = 0 THEN Null ELSE q[Len(q)]
      /\ \A i \in 1..Len(q) : /\ p[q[i]] = IF i = Len(q) THEN Null ELSE q[i + 1]
                              /\ x[q[i]] = IF i = 1 THEN Null ELSE q[i - 1]
      /\ \A m \in Nodes : (\A i \in 1..Len(q) : q[i] # m) => p[m] = Null /\ x[m] = Null
  BY DEF Links
<1>1. /\ Len(q) \in Nat
      /\ \A i \in 1..Len(q) : q[i] \in Nodes /\ q[i] # Null
      /\ n # Null
  BY <1>0, SeqFacts, LinkedListAssumption
<1>2a. w = Without(q, n)
  BY DEF Removed
<1>2. \E k \in 1..Len(q) :
         /\ q[k] = n
         /\ Without(q, n) \in Seq(Nodes)
         /\ Len(Without(q, n)) = Len(q) - 1
         /\ \A i \in 1..Len(q) - 1 :
               Without(q, n)[i] = IF i < k THEN q[i] ELSE q[i + 1]
  BY <1>0, GapCloses
<1>3. PICK k \in 1..Len(q) :
         /\ q[k] = n
         /\ w \in Seq(Nodes)
         /\ Len(w) = Len(q) - 1
         /\ \A i \in 1..Len(q) - 1 : w[i] = IF i < k THEN q[i] ELSE q[i + 1]
  BY <1>2, <1>2a
<1>4. /\ p2 \in [Nodes -> Nodes \cup {Null}]
      /\ x2 \in [Nodes -> Nodes \cup {Null}]
      /\ \A m \in Nodes :
            p2[m] = IF m = n THEN Null ELSE IF m = x[n] THEN p[n] ELSE p[m]
      /\ \A m \in Nodes :
            x2[m] = IF m = n THEN Null ELSE IF m = p[n] THEN x[n] ELSE x[m]
  BY <1>0, <1>1 DEF Removed
<1>5. /\ p[n] = IF k = Len(q) THEN Null ELSE q[k + 1]
      /\ x[n] = IF k = 1 THEN Null ELSE q[k - 1]
  BY <1>0, <1>3
<1>6a. k # Len(q) => k + 1 \in 1..Len(q)
  BY <1>1, <1>3
<1>6. /\ k # Len(q) => q[k + 1] \in Nodes /\ q[k + 1] # Null
      /\ k # 1 => q[k - 1] \in Nodes /\ q[k - 1] # Null
  <2>2. k # 1 => k - 1 \in 1..Len(q)
    BY <1>1, <1>3
  <2>. QED
    BY <1>1, <1>6a, <2>2
<1>7. \A i, j \in 1..Len(w) : w[i] = w[j] => i = j
  <2>. SUFFICES ASSUME NEW i \in 1..Len(q)-1, NEW j \in 1..Len(q)-1, w[i] = w[j]
                PROVE  i = j
    BY <1>3
  <2>. DEFINE i2 == IF i < k THEN i ELSE i + 1
              j2 == IF j < k THEN j ELSE j + 1
  <2>1. i2 \in 1..Len(q) /\ j2 \in 1..Len(q) /\ q[i2] = q[j2]
    BY <1>1, <1>3
  <2>2. i2 = j2
    <3>. HIDE DEF i2, j2
    <3>. QED
      BY <1>0, <2>1
  <2>. QED
    BY <1>3, <2>2
<1>8. t2 = IF Len(w) = 0 THEN Null ELSE w[1]
  <2>1. CASE k = 1
    BY <1>1, <1>3, <1>5, <2>1 DEF Removed
  <2>2. CASE k # 1
    <3>1. Len(w) # 0 /\ w[1] = q[1]
      BY <1>1, <1>3, <2>2
    <3>2. x[n] # Null
      BY <1>5, <1>6, <2>2
    <3>. QED
      BY <1>0, <1>1, <1>3, <3>1, <3>2 DEF Removed
  <2>. QED
    BY <2>1, <2>2
<1>9. h2 = IF Len(w) = 0 THEN Null ELSE w[Len(w)]
  <2>1. CASE k = Len(q)
    BY <1>1, <1>3, <1>5, <2>1 DEF Removed
  <2>2. CASE k # Len(q)
    <3>1. Len(w) # 0 /\ w[Len(w)] = q[Len(q)]
      BY <1>1, <1>3, <2>2
    <3>2. p[n] # Null
      BY <1>5, <1>6, <2>2
    <3>. QED
      BY <1>0, <1>1, <1>3, <3>1, <3>2 DEF Removed
  <2>. QED
    BY <2>1, <2>2
<1>10. ASSUME NEW i \in 1..Len(w)
       PROVE  /\ p2[w[i]] = IF i = Len(w) THEN Null ELSE w[i + 1]
              /\ x2[w[i]] = IF i = 1 THEN Null ELSE w[i - 1]
  <2>0. i \in 1..Len(q) - 1
    BY <1>3
  <2>1. PICK l \in 1..Len(q) : l = IF i < k THEN i ELSE i + 1
    <3>1. Len(q) \in Nat /\ k \in 1..Len(q)
      BY <1>1
    <3>2. (IF i < k THEN i ELSE i + 1) \in 1..Len(q)
      BY <2>0, <3>1
    <3>. QED
      BY <3>2
  <2>2. w[i] = q[l] /\ l # k /\ q[l] \in Nodes /\ q[l] # n /\ q[l] # Null
    <3>1. w[i] = q[l]
      BY <1>3, <2>0, <2>1
    <3>2. k \in Nat /\ i \in Nat
      BY <1>1, <2>0
    <3>3. l # k
      BY <2>1, <3>2
    <3>4. q[l] # n
      BY <1>0, <1>3, <3>3
    <3>. QED
      BY <1>1, <3>1, <3>3, <3>4
  <2>3. k # 1 => (q[l] = q[k - 1] <=> l = k - 1)
    <3>1. k # 1 => k - 1 \in 1..Len(q)
      BY <1>1, <1>3
    <3>. QED
      BY <1>0, <3>1
  <2>4. k # Len(q) => (q[l] = q[k + 1] <=> l = k + 1)
    BY <1>0, <1>6a
  <2>5. p2[q[l]] = IF l = k - 1 THEN p[n] ELSE p[q[l]]
    BY <1>3, <1>4, <1>5, <2>1, <2>2, <2>3
  <2>6. x2[q[l]] = IF l = k + 1 THEN x[n] ELSE x[q[l]]
    BY <1>3, <1>4, <1>5, <2>1, <2>2, <2>4
  <2>7. /\ p[q[l]] = IF l = Len(q) THEN Null ELSE q[l + 1]
        /\ x[q[l]] = IF l = 1 THEN Null ELSE q[l - 1]
    BY <1>0
  <2>8. p2[q[l]] = IF i = Len(w) THEN Null ELSE w[i + 1]
    <3>1. i # Len(w) => w[i + 1] = IF i + 1 < k THEN q[i + 1] ELSE q[i + 2]
      BY <1>1, <1>3, <2>0
    <3>. QED
      BY <1>1, <1>3, <1>5, <2>0, <2>1, <2>2, <2>5, <2>7, <3>1
  <2>9. x2[q[l]] = IF i = 1 THEN Null ELSE w[i - 1]
    <3>1. i # 1 => w[i - 1] = IF i - 1 < k THEN q[i - 1] ELSE q[i]
      BY <1>1, <1>3, <2>0
    <3>. QED
      BY <1>1, <1>3, <1>5, <2>0, <2>1, <2>2, <2>6, <2>7, <3>1
  <2>. QED
    BY <2>2, <2>8, <2>9
<1>11. ASSUME NEW m \in Nodes, \A i \in 1..Len(w) : w[i] # m
       PROVE  p2[m] = Null /\ x2[m] = Null
  <2>1. CASE m = n
    BY <1>4, <2>1
  <2>2. CASE m # n
    <3>1. ASSUME NEW i \in 1..Len(q) PROVE q[i] # m
      <4>1. CASE i = k
        BY <1>3, <2>2, <4>1
      <4>2. CASE i # k
        <5>. DEFINE j == IF i < k THEN i ELSE i - 1
        <5>1. j \in 1..Len(q) - 1 /\ w[j] = q[i]
          BY <1>1, <1>3, <4>2
        <5>. HIDE DEF j
        <5>. QED
          BY <1>3, <1>11, <5>1
      <4>. QED
        BY <4>1, <4>2
    <3>2. p[m] = Null /\ x[m] = Null
      BY <1>0, <3>1
    <3>3. m # p[n] /\ m # x[n]
      <4>1. k # Len(q) => k + 1 \in 1..Len(q)
        BY <1>1, <1>3
      <4>2. k # 1 => k - 1 \in 1..Len(q)
        BY <1>1, <1>3
      <4>3. m # Null
        BY LinkedListAssumption
      <4>. QED
        BY <1>5, <3>1, <4>1, <4>2, <4>3
    <3>. QED
      BY <1>4, <2>2, <3>2, <3>3
  <2>. QED
    BY <2>1, <2>2
<1>. QED
  BY <1>3, <1>4, <1>7, <1>8, <1>9, <1>10, <1>11 DEF Links

\* The queue's removal is this one, and does nothing to a queue without n.
LEMMA QueueWithout ==
    ASSUME NEW q, NEW n
    PROVE  /\ Queue!Range(q) = Range(q)
           /\ Queue!Without(q, n) = Without(q, n)
           /\ n \notin Range(q) => Without(q, n) = q
  BY DEF Range, Without, Queue!Range, Queue!Without
-----------------------------------------------------------------------------
(***************************************************************************)
(* The steps.  Each keeps IndInv, and is a step of the queue.              *)
(***************************************************************************)
LEMMA InitLinked == Init => IndInv /\ Queue!Init
<1>. SUFFICES ASSUME Init PROVE IndInv /\ Queue!Init
  OBVIOUS
<1>1. Links(head, tail, prev, next, order)
  BY EmptySeq DEF Init, Links
<1>. QED
  BY <1>1, IndInvLinks DEF Init, Queue!Init

LEMMA StepLinked ==
    ASSUME IndInv, [Next]_vars
    PROVE  IndInv' /\ [Queue!Next]_<<order, result>>
<1>. DEFINE Goal == IndInv' /\ [Queue!Next]_<<order, result>>
<1>. SUFFICES Goal
  OBVIOUS
<1>1. /\ Links(head, tail, prev, next, order)
      /\ result \in Nodes \cup {Null}
      /\ order \in Seq(Nodes)
  BY IndInvLinks DEF Links
<1>2. /\ \A m : m \in Range(order) <=> \E i \in 1..Len(order) : order[i] = m
      /\ order = <<>> <=> Len(order) = 0
      /\ head \in Nodes \cup {Null}
      /\ tail \in Nodes \cup {Null}
  BY <1>1, SeqFacts, LinksEquiv
<1>3. tail = IF order = <<>> THEN Null ELSE Head(order)
  <2>1. order # <<>> => Head(order) = order[1]
    BY <1>1
  <2>2. tail = IF Len(order) = 0 THEN Null ELSE order[1]
    BY <1>1 DEF Links
  <2>. QED
    BY <1>2, <2>1, <2>2
<1>4. ASSUME NEW n \in Nodes, PushFront(n) PROVE Goal
  <2>0. /\ head' = n
        /\ tail' = IF tail = Null THEN n ELSE tail
        /\ prev' = [m \in Nodes |->
                      IF m = head THEN n ELSE IF m = n THEN Null ELSE prev[m]]
        /\ next' = [next EXCEPT ![n] = head]
        /\ order' = Append(order, n)
        /\ \A i \in 1..Len(order) : order[i] # n
    BY <1>2, <1>4 DEF PushFront
  <2>1. Links(head', tail', prev', next', order')
    <3>1. Links(n, IF tail = Null THEN n ELSE tail,
                [m \in Nodes |->
                   IF m = head THEN n ELSE IF m = n THEN Null ELSE prev[m]],
                [next EXCEPT ![n] = head], Append(order, n))
      BY <1>1, <2>0, PushLinks
    <3>. QED
      BY <2>0, <3>1
  <2>2. IndInv'
    BY <1>4, <2>1, IndInvLinksPrime DEF PushFront
  <2>3. Queue!PushFront(n)
    BY <1>4 DEF PushFront, Queue!PushFront, Range, Queue!Range
  <2>. QED
    BY <2>2, <2>3 DEF Queue!Next
<1>5. CASE PopBack
  <2>1. CASE tail = Null
    <3>1. order = <<>>
      <4>1. order # <<>> => 1 \in 1..Len(order) /\ Head(order) = order[1]
        BY <1>1, <1>2
      <4>. QED
        BY <1>1, <1>3, <2>1, <4>1, LinkedListAssumption
    <3>2. result' = Null /\ UNCHANGED <<head, tail, prev, next, order>>
      BY <1>5, <2>1 DEF PopBack
    <3>3. IndInv'
      BY <1>1, <3>2, IndInvLinksPrime
    <3>4. Queue!PopBack
      BY <3>1, <3>2 DEF Queue!PopBack, Queue!Oldest
    <3>. QED
      BY <3>3, <3>4 DEF Queue!Next
  <2>2. CASE tail # Null
    <3>0. Popped(head, tail, prev, next, order, head', tail', prev', next', order')
      BY <1>5, <2>2 DEF PopBack, Popped
    <3>1. /\ order # <<>>
          /\ tail = Head(order)
          /\ Links(head', tail', prev', next', order')
      BY <1>1, <2>2, <3>0, PopLinks
    <3>2. result' = tail /\ order' = Tail(order)
      BY <1>5, <2>2 DEF PopBack
    <3>3. IndInv'
      BY <1>2, <3>1, <3>2, IndInvLinksPrime
    <3>4. Queue!PopBack
      BY <3>1, <3>2 DEF Queue!PopBack, Queue!Oldest
    <3>. QED
      BY <3>3, <3>4 DEF Queue!Next
  <2>. QED
    BY <2>1, <2>2
<1>6. ASSUME NEW n \in Nodes, RemoveNone(n) PROVE Goal
  <2>1. n \notin Range(order)
    <3>1. n \in Range(order) => (prev[n] # Null \/ head = n) /\ (next[n] # Null \/ tail = n)
      BY <1>1, InList
    <3>. QED
      BY <1>6, <3>1 DEF RemoveNone
  <2>2. prev[n] = Null /\ head # n /\ next[n] = Null /\ tail # n
    BY <1>1, <2>1, InList
  <2>3. result' = Null /\ UNCHANGED <<head, tail, prev, next, order>>
    BY <1>6, <2>2 DEF RemoveNone
  <2>4. IndInv'
    BY <1>1, <2>3, IndInvLinksPrime
  <2>5. Queue!Remove(n)
    BY <2>1, <2>3, QueueWithout DEF Queue!Remove
  <2>. QED
    BY <2>4, <2>5 DEF Queue!Next
<1>7. ASSUME NEW n \in Nodes, RemoveSome(n) PROVE Goal
  <2>1. n \in Range(order)
    BY <1>1, <1>7, InList DEF RemoveSome
  <2>2. Links(head', tail', prev', next', order')
    <3>1. Removed(n, head, tail, prev, next, order, head', tail', prev', next', order')
      BY <1>7 DEF RemoveSome, Removed
    <3>. QED
      BY <1>1, <2>1, <3>1, RemoveLinks
  <2>3. result' = n /\ order' = Without(order, n)
    BY <1>7 DEF RemoveSome
  <2>4. IndInv'
    BY <2>2, <2>3, IndInvLinksPrime
  <2>5. Queue!Remove(n)
    BY <2>1, <2>3, QueueWithout DEF Queue!Remove
  <2>. QED
    BY <2>4, <2>5 DEF Queue!Next
<1>8. CASE Last
  <2>1. IndInv'
    BY <1>1, <1>2, <1>8, IndInvLinksPrime DEF Last
  <2>2. Queue!Last
    BY <1>3, <1>8 DEF Last, Queue!Last, Queue!Oldest
  <2>. QED
    BY <2>1, <2>2 DEF Queue!Next
<1>9. CASE UNCHANGED vars
  BY <1>1, <1>9, IndInvLinksPrime DEF vars
<1>. HIDE DEF Goal
<1>. QED
  BY <1>4, <1>5, <1>6, <1>7, <1>8, <1>9 DEF Next

\* The pointers always link one list, without the nodes that are not in it.
THEOREM LinkedInvariant == Spec => []IndInv
<1>1. IndInv /\ [Next]_vars => IndInv'
  BY StepLinked
<1>. QED
  BY <1>1, InitLinked, PTL DEF Spec

\* The list of pointers implements the queue that SemaphoreInner uses.
THEOREM ImplementsQueue == Spec => QueueSpec
<1>1. IndInv /\ [Next]_vars => [Queue!Next]_<<order, result>>
  BY StepLinked
<1>. QED
  BY <1>1, InitLinked, LinkedInvariant, PTL DEF Spec, QueueSpec, Queue!Spec
=============================================================================
