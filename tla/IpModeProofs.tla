----------------------------- MODULE IpModeProofs -----------------------------
(***************************************************************************)
(* Theorems about IpMode: what is set up follows the IP modes of the       *)
(* interface, for every set of interfaces and every queue of changes.      *)
(*                                                                         *)
(* In this order: induction on numbers and the sequences of Layers; what   *)
(* performing scripts does to a setup; what each layer writes, and that    *)
(* disabling it takes back what enabling it switches on; the interface;    *)
(* the invariants of the event queue and NothingLeft; the values that are  *)
(* written and TypeOK; the order of the writes and FollowsModes.           *)
(***************************************************************************)
EXTENDS IpMode, FiniteSetTheorems, SequenceTheorems, TLAPS

(***************************************************************************)
(* Numbers.  A set closed under successor could only leave out a number if *)
(* its elements up to that number were mapped one to one into fewer.       *)
(***************************************************************************)
LEMMA SetInduction ==
    ASSUME NEW T, 0 \in T, \A n \in Nat : n \in T => n + 1 \in T
    PROVE  Nat \subseteq T
<1>1. SUFFICES ASSUME NEW n \in Nat, n \notin T
               PROVE  FALSE
  OBVIOUS
<1>. DEFINE S == T \cap (0 .. n)
            f == [x \in S |-> x + 1]
<1>2. 0 \in S /\ S \in SUBSET (0 .. n)
  BY <1>1
<1>3. IsFiniteSet(S)
  <2>1. IsFiniteSet(0 .. n)
    BY FS_Interval
  <2>. HIDE DEF S
  <2>. QED
    BY <1>2, <2>1, FS_Subset
<1>4. f \in [S -> S \ {0}] /\ \A x, y \in S : f[x] = f[y] => x = y
  BY <1>1
<1>5. \E x, y \in S : x # y /\ f[x] = f[y]
  <2>. HIDE DEF S, f
  <2>1. /\ IsFiniteSet(S \ {0})
        /\ Cardinality(S \ {0}) = Cardinality(S) - 1
        /\ Cardinality(S) \in Nat
    BY <1>2, <1>3, FS_RemoveElement, FS_CardinalityType
  <2>2. Cardinality(S \ {0}) < Cardinality(S)
    BY <2>1
  <2>. QED
    BY <1>3, <1>4, <2>1, <2>2, FS_PigeonHole
<1>. QED
  BY <1>4, <1>5

LEMMA Greatest ==
    ASSUME NEW S \in SUBSET Nat, S # {}, NEW n \in Nat, \A x \in S : x <= n
    PROVE  \E m \in S : \A x \in S : x <= m
<1>1. SUFFICES ASSUME \A m \in S : \E x \in S : m < x
               PROVE  FALSE
  OBVIOUS
<1>. DEFINE T == {k \in Nat : \A x \in S : x + k <= n}
<1>2. 0 \in T
  OBVIOUS
<1>3. \A k \in Nat : k \in T => k + 1 \in T
  BY <1>1
<1>4. Nat \subseteq T
  <2>. HIDE DEF T
  <2>. QED
    BY <1>2, <1>3, SetInduction
<1>5. n + 1 \in T
  BY <1>4
<1>6. PICK x \in S : TRUE
  OBVIOUS
<1>. QED
  BY <1>5, <1>6

(***************************************************************************)
(* Sequences                                                               *)
(***************************************************************************)
LEMMA Concat ==
    ASSUME NEW S, NEW s \in Seq(S), NEW t \in Seq(S)
    PROVE  s \o t \in Seq(S) /\ Range(s \o t) = Range(s) \cup Range(t)
BY ConcatProperties, RangeConcatenation

\* The recursive function of FlattenSeq is what its equations say.
LEMMA FlattenDef ==
    ASSUME NEW S, NEW seqs \in Seq(Seq(S)), Len(seqs) # 0
    PROVE  \E flat :
              /\ \A i \in 1 .. Len(seqs) :
                    flat[i] = IF i = 1 THEN seqs[i] ELSE flat[i - 1] \o seqs[i]
              /\ FlattenSeq(seqs) = flat[Len(seqs)]
<1>. DEFINE N == Len(seqs)
            IsFlat(g, k) ==
              g = [i \in 1 .. k |-> IF i = 1 THEN seqs[i] ELSE g[i - 1] \o seqs[i]]
            T == {k \in Nat : \E g : IsFlat(g, k)}
<1>1. 0 \in T
  <2>1. IsFlat(<< >>, 0)
    OBVIOUS
  <2>. QED
    BY <2>1
<1>2. ASSUME NEW k \in Nat, NEW g, IsFlat(g, k)
      PROVE  \E h : IsFlat(h, k + 1)
  <2>. DEFINE new == IF k = 0 THEN seqs[k + 1] ELSE g[k] \o seqs[k + 1]
              h == [i \in 1 .. (k + 1) |-> IF i <= k THEN g[i] ELSE new]
  <2>1. \A i \in 1 .. k : g[i] = IF i = 1 THEN seqs[i] ELSE g[i - 1] \o seqs[i]
    BY <1>2
  <2>2. ASSUME NEW i \in 1 .. (k + 1)
        PROVE  h[i] = IF i = 1 THEN seqs[i] ELSE h[i - 1] \o seqs[i]
    <3>1. CASE i <= k
      <4>1. h[i] = g[i] /\ (i # 1 => h[i - 1] = g[i - 1]) /\ i \in 1 .. k
        BY <3>1
      <4>. QED
        BY <4>1, <2>1
    <3>2. CASE i = k + 1
      <4>1. h[i] = new
        BY <3>2
      <4>2. k # 0 => h[i - 1] = g[k]
        BY <3>2
      <4>. QED
        BY <4>1, <4>2, <3>2
    <3>. QED
      BY <3>1, <3>2
  <2>3. IsFlat(h, k + 1)
    BY <2>2
  <2>. HIDE DEF h
  <2>. QED
    BY <2>3
<1>3. N \in Nat
  BY LenProperties
<1>4. \E g : IsFlat(g, N)
  <2>1. ASSUME NEW k \in Nat, k \in T
        PROVE  k + 1 \in T
    <3>1. PICK g : IsFlat(g, k)
      BY <2>1
    <3>2. \E h : IsFlat(h, k + 1)
      BY <3>1, <1>2
    <3>. HIDE DEF IsFlat
    <3>. QED
      BY <3>2
  <2>. HIDE DEF N, IsFlat
  <2>2. Nat \subseteq T
    <3>. HIDE DEF T
    <3>. QED
      BY <1>1, <2>1, SetInduction
  <2>. QED
    BY <2>2, <1>3
<1>. DEFINE flat == CHOOSE g : IsFlat(g, N)
<1>5. IsFlat(flat, N)
  BY <1>4
<1>6. FlattenSeq(seqs) = flat[N]
  BY DEF FlattenSeq
<1>. HIDE DEF flat
<1>. QED
  BY <1>5, <1>6

LEMMA Flatten ==
    ASSUME NEW S, NEW seqs \in Seq(Seq(S))
    PROVE  /\ FlattenSeq(seqs) \in Seq(S)
           /\ Range(FlattenSeq(seqs)) = UNION {Range(seqs[i]) : i \in DOMAIN seqs}
<1>. DEFINE N == Len(seqs)
<1>1. N \in Nat /\ DOMAIN seqs = 1 .. N /\ \A i \in 1 .. N : seqs[i] \in Seq(S)
  BY LenProperties, ElementOfSeq
<1>2. CASE N = 0
  <2>1. seqs = << >> /\ FlattenSeq(seqs) = << >>
    BY <1>2, EmptySeq DEF FlattenSeq
  <2>2. DOMAIN seqs = {} /\ Range(<< >>) = {}
    BY <1>1, <1>2 DEF Range
  <2>. QED
    BY <2>1, <2>2, EmptySeq
<1>3. CASE N # 0
  <2>1. PICK flat : /\ \A i \in 1 .. N :
                          flat[i] = IF i = 1 THEN seqs[i] ELSE flat[i - 1] \o seqs[i]
                    /\ FlattenSeq(seqs) = flat[N]
    BY <1>3, FlattenDef
  <2>. HIDE DEF N
  <2>. DEFINE T == {k \in Nat : k + 1 <= N =>
                      /\ flat[k + 1] \in Seq(S)
                      /\ Range(flat[k + 1]) = UNION {Range(seqs[i]) : i \in 1 .. (k + 1)}}
  <2>2. 0 \in T
    <3>1. 1 \in 1 .. N
      BY <1>1, <1>3
    <3>2. flat[1] = seqs[1]
      BY <2>1, <3>1
    <3>3. 1 .. 1 = {1}
      OBVIOUS
    <3>. QED
      BY <3>1, <3>2, <3>3, <1>1
  <2>3. ASSUME NEW k \in Nat, k \in T
        PROVE  k + 1 \in T
    <3>1. SUFFICES ASSUME k + 2 <= N
                   PROVE  /\ flat[k + 2] \in Seq(S)
                          /\ Range(flat[k + 2])
                               = UNION {Range(seqs[i]) : i \in 1 .. (k + 2)}
      <4>1. (k + 1) + 1 = k + 2
        OBVIOUS
      <4>. QED
        BY <4>1
    <3>2. k + 2 \in 1 .. N /\ k + 2 # 1 /\ (k + 2) - 1 = k + 1
      BY <1>1, <3>1
    <3>3. flat[k + 2] = flat[k + 1] \o seqs[k + 2] /\ seqs[k + 2] \in Seq(S)
      BY <2>1, <1>1, <3>2
    <3>4. /\ flat[k + 1] \in Seq(S)
          /\ Range(flat[k + 1]) = UNION {Range(seqs[i]) : i \in 1 .. (k + 1)}
      BY <2>3, <3>1, <1>1
    <3>5. /\ flat[k + 2] \in Seq(S)
          /\ Range(flat[k + 2]) = Range(flat[k + 1]) \cup Range(seqs[k + 2])
      BY <3>3, <3>4, Concat
    <3>6. 1 .. (k + 2) = (1 .. (k + 1)) \cup {k + 2}
      OBVIOUS
    <3>. QED
      BY <3>4, <3>5, <3>6
  <2>4. Nat \subseteq T
    <3>. HIDE DEF T
    <3>. QED
      BY <2>2, <2>3, SetInduction
  <2>5. PICK k \in Nat : N = k + 1
    BY <1>1, <1>3
  <2>6. k \in T
    <3>. HIDE DEF T
    <3>. QED
      BY <2>4
  <2>7. flat[N] \in Seq(S) /\ Range(flat[N]) = UNION {Range(seqs[i]) : i \in 1 .. N}
    BY <2>5, <2>6
  <2>. QED
    BY <2>1, <2>7, <1>1
<1>. QED
  BY <1>2, <1>3

(***************************************************************************)
(* Scripts                                                                 *)
(***************************************************************************)
\* A script is a sequence, whatever its writes are.
IsScript(s) == s \in Seq(Range(s))
AreScripts(scripts) == IsScript(scripts) /\ \A s \in Range(scripts) : IsScript(s)

Ats(script) == {At(w) : w \in Range(script)}

LEMMA ScriptIs ==
    ASSUME NEW S, NEW s \in Seq(S)
    PROVE  IsScript(s)
BY SeqOfRange DEF IsScript

LEMMA ScriptShape ==
    ASSUME NEW s, IsScript(s)
    PROVE  /\ Len(s) \in Nat
           /\ DOMAIN s = 1 .. Len(s)
BY LenProperties DEF IsScript

LEMMA Joined ==
    ASSUME NEW s, NEW t, IsScript(s), IsScript(t)
    PROVE  IsScript(s \o t) /\ Range(s \o t) = Range(s) \cup Range(t)
<1>. DEFINE S == Range(s) \cup Range(t)
<1>1. s \in Seq(S) /\ t \in Seq(S)
  BY SeqMonotonic DEF IsScript
<1>. QED
  BY <1>1, Concat, ScriptIs

LEMMA Scripts0 == IsScript(<< >>) /\ Range(<< >>) = {}
BY DEF IsScript, Range

LEMMA Scripts1 ==
    ASSUME NEW a
    PROVE  IsScript(<< a >>) /\ Range(<< a >>) = {a}
<1>. DEFINE s == << a >>
<1>1. s \in Seq({a}) /\ DOMAIN s = {1}
  OBVIOUS
<1>2.  s[1] = a
  OBVIOUS
<1>. HIDE DEF s
<1>3. Range(s) = {a}
  BY <1>1, <1>2 DEF Range
<1>4. IsScript(s)
  BY <1>1, ScriptIs
<1>. QED
  BY <1>3, <1>4 DEF s

LEMMA Scripts2 ==
    ASSUME NEW a, NEW b
    PROVE  IsScript(<< a, b >>) /\ Range(<< a, b >>) = {a, b}
<1>. DEFINE s == << a, b >>
<1>1. s \in Seq({a, b}) /\ DOMAIN s = {1, 2}
  OBVIOUS
<1>2.  s[1] = a /\ s[2] = b
  OBVIOUS
<1>. HIDE DEF s
<1>3. Range(s) = {a, b}
  BY <1>1, <1>2 DEF Range
<1>4. IsScript(s)
  BY <1>1, ScriptIs
<1>. QED
  BY <1>3, <1>4 DEF s

LEMMA Scripts3 ==
    ASSUME NEW a, NEW b, NEW c
    PROVE  IsScript(<< a, b, c >>) /\ Range(<< a, b, c >>) = {a, b, c}
<1>. DEFINE s == << a, b, c >>
<1>1. s \in Seq({a, b, c}) /\ DOMAIN s = {1, 2, 3}
  OBVIOUS
<1>2.  s[1] = a /\ s[2] = b /\ s[3] = c
  OBVIOUS
<1>. HIDE DEF s
<1>3. Range(s) = {a, b, c}
  BY <1>1, <1>2 DEF Range
<1>4. IsScript(s)
  BY <1>1, ScriptIs
<1>. QED
  BY <1>3, <1>4 DEF s

LEMMA Scripts4 ==
    ASSUME NEW a, NEW b, NEW c, NEW d
    PROVE  IsScript(<< a, b, c, d >>) /\ Range(<< a, b, c, d >>) = {a, b, c, d}
<1>. DEFINE s == << a, b, c, d >>
<1>1. s \in Seq({a, b, c, d}) /\ DOMAIN s = {1, 2, 3, 4}
  OBVIOUS
<1>2.  s[1] = a /\ s[2] = b /\ s[3] = c /\ s[4] = d
  OBVIOUS
<1>. HIDE DEF s
<1>3. Range(s) = {a, b, c, d}
  BY <1>1, <1>2 DEF Range
<1>4. IsScript(s)
  BY <1>1, ScriptIs
<1>. QED
  BY <1>3, <1>4 DEF s

LEMMA Scripts5 ==
    ASSUME NEW a, NEW b, NEW c, NEW d, NEW e
    PROVE  IsScript(<< a, b, c, d, e >>) /\ Range(<< a, b, c, d, e >>) = {a, b, c, d, e}
<1>. DEFINE s == << a, b, c, d, e >>
<1>1. s \in Seq({a, b, c, d, e}) /\ DOMAIN s = {1, 2, 3, 4, 5}
  OBVIOUS
<1>2.  s[1] = a /\ s[2] = b /\ s[3] = c /\ s[4] = d /\ s[5] = e
  OBVIOUS
<1>. HIDE DEF s
<1>3. Range(s) = {a, b, c, d, e}
  BY <1>1, <1>2 DEF Range
<1>4. IsScript(s)
  BY <1>1, ScriptIs
<1>. QED
  BY <1>3, <1>4 DEF s

LEMMA Scripts6 ==
    ASSUME NEW a, NEW b, NEW c, NEW d, NEW e, NEW f
    PROVE  IsScript(<< a, b, c, d, e, f >>) /\ Range(<< a, b, c, d, e, f >>) = {a, b, c, d, e, f}
<1>. DEFINE s == << a, b, c, d, e, f >>
<1>1. s \in Seq({a, b, c, d, e, f}) /\ DOMAIN s = {1, 2, 3, 4, 5, 6}
  OBVIOUS
<1>2.  s[1] = a /\ s[2] = b /\ s[3] = c /\ s[4] = d /\ s[5] = e /\ s[6] = f
  OBVIOUS
<1>. HIDE DEF s
<1>3. Range(s) = {a, b, c, d, e, f}
  BY <1>1, <1>2 DEF Range
<1>4. IsScript(s)
  BY <1>1, ScriptIs
<1>. QED
  BY <1>3, <1>4 DEF s

(***************************************************************************)
(* The effect of scripts on a setup                                        *)
(***************************************************************************)
LEMMA EffectiveShape ==
    ASSUME NEW scripts, AreScripts(scripts), NEW refused
    PROVE  \A at \in Effective(scripts, refused) :
              /\ at[1] \in 1 .. Len(scripts)
              /\ at[2] \in 1 .. Len(scripts[at[1]])
              /\ at[2] \in Performed(scripts[at[1]], refused)
              /\ at = <<at[1], at[2]>>
<1>. TAKE at \in Effective(scripts, refused)
<1>1. PICK i \in DOMAIN scripts : \E j \in Performed(scripts[i], refused) : at = <<i, j>>
  BY DEF Effective
<1>2. PICK j \in Performed(scripts[i], refused) : at = <<i, j>>
  BY <1>1
<1>3. DOMAIN scripts = 1 .. Len(scripts) /\ scripts[i] \in Range(scripts)
  BY ScriptShape DEF AreScripts, Range
<1>4. j \in DOMAIN scripts[i] /\ DOMAIN scripts[i] = 1 .. Len(scripts[i])
  BY <1>3, ScriptShape DEF AreScripts, Performed
<1>. QED
  BY <1>2, <1>3, <1>4

\* The last write that takes effect on p exists.
LEMMA LastIsLast ==
    ASSUME NEW scripts, AreScripts(scripts), NEW refused, NEW p,
           p \in Done(scripts, refused)
    PROVE  LastOn(p, scripts, refused) \in EffectiveOn(p, scripts, refused)
<1>. DEFINE E == EffectiveOn(p, scripts, refused)
            I == {at[1] : at \in E}
<1>1. E # {} /\ \A at \in E : /\ at[1] \in 1 .. Len(scripts)
                              /\ at[2] \in 1 .. Len(scripts[at[1]])
                              /\ at = <<at[1], at[2]>>
  BY EffectiveShape DEF EffectiveOn, Done
<1>2. /\ Len(scripts) \in Nat
      /\ \A i \in 1 .. Len(scripts) : Len(scripts[i]) \in Nat
  BY ScriptShape DEF AreScripts, Range
<1>. HIDE DEF E
<1>3. PICK m \in I : \A i \in I : i <= m
  <2>1. I \in SUBSET Nat /\ I # {} /\ \A i \in I : i <= Len(scripts)
    BY <1>1, <1>2
  <2>. QED
    BY <2>1, <1>2, Greatest
<1>. DEFINE J == {at[2] : at \in {e \in E : e[1] = m}}
<1>4. PICK n \in J : \A j \in J : j <= n
  <2>1. J \in SUBSET Nat /\ J # {} /\ \A j \in J : j <= Len(scripts[m])
    BY <1>1, <1>2, <1>3
  <2>2. Len(scripts[m]) \in Nat
    BY <1>1, <1>2, <1>3
  <2>. HIDE DEF J
  <2>. QED
    BY <2>1, <2>2, Greatest
<1>5. PICK top \in E : top[1] = m /\ top[2] = n
  BY <1>4
<1>6. ASSUME NEW other \in E
      PROVE  ~Precedes(top, other)
  <2>1. other[1] \in Nat /\ other[2] \in Nat /\ other[1] <= m /\ m \in Nat /\ n \in Nat
    BY <1>1, <1>2, <1>3, <1>4, <1>5
  <2>2. other[1] = m => other[2] <= n
    BY <1>4
  <2>. QED
    BY <2>1, <2>2, <1>5 DEF Precedes
<1>7. \E at \in E : \A other \in E : ~Precedes(at, other)
  BY <1>5, <1>6
<1>. QED
  BY <1>7 DEF LastOn, E

WritesIn(scripts) == UNION {Range(scripts[i]) : i \in DOMAIN scripts}

\* What is on in a setup, for sure.
On(s) == {p \in DOMAIN s.value \ s.unsure : s.value[p] # "off"}

\* A parameter that no script mentions stays as it is; one that is mentioned has
\* the value of one of its writes or is unsure.
LEMMA Effects ==
    ASSUME NEW scripts, AreScripts(scripts), NEW refused, NEW s, NEW p \in DOMAIN s.value
    PROVE  LET t == Written(s, scripts, refused)
           IN  /\ DOMAIN t.value = DOMAIN s.value
               /\ t.unsure \subseteq DOMAIN s.value
               /\ \/ t.value[p] = s.value[p]
                  \/ \E w \in WritesIn(scripts) : At(w) = p /\ t.value[p] = w.value
               /\ p \notin Meant(scripts) =>
                      t.value[p] = s.value[p] /\ (p \in t.unsure <=> p \in s.unsure)
               /\ p \in Meant(scripts) =>
                      \/ p \in t.unsure
                      \/ /\ p \notin t.unsure
                         /\ \E w \in WritesIn(scripts) : At(w) = p /\ t.value[p] = w.value
<1>. DEFINE t == Written(s, scripts, refused)
            last == LastOn(p, scripts, refused)
<1>1. /\ DOMAIN t.value = DOMAIN s.value
      /\ t.unsure = ((s.unsure \cup Meant(scripts)) \cap DOMAIN s.value)
                      \ Done(scripts, refused)
      /\ t.value[p] = IF p \in Done(scripts, refused) THEN WriteAt(scripts, last).value
                                                      ELSE s.value[p]
  BY DEF Written
<1>2. ASSUME NEW at \in Effective(scripts, refused)
      PROVE  WriteAt(scripts, at) \in WritesIn(scripts)
  <2>1. /\ at[1] \in 1 .. Len(scripts) /\ at[2] \in 1 .. Len(scripts[at[1]])
        /\ DOMAIN scripts = 1 .. Len(scripts)
    BY EffectiveShape, ScriptShape DEF AreScripts
  <2>2. IsScript(scripts[at[1]])
    BY <2>1 DEF AreScripts, Range
  <2>3. DOMAIN scripts[at[1]] = 1 .. Len(scripts[at[1]])
    BY <2>2, ScriptShape
  <2>. QED
    BY <2>1, <2>3 DEF WriteAt, WritesIn, Range
<1>3. ASSUME p \in Done(scripts, refused)
      PROVE  /\ WriteAt(scripts, last) \in WritesIn(scripts)
             /\ At(WriteAt(scripts, last)) = p
  BY <1>2, <1>3, LastIsLast DEF EffectiveOn
<1>4. p \in Done(scripts, refused) => p \in Meant(scripts)
  BY <1>3 DEF Meant, WritesIn
<1>. HIDE DEF last, t
<1>5. p \notin Meant(scripts) =>
         t.value[p] = s.value[p] /\ (p \in t.unsure <=> p \in s.unsure)
  BY <1>1, <1>4
<1>6. p \in Meant(scripts) =>
         \/ p \in t.unsure
         \/ /\ p \notin t.unsure
            /\ \E w \in WritesIn(scripts) : At(w) = p /\ t.value[p] = w.value
  BY <1>1, <1>3
<1>7. \/ t.value[p] = s.value[p]
      \/ \E w \in WritesIn(scripts) : At(w) = p /\ t.value[p] = w.value
  BY <1>1, <1>3
<1>. QED
  BY <1>1, <1>5, <1>6, <1>7 DEF t

LEMMA SwitchingOn ==
    ASSUME NEW scripts, AreScripts(scripts), NEW refused, NEW s
    PROVE  On(Written(s, scripts, refused)) \subseteq On(s) \cup Meant(scripts)
<1>1. DOMAIN Written(s, scripts, refused).value = DOMAIN s.value
  BY DEF Written
<1>. QED
  BY <1>1, Effects DEF On

LEMMA SwitchingOff ==
    ASSUME NEW scripts, AreScripts(scripts), NEW refused, NEW s,
           \A w \in WritesIn(scripts) : At(w) \in DOMAIN s.value => w.value = "off"
    PROVE  On(Written(s, scripts, refused)) \subseteq On(s) \ Meant(scripts)
<1>1. DOMAIN Written(s, scripts, refused).value = DOMAIN s.value
  BY DEF Written
<1>2. ASSUME NEW p \in DOMAIN s.value, p \in On(Written(s, scripts, refused))
      PROVE  p \in On(s) \ Meant(scripts)
  BY <1>2, Effects DEF On
<1>. QED
  BY <1>1, <1>2 DEF On

(***************************************************************************)
(* Interfaces                                                              *)
(***************************************************************************)
\* The same but for the IP modes and what a turn adds to the parameters.
Alike(par, other) ==
    /\ par.Type = other.Type
    /\ par.BridgeReference = other.BridgeReference
    /\ par.IPv6AddressDelegate = other.IPv6AddressDelegate
    /\ par.IPv4Reference = other.IPv4Reference
    /\ par.IPv6Reference = other.IPv6Reference
    /\ par.DHCPv4Reference = other.DHCPv4Reference
    /\ par.DHCPv6Reference = other.DHCPv6Reference
    /\ par.PPPv4Reference = other.PPPv4Reference
    /\ par.PPPv6Reference = other.PPPv6Reference
    /\ par.NeighborDiscoveryReference = other.NeighborDiscoveryReference
    /\ par.DSLiteReference = other.DSLiteReference
    /\ par.PCPReference = other.PCPReference
    /\ par.DefaultRouteReference = other.DefaultRouteReference
    /\ par.Name = other.Name
    /\ par.DefaultRouter = other.DefaultRouter
    /\ par.UserName = other.UserName
    /\ par.Password = other.Password

\* The parameters a turn acts with: with the lower layer of the interface, and
\* with what the lower layer of PPP puts below the IP interface.
Low(par) == Also(par, [LowerLayer |-> LowerLayer(par)])

Full(par, modes, refused) == Overridden(Low(par), modes, refused)

Override(par, v, mode, refused) ==
    LET script == ppp_lower_layer(v, Low(par), TRUE)
    IN  IF /\ PPP(mode)
           /\ script # << >>
           /\ 1 .. (Len(script) - 2) \subseteq Performed(script, refused)
        THEN get_ppp_path(Low(par), v) ELSE None

LEMMA FullIs ==
    ASSUME NEW par, IsInterface(par), NEW modes, NEW refused
    PROVE  LET full == Full(par, modes, refused)
           IN  /\ Alike(full, par)
               /\ full.IPv4Mode = par.IPv4Mode
               /\ full.IPv6Mode = par.IPv6Mode
               /\ full.LowerLayer = LowerLayer(par)
               /\ full.LowerLayersV4Override = Override(par, 4, modes.IPv4Mode, refused)
               /\ full.LowerLayersV6Override = Override(par, 6, modes.IPv6Mode, refused)
               /\ Alike(Low(par), par)
               /\ Low(par).LowerLayer = LowerLayer(par)
<1>. DEFINE low == Also(par, [LowerLayer |-> LowerLayer(par)])
            full == Full(par, modes, refused)
<1>1. DOMAIN par = Parameters
  BY DEF IsInterface
<1>2. low = [x \in Parameters \cup {"LowerLayer"} |->
                IF x = "LowerLayer" THEN LowerLayer(par) ELSE par[x]]
  <2>. DEFINE g == [LowerLayer |-> LowerLayer(par)]
  <2>1. DOMAIN g = {"LowerLayer"} /\ g["LowerLayer"] = LowerLayer(par)
    OBVIOUS
  <2>. HIDE DEF g
  <2>2. low = [x \in (DOMAIN par) \cup (DOMAIN g) |->
                  IF x \in DOMAIN g THEN g[x] ELSE par[x]]
    BY DEF Also, g
  <2>. QED
    BY <1>1, <2>1, <2>2
<1>. DEFINE a == Override(par, 4, modes.IPv4Mode, refused)
            b == Override(par, 6, modes.IPv6Mode, refused)
<1>3. full = Also(low, [LowerLayersV4Override |-> a, LowerLayersV6Override |-> b])
  BY DEF Full, Overridden, Override, Low
<1>. HIDE DEF a, b
<1>4. /\ \A x \in Parameters \cup {"LowerLayer"} : full[x] = low[x]
      /\ full["LowerLayersV4Override"] = a
      /\ full["LowerLayersV6Override"] = b
  <2>. DEFINE g == [LowerLayersV4Override |-> a, LowerLayersV6Override |-> b]
  <2>. HIDE DEF g, low
  <2>1. full = [x \in (DOMAIN low) \cup (DOMAIN g) |->
                   IF x \in DOMAIN g THEN g[x] ELSE low[x]]
    BY <1>3 DEF Also, g
  <2>2. DOMAIN low = Parameters \cup {"LowerLayer"}
    BY <1>2
  <2>3. /\ "LowerLayersV4Override" \notin Parameters \cup {"LowerLayer"}
        /\ "LowerLayersV6Override" \notin Parameters \cup {"LowerLayer"}
    BY DEF Parameters
  <2>4. /\ DOMAIN g = {"LowerLayersV4Override", "LowerLayersV6Override"}
        /\ g["LowerLayersV4Override"] = a
        /\ g["LowerLayersV6Override"] = b
    BY DEF g
  <2>. QED
    BY <2>1, <2>2, <2>3, <2>4
<1>. HIDE DEF full, low
<1>5. \A x \in Parameters : full[x] = par[x]
  BY <1>2, <1>4 DEF Parameters
<1>6. full["LowerLayer"] = LowerLayer(par)
  BY <1>2, <1>4 DEF Parameters
<1>7. \A x \in Parameters : low[x] = par[x]
  BY <1>2 DEF Parameters
<1>8. Alike(full, par) /\ Alike(low, par)
  BY <1>5, <1>7 DEF Parameters, Alike
<1>. QED
  BY <1>2, <1>4, <1>5, <1>6, <1>8 DEF Parameters, Low, full, low, a, b

(***************************************************************************)
(* Layers: disabling one takes back what enabling it has switched on       *)
(***************************************************************************)
LEMMA SetIs == \A o, n, v : At(Set(o, n, v)) = <<o, n>> /\ Set(o, n, v).value = v
BY DEF At, Set

Released(w) == Setting(At(w)) \/ w.value = "off"

IsOff(s) == IsScript(s) /\ \A w \in Range(s) : Released(w)

\* on and on_2 write the same parameters, and off takes back all but settings.
Undone(on, on_2, off) ==
    /\ IsScript(on)
    /\ IsScript(on_2)
    /\ IsOff(off)
    /\ Ats(on_2) = Ats(on)
    /\ \A p \in Ats(on) : Setting(p) \/ p \in Ats(off)

LEMMA AtsJoined ==
    ASSUME NEW s, NEW t, IsScript(s), IsScript(t)
    PROVE  /\ IsScript(s \o t)
           /\ Ats(s \o t) = Ats(s) \cup Ats(t)
           /\ IsOff(s) /\ IsOff(t) => IsOff(s \o t)
BY Joined DEF Ats, IsOff

LEMMA UndoneJoined ==
    ASSUME NEW s, NEW s_2, NEW t, NEW t_2, NEW off,
           Undone(s, s_2, off), Undone(t, t_2, off)
    PROVE  Undone(s \o t, s_2 \o t_2, off)
BY AtsJoined DEF Undone

LEMMA Ats0 == IsScript(<< >>) /\ Ats(<< >>) = {} /\ IsOff(<< >>)
BY Scripts0 DEF Ats, IsOff

LEMMA UndoneNone ==
    ASSUME NEW off, IsOff(off)
    PROVE  Undone(<< >>, << >>, off)
BY Ats0 DEF Undone

LEMMA Ats1 ==
    ASSUME NEW a
    PROVE  /\ IsScript(<< a >>)
           /\ Ats(<< a >>) = {At(a)}
           /\ Released(a) => IsOff(<< a >>)
<1>. DEFINE s == << a >>
<1>1. IsScript(s) /\ Range(s) = {a}
  BY Scripts1
<1>. HIDE DEF s
<1>2. Ats(s) = {At(a)} /\ (Released(a) => IsOff(s))
  BY <1>1 DEF Ats, IsOff
<1>. QED
  BY <1>1, <1>2 DEF s

LEMMA Ats2 ==
    ASSUME NEW a, NEW b
    PROVE  /\ IsScript(<< a, b >>)
           /\ Ats(<< a, b >>) = {At(a), At(b)}
           /\ Released(a) /\ Released(b) => IsOff(<< a, b >>)
<1>. DEFINE s == << a, b >>
<1>1. IsScript(s) /\ Range(s) = {a, b}
  BY Scripts2
<1>. HIDE DEF s
<1>2. Ats(s) = {At(a), At(b)} /\ (Released(a) /\ Released(b) => IsOff(s))
  BY <1>1 DEF Ats, IsOff
<1>. QED
  BY <1>1, <1>2 DEF s

LEMMA Ats3 ==
    ASSUME NEW a, NEW b, NEW c
    PROVE  /\ IsScript(<< a, b, c >>)
           /\ Ats(<< a, b, c >>) = {At(a), At(b), At(c)}
           /\ Released(a) /\ Released(b) /\ Released(c) => IsOff(<< a, b, c >>)
<1>. DEFINE s == << a, b, c >>
<1>1. IsScript(s) /\ Range(s) = {a, b, c}
  BY Scripts3
<1>. HIDE DEF s
<1>2. Ats(s) = {At(a), At(b), At(c)} /\ (Released(a) /\ Released(b) /\ Released(c) => IsOff(s))
  BY <1>1 DEF Ats, IsOff
<1>. QED
  BY <1>1, <1>2 DEF s

LEMMA Ats4 ==
    ASSUME NEW a, NEW b, NEW c, NEW d
    PROVE  /\ IsScript(<< a, b, c, d >>)
           /\ Ats(<< a, b, c, d >>) = {At(a), At(b), At(c), At(d)}
           /\ Released(a) /\ Released(b) /\ Released(c) /\ Released(d) => IsOff(<< a, b, c, d >>)
<1>. DEFINE s == << a, b, c, d >>
<1>1. IsScript(s) /\ Range(s) = {a, b, c, d}
  BY Scripts4
<1>. HIDE DEF s
<1>2. Ats(s) = {At(a), At(b), At(c), At(d)} /\ (Released(a) /\ Released(b) /\ Released(c) /\ Released(d) => IsOff(s))
  BY <1>1 DEF Ats, IsOff
<1>. QED
  BY <1>1, <1>2 DEF s

LEMMA Ats5 ==
    ASSUME NEW a, NEW b, NEW c, NEW d, NEW e
    PROVE  /\ IsScript(<< a, b, c, d, e >>)
           /\ Ats(<< a, b, c, d, e >>) = {At(a), At(b), At(c), At(d), At(e)}
           /\ Released(a) /\ Released(b) /\ Released(c) /\ Released(d) /\ Released(e) => IsOff(<< a, b, c, d, e >>)
<1>. DEFINE s == << a, b, c, d, e >>
<1>1. IsScript(s) /\ Range(s) = {a, b, c, d, e}
  BY Scripts5
<1>. HIDE DEF s
<1>2. Ats(s) = {At(a), At(b), At(c), At(d), At(e)} /\ (Released(a) /\ Released(b) /\ Released(c) /\ Released(d) /\ Released(e) => IsOff(s))
  BY <1>1 DEF Ats, IsOff
<1>. QED
  BY <1>1, <1>2 DEF s

LEMMA Ats6 ==
    ASSUME NEW a, NEW b, NEW c, NEW d, NEW e, NEW f
    PROVE  /\ IsScript(<< a, b, c, d, e, f >>)
           /\ Ats(<< a, b, c, d, e, f >>) = {At(a), At(b), At(c), At(d), At(e), At(f)}
           /\ Released(a) /\ Released(b) /\ Released(c) /\ Released(d) /\ Released(e) /\ Released(f) => IsOff(<< a, b, c, d, e, f >>)
<1>. DEFINE s == << a, b, c, d, e, f >>
<1>1. IsScript(s) /\ Range(s) = {a, b, c, d, e, f}
  BY Scripts6
<1>. HIDE DEF s
<1>2. Ats(s) = {At(a), At(b), At(c), At(d), At(e), At(f)} /\ (Released(a) /\ Released(b) /\ Released(c) /\ Released(d) /\ Released(e) /\ Released(f) => IsOff(s))
  BY <1>1 DEF Ats, IsOff
<1>. QED
  BY <1>1, <1>2 DEF s

(* The IP interface. *)
LEMMA Ipv4 ==
    ASSUME NEW par, NEW other, Alike(par, other), NEW mode
    PROVE  Undone(ipv4_layer(mode, par, TRUE), ipv4_layer(mode, other, TRUE),
                  ipv4_layer(mode, other, FALSE))
<1>. DEFINE ip == par.IPv4Reference
            low(p) == << Set(ip, "LowerLayers", Lower(p, 4)) >>
            addr == << Set(ip, "AddressingType", mode), Set(ip, "AddressEnable", "on") >>
            enable == << Set(ip, "IPv4Enable", "on") >>
            disable == << Set(ip, "IPv4Enable", "off") >>
            no_addr == << Set(ip, "AddressEnable", "off"), Set(ip, "AddressingType", mode) >>
            no_low == << Set(ip, "LowerLayers", "off") >>
<1>1. other.IPv4Reference = ip
  BY DEF Alike
<1>2. /\ ipv4_layer(mode, par, TRUE) = (low(par) \o addr) \o enable
      /\ ipv4_layer(mode, other, TRUE) = (low(other) \o addr) \o enable
      /\ ipv4_layer(mode, other, FALSE) = (disable \o no_addr) \o no_low
  BY <1>1 DEF ipv4_layer, get_ip_path, ipv4_addr_toggle
<1>3. /\ IsScript(low(par)) /\ Ats(low(par)) = {<<ip, "LowerLayers">>}
      /\ IsScript(low(other)) /\ Ats(low(other)) = {<<ip, "LowerLayers">>}
      /\ IsScript(addr)
      /\ Ats(addr) = {<<ip, "AddressingType">>, <<ip, "AddressEnable">>}
      /\ IsScript(enable) /\ Ats(enable) = {<<ip, "IPv4Enable">>}
  BY Ats1, Ats2, SetIs
<1>4. /\ IsOff(disable) /\ Ats(disable) = {<<ip, "IPv4Enable">>}
      /\ IsOff(no_addr)
      /\ Ats(no_addr) = {<<ip, "AddressEnable">>, <<ip, "AddressingType">>}
      /\ IsOff(no_low) /\ Ats(no_low) = {<<ip, "LowerLayers">>}
  BY Ats1, Ats2, SetIs DEF Released, Setting
<1>. HIDE DEF low, addr, enable, disable, no_addr, no_low
<1>5. /\ IsScript((low(par) \o addr) \o enable)
      /\ IsScript((low(other) \o addr) \o enable)
      /\ Ats((low(par) \o addr) \o enable)
           = Ats(low(par)) \cup Ats(addr) \cup Ats(enable)
      /\ Ats((low(other) \o addr) \o enable)
           = Ats(low(other)) \cup Ats(addr) \cup Ats(enable)
  BY <1>3, AtsJoined
<1>6. /\ IsOff((disable \o no_addr) \o no_low)
      /\ Ats((disable \o no_addr) \o no_low)
           = Ats(disable) \cup Ats(no_addr) \cup Ats(no_low)
  BY <1>4, AtsJoined DEF IsOff
<1>. QED
  BY <1>2, <1>3, <1>4, <1>5, <1>6 DEF Undone

LEMMA Ipv6Static ==
    ASSUME NEW ip
    PROVE  LET on == (ipv6_prefix_toggle(ip, TRUE) \o ipv6_addr_toggle(ip, TRUE))
                       \o ipv6_prefix_lan_toggle(TRUE)
               off == (ipv6_addr_toggle(ip, FALSE) \o ipv6_prefix_toggle(ip, FALSE))
                        \o ipv6_prefix_lan_toggle(FALSE)
           IN  Undone(on, on, off)
<1>. DEFINE a == << Set(ip, "StaticPrefix", "off") >>
            b == << Set(ip, "StaticPrefix", "on") >>
            c == << Set(ip, "StaticAddress", "off") >>
            d == << Set(ip, "StaticAddress", "on"), Set(ip, "NoGUA_RA", "on") >>
            e == << Set("LAN", "StaticPrefix", "on") >>
            f == << Set(ip, "NoGUA_RA", "off") >>
            g == << >>
            h == << Set("LAN", "StaticPrefix", "off") >>
<1>1. /\ ipv6_prefix_toggle(ip, TRUE) = a \o b
      /\ ipv6_addr_toggle(ip, TRUE) = c \o d
      /\ ipv6_prefix_lan_toggle(TRUE) = e
      /\ ipv6_addr_toggle(ip, FALSE) = c \o f
      /\ ipv6_prefix_toggle(ip, FALSE) = a \o g
      /\ ipv6_prefix_lan_toggle(FALSE) = h
  BY DEF ipv6_prefix_toggle, ipv6_addr_toggle, ipv6_prefix_lan_toggle
<1>2. /\ IsOff(a) /\ Ats(a) = {<<ip, "StaticPrefix">>}
      /\ IsScript(b) /\ Ats(b) = {<<ip, "StaticPrefix">>}
      /\ IsOff(c) /\ Ats(c) = {<<ip, "StaticAddress">>}
      /\ IsScript(d) /\ Ats(d) = {<<ip, "StaticAddress">>, <<ip, "NoGUA_RA">>}
      /\ IsScript(e) /\ Ats(e) = {<<"LAN", "StaticPrefix">>}
      /\ IsOff(f) /\ Ats(f) = {<<ip, "NoGUA_RA">>}
      /\ IsOff(g) /\ Ats(g) = {}
      /\ IsOff(h) /\ Ats(h) = {<<"LAN", "StaticPrefix">>}
  BY Ats0, Ats1, Ats2, SetIs DEF Released
<1>. HIDE DEF a, b, c, d, e, f, g, h
<1>3. /\ IsScript(a \o b) /\ IsScript(c \o d)
      /\ Ats(a \o b) = Ats(a) \cup Ats(b) /\ Ats(c \o d) = Ats(c) \cup Ats(d)
      /\ IsOff(c \o f) /\ IsOff(a \o g)
      /\ Ats(c \o f) = Ats(c) \cup Ats(f) /\ Ats(a \o g) = Ats(a) \cup Ats(g)
  BY <1>2, AtsJoined DEF IsOff
<1>4. /\ IsScript((a \o b) \o (c \o d))
      /\ Ats((a \o b) \o (c \o d)) = Ats(a \o b) \cup Ats(c \o d)
      /\ IsOff((c \o f) \o (a \o g))
      /\ Ats((c \o f) \o (a \o g)) = Ats(c \o f) \cup Ats(a \o g)
  BY <1>3, AtsJoined DEF IsOff
<1>5. /\ IsScript(((a \o b) \o (c \o d)) \o e)
      /\ Ats(((a \o b) \o (c \o d)) \o e) = Ats((a \o b) \o (c \o d)) \cup Ats(e)
      /\ IsOff(((c \o f) \o (a \o g)) \o h)
      /\ Ats(((c \o f) \o (a \o g)) \o h) = Ats((c \o f) \o (a \o g)) \cup Ats(h)
  BY <1>2, <1>4, AtsJoined DEF IsOff
<1>6. Undone(((a \o b) \o (c \o d)) \o e, ((a \o b) \o (c \o d)) \o e,
             ((c \o f) \o (a \o g)) \o h)
  BY <1>2, <1>3, <1>4, <1>5 DEF Undone
<1>. QED
  BY <1>1, <1>6

LEMMA Ipv6 ==
    ASSUME NEW par, NEW other, Alike(par, other), NEW mode
    PROVE  Undone(ipv6_layer(mode, par, TRUE), ipv6_layer(mode, other, TRUE),
                  ipv6_layer(mode, other, FALSE))
<1>. DEFINE ip == par.IPv6Reference
            nd == get_nd_path(par)
            delegate == par.IPv6AddressDelegate
            low(p) == << Set(ip, "LowerLayers", Lower(p, 6)) >>
            address == IF delegate # None
                       THEN << Set(ip, "IPv6AddressDelegate", delegate) >>
                       ELSE IF mode = "ppp6"
                            THEN << Set(nd, "AutoConfEnable", "on") >>
                            ELSE << >>
            on == (ipv6_prefix_toggle(ip, TRUE) \o ipv6_addr_toggle(ip, TRUE))
                    \o ipv6_prefix_lan_toggle(TRUE)
            off == (ipv6_addr_toggle(ip, FALSE) \o ipv6_prefix_toggle(ip, FALSE))
                     \o ipv6_prefix_lan_toggle(FALSE)
            static == IF mode = "static" THEN on ELSE << >>
            no_static == IF mode = "static" THEN off ELSE << >>
            enable == << Set(ip, "IPv6Enable", "on") >>
            disable == << Enable(ip, "off") >>
            clear == << Set(ip, "IPv6Enable", "off"),
                        Set(ip, "IPv6AddressDelegate", "off"),
                        Set(nd, "AutoConfEnable", "off"),
                        Set(ip, "LowerLayers", "off") >>
            all(p) == ((low(p) \o address) \o static) \o enable
            none == (disable \o no_static) \o clear
<1>1. /\ other.IPv6Reference = ip /\ get_nd_path(other) = nd
      /\ other.IPv6AddressDelegate = delegate
  BY DEF Alike, get_nd_path
<1>2. /\ ipv6_layer(mode, par, TRUE) = Given({ip}, all(par))
      /\ ipv6_layer(mode, other, TRUE) = Given({ip}, all(other))
      /\ ipv6_layer(mode, other, FALSE) = none
  BY <1>1 DEF ipv6_layer, ipv6_set_config, ipv6_clear_config, get_ip_path
<1>3. Undone(on, on, off)
  BY Ipv6Static
<1>. HIDE DEF on, off
<1>4. Undone(static, static, no_static)
  BY <1>3, UndoneNone, Ats0
<1>5. /\ \A p : IsScript(low(p)) /\ Ats(low(p)) = {<<ip, "LowerLayers">>}
      /\ IsScript(address)
      /\ Ats(address) \subseteq {<<ip, "IPv6AddressDelegate">>, <<nd, "AutoConfEnable">>}
      /\ IsScript(enable) /\ Ats(enable) = {<<ip, "IPv6Enable">>}
  BY Ats0, Ats1, SetIs
<1>6. /\ IsOff(disable)
      /\ IsOff(clear)
      /\ Ats(clear) = {<<ip, "IPv6Enable">>, <<ip, "IPv6AddressDelegate">>,
                       <<nd, "AutoConfEnable">>, <<ip, "LowerLayers">>}
  <2>1. \A o, n : Released(Set(o, n, "off"))
    BY SetIs DEF Released
  <2>. QED
    BY <2>1, Ats1, Ats4, SetIs DEF Enable
<1>. HIDE DEF low, address, static, no_static, enable, disable, clear
<1>7. \A p : /\ IsScript(all(p))
             /\ Ats(all(p)) = Ats(low(p)) \cup Ats(address) \cup Ats(static) \cup Ats(enable)
  <2>. TAKE p
  <2>1. IsScript(static)
    BY <1>4 DEF Undone
  <2>2. IsScript(low(p) \o address) /\ Ats(low(p) \o address) = Ats(low(p)) \cup Ats(address)
    BY <1>5, AtsJoined
  <2>3. /\ IsScript((low(p) \o address) \o static)
        /\ Ats((low(p) \o address) \o static) = Ats(low(p) \o address) \cup Ats(static)
    BY <2>1, <2>2, AtsJoined
  <2>4. IsScript(all(p)) /\ Ats(all(p)) = Ats((low(p) \o address) \o static) \cup Ats(enable)
    BY <1>5, <2>3, AtsJoined
  <2>. QED
    BY <2>2, <2>3, <2>4
<1>8. /\ IsOff(none)
      /\ Ats(none) = Ats(disable) \cup Ats(no_static) \cup Ats(clear)
  <2>1. IsOff(no_static)
    BY <1>4 DEF Undone
  <2>2. /\ IsOff(disable \o no_static)
        /\ Ats(disable \o no_static) = Ats(disable) \cup Ats(no_static)
    BY <1>6, <2>1, AtsJoined DEF IsOff
  <2>. QED
    BY <1>6, <2>2, AtsJoined DEF IsOff
<1>. HIDE DEF all, none
<1>9. Undone(all(par), all(other), none)
  BY <1>4, <1>5, <1>6, <1>7, <1>8 DEF Undone
<1>10. Undone(Given({ip}, all(par)), Given({ip}, all(other)), none)
  BY <1>8, <1>9, UndoneNone DEF Given
<1>. QED
  BY <1>2, <1>10

LEMMA IpEnable ==
    ASSUME NEW par, NEW other, Alike(par, other), NEW v
    PROVE  Undone(ip_enable(v, par, "on"), ip_enable(v, other, "on"),
                  ip_enable(v, other, "off"))
<1>. DEFINE ip == get_ip_path(par, v)
            on == << Enable(ip, "on") >>
            off == << Enable(ip, "off") >>
<1>1. /\ ip_enable(v, par, "on") = on
      /\ ip_enable(v, other, "on") = on
      /\ ip_enable(v, other, "off") = off
  BY DEF Alike, ip_enable, get_ip_path
<1>2. /\ IsScript(on) /\ Ats(on) = {<<ip, "Enable">>}
      /\ IsOff(off) /\ Ats(off) = {<<ip, "Enable">>}
  BY Ats1, SetIs DEF Enable, Released
<1>. HIDE DEF on, off
<1>. QED
  BY <1>1, <1>2 DEF Undone

LEMMA ListedIs ==
    ASSUME NEW ip, NEW value, ip # None
    PROVE  /\ IsScript(Listed(ip, value))
           /\ Ats(Listed(ip, value)) = {<<"Logical", ip>>}
           /\ value = "off" => IsOff(Listed(ip, value))
<1>1. Listed(ip, value) = << Set("Logical", ip, value) >>
  BY DEF Listed, Given
<1>. QED
  BY <1>1, Ats1, SetIs DEF Released

LEMMA ListedUndone ==
    ASSUME NEW ip
    PROVE  Undone(Listed(ip, "on"), Listed(ip, "on"), Listed(ip, "off"))
<1>1. CASE ip = None
  <2>1. Listed(ip, "on") = << >> /\ Listed(ip, "off") = << >>
    BY <1>1 DEF Listed, Given
  <2>. QED
    BY <2>1, Ats0, UndoneNone
<1>2. CASE ip # None
  BY <1>2, ListedIs DEF Undone
<1>. QED
  BY <1>1, <1>2

LEMMA Logical ==
    ASSUME NEW par, NEW other, Alike(par, other), NEW v, NEW mode
    PROVE  Undone(logical_layer(mode, v, par, TRUE), logical_layer(mode, v, other, TRUE),
                  logical_layer(mode, v, other, FALSE))
<1>. DEFINE ip == get_ip_path(par, v)
            route == par.DefaultRouteReference
            origin == << Set(route, "Origin", IF ip = None THEN None
                                              ELSE get_routing_v4_origin(mode)) >>
            enable == << Enable(route, "on") >>
            default == IF v = 6 \/ route = None THEN << >> ELSE origin \o enable
            no_default == IF v = 6 \/ route = None THEN << >> ELSE << Enable(route, "off") >>
            on == default \o Listed(ip, "on")
            off == no_default \o Listed(ip, "off")
<1>1. /\ logical_layer(mode, v, par, TRUE) = on
      /\ logical_layer(mode, v, other, TRUE) = on
      /\ logical_layer(mode, v, other, FALSE) = off
  BY DEF Alike, logical_layer, get_ip_path, routing_default_route_set_origin
<1>2. /\ IsScript(origin) /\ Ats(origin) = {<<route, "Origin">>}
      /\ IsScript(enable) /\ Ats(enable) = {<<route, "Enable">>}
      /\ IsOff(<< Enable(route, "off") >>)
      /\ Ats(<< Enable(route, "off") >>) = {<<route, "Enable">>}
  BY Ats1, SetIs DEF Enable, Released
<1>3. Setting(<<route, "Origin">>)
  BY DEF Setting
<1>. HIDE DEF origin, enable
<1>4. /\ IsScript(default) /\ IsOff(no_default)
      /\ \A p \in Ats(default) : Setting(p) \/ p \in Ats(no_default)
  BY <1>2, <1>3, Ats0, AtsJoined
<1>. HIDE DEF default, no_default
<1>5. Undone(Listed(ip, "on"), Listed(ip, "on"), Listed(ip, "off"))
  BY ListedUndone
<1>6. /\ IsScript(on) /\ Ats(on) = Ats(default) \cup Ats(Listed(ip, "on"))
      /\ IsOff(off) /\ Ats(off) = Ats(no_default) \cup Ats(Listed(ip, "off"))
  BY <1>4, <1>5, AtsJoined DEF Undone, IsOff
<1>. HIDE DEF on, off
<1>7. Undone(on, on, off)
  BY <1>4, <1>5, <1>6 DEF Undone
<1>. QED
  BY <1>1, <1>7

(* PPP. *)
LEMMA CredentialsAre ==
    ASSUME NEW par, NEW ppp
    PROVE  /\ IsScript(Credentials(ppp, par))
           /\ Ats(Credentials(ppp, par)) \subseteq {<<ppp, "Username">>, <<ppp, "Password">>}
<1>. DEFINE a == << Set(ppp, "Username", par.UserName) >>
            b == << Set(ppp, "Password", par.Password) >>
            name == Given({par.UserName}, a)
            word == Given({par.Password}, b)
<1>1. /\ IsScript(a) /\ Ats(a) = {<<ppp, "Username">>}
      /\ IsScript(b) /\ Ats(b) = {<<ppp, "Password">>}
  BY Ats1, SetIs
<1>. HIDE DEF a, b
<1>2. /\ IsScript(name) /\ Ats(name) \subseteq {<<ppp, "Username">>}
      /\ IsScript(word) /\ Ats(word) \subseteq {<<ppp, "Password">>}
  BY <1>1, Ats0 DEF Given
<1>3. Credentials(ppp, par) = name \o word
  BY DEF Credentials, a, b
<1>. HIDE DEF name, word
<1>. QED
  BY <1>2, <1>3, AtsJoined

LEMMA PppLower ==
    ASSUME NEW par, NEW other, Alike(par, other), NEW v
    PROVE  Undone(ppp_lower_layer(v, par, TRUE), ppp_lower_layer(v, other, TRUE),
                  ppp_lower_layer(v, other, FALSE))
<1>. DEFINE ip == get_ip_path(par, v)
            ppp == get_ppp_path(par, v)
            cp == IF v = 4 THEN "IPCPEnable" ELSE "IPv6CPEnable"
            low(p) == << Set(ppp, "LowerLayers", p.LowerLayer) >>
            credentials == Credentials(ppp, par)
            enable == << Set(ppp, cp, "on"), Enable(ppp, "on") >>
            on(p) == (low(p) \o credentials) \o enable
            off == << Enable(ppp, "off"), Set(ppp, cp, "off"), Set(ppp, "LowerLayers", "off") >>
<1>1. /\ get_ip_path(other, v) = ip
      /\ get_ppp_path(other, v) = ppp
      /\ Credentials(ppp, other) = credentials
  BY DEF Alike, get_ip_path, get_ppp_path, Credentials
<1>2. /\ ppp_lower_layer(v, par, TRUE) = Given({ip}, on(par))
      /\ ppp_lower_layer(v, other, TRUE) = Given({ip}, on(other))
      /\ ppp_lower_layer(v, other, FALSE) = Given({ip}, off)
  BY <1>1 DEF ppp_lower_layer
<1>3. /\ \A p : IsScript(low(p)) /\ Ats(low(p)) = {<<ppp, "LowerLayers">>}
      /\ IsScript(enable) /\ Ats(enable) = {<<ppp, cp>>, <<ppp, "Enable">>}
      /\ IsOff(off)
      /\ Ats(off) = {<<ppp, "Enable">>, <<ppp, cp>>, <<ppp, "LowerLayers">>}
  <2>1. \A o, n : Released(Set(o, n, "off"))
    BY SetIs DEF Released
  <2>. QED
    BY <2>1, Ats1, Ats2, Ats3, SetIs DEF Enable
<1>4. /\ IsScript(credentials)
      /\ \A p \in Ats(credentials) : Setting(p)
  BY CredentialsAre DEF Setting
<1>. HIDE DEF low, credentials, enable, off
<1>5. \A p : /\ IsScript(on(p))
             /\ Ats(on(p)) = (Ats(low(p)) \cup Ats(credentials)) \cup Ats(enable)
  <2>. TAKE p
  <2>1. /\ IsScript(low(p) \o credentials)
        /\ Ats(low(p) \o credentials) = Ats(low(p)) \cup Ats(credentials)
    BY <1>3, <1>4, AtsJoined
  <2>. QED
    BY <1>3, <2>1, AtsJoined
<1>. HIDE DEF on
<1>6. Undone(on(par), on(other), off)
  BY <1>3, <1>4, <1>5 DEF Undone
<1>7. Undone(Given({ip}, on(par)), Given({ip}, on(other)), Given({ip}, off))
  BY <1>6, UndoneNone, Ats0 DEF Given
<1>. QED
  BY <1>2, <1>7

LEMMA PppUpper ==
    ASSUME NEW par, NEW other, Alike(par, other), NEW v
    PROVE  Undone(ppp_upper_layer(v, par, TRUE), ppp_upper_layer(v, other, TRUE),
                  ppp_upper_layer(v, other, FALSE))
<1>. DEFINE client == get_dhcp_path(par, 6)
            ip == get_ip_path(par, 6)
            nd == get_nd_path(par)
            on == << Enable(nd, "on"), Set(client, "Interface", ip),
                     Set(client, "RequestPrefixes", "on"), Enable(client, "on") >>
            off == << Enable(nd, "off"), Enable(client, "off"),
                      Set(client, "Interface", "off") >>
            script(s) == IF v = 4 THEN << >> ELSE Given({ip}, s)
<1>1. /\ ppp_upper_layer(v, par, TRUE) = script(on)
      /\ ppp_upper_layer(v, other, TRUE) = script(on)
      /\ ppp_upper_layer(v, other, FALSE) = script(off)
  BY DEF ppp_upper_layer, Alike, get_dhcp_path, get_ip_path, get_nd_path
<1>2. /\ IsScript(on)
      /\ Ats(on) = {<<nd, "Enable">>, <<client, "Interface">>,
                    <<client, "RequestPrefixes">>, <<client, "Enable">>}
      /\ IsOff(off)
      /\ Ats(off) = {<<nd, "Enable">>, <<client, "Enable">>, <<client, "Interface">>}
  <2>1. \A o, n : Released(Set(o, n, "off"))
    BY SetIs DEF Released
  <2>. QED
    BY <2>1, Ats3, Ats4, SetIs DEF Enable
<1>. HIDE DEF on, off
<1>3. Undone(on, on, off)
  BY <1>2 DEF Undone, Setting
<1>4. Undone(script(on), script(on), script(off))
  BY <1>3, UndoneNone, Ats0 DEF Given
<1>. QED
  BY <1>1, <1>4

(* The clients. *)
LEMMA Dhcp4 ==
    ASSUME NEW par, NEW other, Alike(par, other)
    PROVE  Undone(dhcp4_layer(par, TRUE), dhcp4_layer(other, TRUE), dhcp4_layer(other, FALSE))
<1>. DEFINE client == get_dhcp_path(par, 4)
            ip == get_ip_path(par, 4)
            on == << Set(client, "Interface", ip), Enable(client, "on") >>
            off == << Enable(client, "off"), Set(client, "Interface", "off") >>
            script(s) == Given({client, ip}, s)
<1>1. /\ dhcp4_layer(par, TRUE) = script(on)
      /\ dhcp4_layer(other, TRUE) = script(on)
      /\ dhcp4_layer(other, FALSE) = script(off)
  BY DEF dhcp4_layer, Alike, get_dhcp_path, get_ip_path
<1>2. /\ IsScript(on) /\ Ats(on) = {<<client, "Interface">>, <<client, "Enable">>}
      /\ IsOff(off) /\ Ats(off) = {<<client, "Enable">>, <<client, "Interface">>}
  BY Ats2, SetIs DEF Enable, Released
<1>. HIDE DEF on, off
<1>3. Undone(on, on, off)
  BY <1>2 DEF Undone
<1>4. Undone(script(on), script(on), script(off))
  BY <1>3, UndoneNone, Ats0 DEF Given
<1>. QED
  BY <1>1, <1>4

LEMMA Dhcp6 ==
    ASSUME NEW par, NEW other, Alike(par, other)
    PROVE  Undone(dhcp6_layer(par, TRUE), dhcp6_layer(other, TRUE), dhcp6_layer(other, FALSE))
<1>. DEFINE client == get_dhcp_path(par, 6)
            ip == get_ip_path(par, 6)
            nd == get_nd_path(par)
            set == << Set(client, "Interface", ip), Enable(client, "on") >>
            clear == << Enable(client, "off"), Set(client, "Interface", "off") >>
            enable == << Enable(nd, "on") >>
            disable == << Enable(nd, "off") >>
            on == Given({client}, set) \o enable
            off == disable \o Given({client}, clear)
<1>1. /\ dhcp6_layer(par, TRUE) = Given({ip}, on)
      /\ dhcp6_layer(other, TRUE) = Given({ip}, on)
      /\ dhcp6_layer(other, FALSE) = Given({ip}, off)
  BY DEF dhcp6_layer, Alike, get_dhcp_path, get_ip_path, get_nd_path
<1>2. /\ IsScript(set) /\ Ats(set) = {<<client, "Interface">>, <<client, "Enable">>}
      /\ IsOff(clear) /\ Ats(clear) = {<<client, "Enable">>, <<client, "Interface">>}
      /\ IsScript(enable) /\ Ats(enable) = {<<nd, "Enable">>}
      /\ IsOff(disable) /\ Ats(disable) = {<<nd, "Enable">>}
  BY Ats1, Ats2, SetIs DEF Enable, Released
<1>. HIDE DEF set, clear, enable, disable
<1>3. /\ IsScript(Given({client}, set))
      /\ IsOff(Given({client}, clear))
      /\ Ats(Given({client}, set)) = Ats(Given({client}, clear))
  BY <1>2, Ats0 DEF Given
<1>4. /\ IsScript(on)
      /\ Ats(on) = Ats(Given({client}, set)) \cup Ats(enable)
      /\ IsOff(off)
      /\ Ats(off) = Ats(disable) \cup Ats(Given({client}, clear))
  BY <1>2, <1>3, AtsJoined DEF IsOff
<1>. HIDE DEF on, off
<1>5. Undone(on, on, off)
  BY <1>2, <1>3, <1>4 DEF Undone
<1>6. Undone(Given({ip}, on), Given({ip}, on), Given({ip}, off))
  BY <1>5, UndoneNone, Ats0 DEF Given
<1>. QED
  BY <1>1, <1>6

LEMMA Static ==
    ASSUME NEW par, NEW other, Alike(par, other), NEW v
    PROVE  Undone(static_layer(v, par, TRUE), static_layer(v, other, TRUE),
                  static_layer(v, other, FALSE))
<1>. DEFINE ip == get_ip_path(par, 6)
            route == IF v = 6 /\ par.DefaultRouter # None THEN << Route("on") >> ELSE << >>
            mode == << Set("WANMode", IF v = 4 THEN "DNSMode" ELSE "IPv6DNSMode", "static") >>
            dns == IF par.Name = "wan" THEN mode ELSE << >>
            on == Given({ip, par.Name}, route \o dns)
            off == IF v = 4 THEN << >> ELSE Given({ip}, << Route("off") >>)
<1>1. /\ static_layer(v, par, TRUE) = on
      /\ static_layer(v, other, TRUE) = on
      /\ static_layer(v, other, FALSE) = off
  BY DEF static_layer, static_enable, static_disable, Alike, get_ip_path
<1>2. /\ IsScript(<< Route("on") >>)
      /\ Ats(<< Route("on") >>) = {<<"Routing", "IPv6Forwarding">>}
      /\ IsOff(<< Route("off") >>)
      /\ Ats(<< Route("off") >>) = {<<"Routing", "IPv6Forwarding">>}
      /\ IsScript(mode)
      /\ Ats(mode) = {<<"WANMode", IF v = 4 THEN "DNSMode" ELSE "IPv6DNSMode">>}
  BY Ats1, SetIs DEF Route, Released
<1>3. \A p \in Ats(mode) : Setting(p)
  BY <1>2 DEF Setting
<1>. HIDE DEF mode
<1>4. IsScript(dns) /\ \A p \in Ats(dns) : Setting(p)
  BY <1>2, <1>3, Ats0
<1>5. /\ IsScript(route)
      /\ Ats(route) \subseteq {<<"Routing", "IPv6Forwarding">>}
      /\ v = 4 => Ats(route) = {}
  BY <1>2, Ats0
<1>. HIDE DEF route, dns
<1>6. IsScript(route \o dns) /\ Ats(route \o dns) = Ats(route) \cup Ats(dns)
  BY <1>4, <1>5, AtsJoined
<1>7. IsOff(off)
  BY <1>2, Ats0 DEF Given
<1>8. CASE None \in {ip, par.Name}
  <2>1. on = << >>
    BY <1>8 DEF Given
  <2>. QED
    BY <1>1, <1>7, <2>1, UndoneNone
<1>9. CASE None \notin {ip, par.Name}
  <2>1. /\ on = route \o dns
        /\ v # 4 => off = << Route("off") >>
    BY <1>9 DEF Given
  <2>. HIDE DEF on, off
  <2>2. Undone(on, on, off)
    BY <1>2, <1>4, <1>5, <1>6, <1>7, <2>1 DEF Undone
  <2>. QED
    BY <1>1, <2>2
<1>. QED
  BY <1>8, <1>9

LEMMA Cellular ==
    ASSUME NEW par, NEW other
    PROVE  Undone(cellular_layer(par, TRUE), cellular_layer(other, TRUE),
                  cellular_layer(other, FALSE))
<1>. DEFINE on(p) == << Set("AccessPoint", "IPType", get_cellular_ip_type(p)),
                        Enable("AccessPoint", "on") >>
            off == << Enable("AccessPoint", "off") >>
<1>1. /\ cellular_layer(par, TRUE) = on(par)
      /\ cellular_layer(other, TRUE) = on(other)
      /\ cellular_layer(other, FALSE) = off
  BY DEF cellular_layer
<1>2. /\ \A p : /\ IsScript(on(p))
                /\ Ats(on(p)) = {<<"AccessPoint", "IPType">>, <<"AccessPoint", "Enable">>}
      /\ IsOff(off) /\ Ats(off) = {<<"AccessPoint", "Enable">>}
  BY Ats1, Ats2, SetIs DEF Enable, Released
<1>3. Setting(<<"AccessPoint", "IPType">>)
  BY DEF Setting
<1>. HIDE DEF on, off
<1>4. Undone(on(par), on(other), off)
  BY <1>2, <1>3 DEF Undone
<1>. QED
  BY <1>1, <1>4

LEMMA Dslite ==
    ASSUME NEW par, NEW other, Alike(par, other)
    PROVE  Undone(dslite_layer(par, TRUE), dslite_layer(other, TRUE), dslite_layer(other, FALSE))
<1>. DEFINE client == get_dhcp_path(par, 6)
            dslite == get_dslite_path(par)
            pcp == get_pcp_path(par)
            ip == get_ip_path(par, 4)
            on == << Enable("DSLite", "on"), Enable(dslite, "on"),
                     Enable("PCP", "on"), Enable(pcp, "on"),
                     Set(client, "Interface", "WANInterface"), Enable(client, "on") >>
            off == << Unchecked(Enable(client, "off")), Set(client, "Interface", "off"),
                      Enable(dslite, "off"), Enable(pcp, "off") >>
<1>1. /\ dslite_layer(par, TRUE) = Given({ip, client}, on)
      /\ dslite_layer(other, TRUE) = Given({ip, client}, on)
      /\ dslite_layer(other, FALSE) = Given({client}, off)
  BY DEF dslite_layer, Alike, get_dhcp_path, get_dslite_path, get_pcp_path, get_ip_path
<1>2. /\ At(Unchecked(Enable(client, "off"))) = <<client, "Enable">>
      /\ Unchecked(Enable(client, "off")).value = "off"
  BY DEF Unchecked, Enable, Set, At
<1>3. \A o, n : Released(Set(o, n, "off"))
  BY SetIs DEF Released
<1>4. /\ IsScript(on)
      /\ Ats(on) = {<<"DSLite", "Enable">>, <<dslite, "Enable">>, <<"PCP", "Enable">>,
                    <<pcp, "Enable">>, <<client, "Interface">>, <<client, "Enable">>}
  BY Ats6, SetIs DEF Enable
<1>5. /\ IsOff(off)
      /\ Ats(off) = {<<client, "Enable">>, <<client, "Interface">>,
                     <<dslite, "Enable">>, <<pcp, "Enable">>}
  <2>1. Released(Unchecked(Enable(client, "off")))
    BY <1>2 DEF Released
  <2>. QED
    BY <1>2, <1>3, <2>1, Ats4, SetIs DEF Enable
<1>6. Setting(<<"DSLite", "Enable">>) /\ Setting(<<"PCP", "Enable">>)
  BY DEF Setting
<1>. HIDE DEF on, off
<1>7. Undone(on, on, off)
  BY <1>4, <1>5, <1>6 DEF Undone
<1>8. Undone(Given({ip, client}, on), Given({ip, client}, on), Given({client}, off))
  BY <1>7, UndoneNone, Ats0 DEF Given, Undone
<1>. QED
  BY <1>1, <1>8

LEMMA Client ==
    ASSUME NEW par, NEW other, Alike(par, other), NEW v, NEW mode
    PROVE  Undone(client_layer(mode, v, par, TRUE), client_layer(mode, v, other, TRUE),
                  client_layer(mode, v, other, FALSE))
<1>1. Undone(<< >>, << >>, << >>)
  BY Ats0, UndoneNone
<1>2. CASE PPP(mode)
  BY <1>2, PppUpper DEF client_layer, PPP
<1>3. CASE ~PPP(mode)
  BY <1>1, <1>3, Dhcp4, Dhcp6, Static, Cellular, Dslite DEF client_layer, PPP
<1>. QED
  BY <1>2, <1>3

(***************************************************************************)
(* The layers of a mode and of an interface                                *)
(***************************************************************************)
LEMMA Controllers ==
    ASSUME NEW par, NEW other, Alike(par, other), NEW v \in {4, 6}, NEW mode
    PROVE  LET on == controllers(mode, v, par, TRUE)
               on_2 == controllers(mode, v, other, TRUE)
               off == controllers(mode, v, other, FALSE)
           IN  \A i \in 1 .. 5 : Undone(on[i], on_2[i], off[i])
<1>. DEFINE own == mode \notin {"none", "link", "dslite"}
            only(cond, script) == IF cond THEN script ELSE << >>
            layers(p, on) ==
              << only(PPP(mode), ppp_lower_layer(v, p, on)),
                 only(own, ip_layer(mode, v, p, on)),
                 only(own, ip_enable(v, p, IF on THEN "on" ELSE "off")),
                 client_layer(mode, v, p, on),
                 only(mode # "none", logical_layer(mode, v, p, on)) >>
<1>1. \A p, on : controllers(mode, v, p, on) = layers(p, on)
  BY DEF controllers
<1>2. Undone(ip_layer(mode, v, par, TRUE), ip_layer(mode, v, other, TRUE),
             ip_layer(mode, v, other, FALSE))
  BY Ipv4, Ipv6 DEF ip_layer
<1>3. \A s, s_2, t, cond : Undone(s, s_2, t) =>
          Undone(only(cond, s), only(cond, s_2), only(cond, t))
  BY UndoneNone, Ats0
<1>4. /\ Undone(only(PPP(mode), ppp_lower_layer(v, par, TRUE)),
                only(PPP(mode), ppp_lower_layer(v, other, TRUE)),
                only(PPP(mode), ppp_lower_layer(v, other, FALSE)))
      /\ Undone(only(own, ip_layer(mode, v, par, TRUE)),
                only(own, ip_layer(mode, v, other, TRUE)),
                only(own, ip_layer(mode, v, other, FALSE)))
      /\ Undone(only(own, ip_enable(v, par, "on")),
                only(own, ip_enable(v, other, "on")),
                only(own, ip_enable(v, other, "off")))
      /\ Undone(client_layer(mode, v, par, TRUE), client_layer(mode, v, other, TRUE),
                client_layer(mode, v, other, FALSE))
      /\ Undone(only(mode # "none", logical_layer(mode, v, par, TRUE)),
                only(mode # "none", logical_layer(mode, v, other, TRUE)),
                only(mode # "none", logical_layer(mode, v, other, FALSE)))
  <2>. HIDE DEF own, only
  <2>. QED
    BY <1>2, <1>3, PppLower, IpEnable, Client, Logical
<1>5. 1 .. 5 = {1, 2, 3, 4, 5}
  OBVIOUS
<1>. HIDE DEF own, only
<1>6. ASSUME NEW i \in 1 .. 5
      PROVE  Undone(layers(par, TRUE)[i], layers(other, TRUE)[i], layers(other, FALSE)[i])
  <2>1. CASE i = 1
    BY <1>4, <2>1
  <2>2. CASE i = 2
    BY <1>4, <2>2
  <2>3. CASE i = 3
    BY <1>4, <2>3
  <2>4. CASE i = 4
    BY <1>4, <2>4
  <2>5. CASE i = 5
    BY <1>4, <2>5
  <2>. QED
    BY <1>5, <2>1, <2>2, <2>3, <2>4, <2>5
<1>. QED
  BY <1>1, <1>6

LEMMA ControllersShape ==
    ASSUME NEW par, NEW v \in {4, 6}, NEW mode, NEW on \in BOOLEAN
    PROVE  LET layers == controllers(mode, v, par, on)
           IN  /\ layers \in Seq(Range(layers))
               /\ Len(layers) = 5
               /\ \A s \in Range(layers) : IsScript(s)
               /\ mode = "none" => Range(layers) = {<< >>}
<1>. DEFINE layers == controllers(mode, v, par, on)
<1>1. IsScript(layers) /\ Len(layers) = 5
  <2>1. PICK a, b, c, d, e : layers = << a, b, c, d, e >>
    BY DEF controllers
  <2>. HIDE DEF layers
  <2>2. Len(layers) = 5
    BY <2>1
  <2>. QED
    BY <2>1, <2>2, Scripts5
<1>2. \A i \in 1 .. 5 : IsScript(layers[i])
  <2>1. Alike(par, par)
    BY DEF Alike
  <2>. QED
    BY <2>1, Controllers DEF Undone, IsOff
<1>3. mode = "none" => \A i \in 1 .. 5 : layers[i] = << >>
  <2>1. 1 .. 5 = {1, 2, 3, 4, 5}
    OBVIOUS
  <2>2. mode = "none" => client_layer(mode, v, par, on) = << >>
    BY DEF client_layer, PPP
  <2>. QED
    BY <2>1, <2>2 DEF controllers, PPP
<1>. HIDE DEF layers
<1>4. DOMAIN layers = 1 .. 5
  BY <1>1, ScriptShape
<1>5. /\ \A s \in Range(layers) : IsScript(s)
      /\ mode = "none" => Range(layers) = {<< >>}
  BY <1>2, <1>3, <1>4 DEF Range
<1>. QED
  BY <1>1, <1>5 DEF layers, IsScript

\* Pairing the layers of both versions and going through them in either order
\* leaves out no layer.
LEMMA Ordered ==
    ASSUME NEW S, NEW a \in Seq(S), NEW b \in Seq(S), Len(a) = 5, Len(b) = 5
    PROVE  /\ FlattenSeq(Zip(a, b)) \in Seq(S)
           /\ Range(FlattenSeq(Zip(a, b))) = Range(a) \cup Range(b)
           /\ FlattenSeq(Reverse(Zip(a, b))) \in Seq(S)
           /\ Range(FlattenSeq(Reverse(Zip(a, b)))) = Range(a) \cup Range(b)
<1>. DEFINE pairs == Zip(a, b)
<1>1. /\ DOMAIN a = 1 .. 5 /\ DOMAIN b = 1 .. 5
      /\ \A i \in 1 .. 5 : a[i] \in S /\ b[i] \in S
  BY LenProperties, ElementOfSeq
<1>2. pairs = [i \in 1 .. 5 |-> << a[i], b[i] >>]
  BY DEF Zip
<1>3. /\ pairs \in Seq(Seq(S)) /\ Len(pairs) = 5
      /\ \A i \in 1 .. 5 : Range(pairs[i]) = {a[i], b[i]}
  <2>1. \A i \in 1 .. 5 : pairs[i] = << a[i], b[i] >> /\ << a[i], b[i] >> \in Seq(S)
    BY <1>1, <1>2
  <2>2. \A i \in 1 .. 5 : Range(pairs[i]) = {a[i], b[i]}
    BY <2>1, Scripts2
  <2>. DEFINE T == Seq(S)
              pair(i) == << a[i], b[i] >>
  <2>3. pairs = [i \in 1 .. 5 |-> pair(i)] /\ \A i \in 1 .. 5 : pair(i) \in T
    BY <1>2, <2>1
  <2>. HIDE DEF pairs, T, pair
  <2>4. pairs \in Seq(T) /\ Len(pairs) = 5
    BY <2>3
  <2>. QED
    BY <2>2, <2>4 DEF T
<1>4. /\ Reverse(pairs) \in Seq(Seq(S)) /\ Len(Reverse(pairs)) = 5
      /\ \A i \in 1 .. 5 : Reverse(pairs)[i] = pairs[6 - i] /\ 6 - i \in 1 .. 5
  <2>. HIDE DEF pairs
  <2>1. DOMAIN pairs = 1 .. 5 /\ \A i \in 1 .. 5 : pairs[i] \in Seq(S)
    BY <1>3, LenProperties, ElementOfSeq
  <2>2. Reverse(pairs) = [i \in 1 .. 5 |-> pairs[(5 - i) + 1]]
    BY <1>3 DEF Reverse
  <2>3. \A i \in 1 .. 5 : (5 - i) + 1 = 6 - i /\ 6 - i \in 1 .. 5
    OBVIOUS
  <2>. QED
    BY <2>1, <2>2, <2>3
<1>. HIDE DEF pairs
<1>5. DOMAIN pairs = 1 .. 5 /\ DOMAIN Reverse(pairs) = 1 .. 5
  BY <1>3, <1>4, LenProperties
<1>6. Range(a) \cup Range(b) = UNION {Range(pairs[i]) : i \in 1 .. 5}
  <2>1. /\ \A x : x \in Range(a) <=> \E i \in 1 .. 5 : x = a[i]
        /\ \A x : x \in Range(b) <=> \E i \in 1 .. 5 : x = b[i]
    BY <1>1 DEF Range
  <2>2. \A x : x \in UNION {Range(pairs[i]) : i \in 1 .. 5}
                <=> \E i \in 1 .. 5 : x \in {a[i], b[i]}
    BY <1>3
  <2>. QED
    BY <2>1, <2>2
<1>7. UNION {Range(pairs[i]) : i \in 1 .. 5}
        = UNION {Range(Reverse(pairs)[i]) : i \in 1 .. 5}
  <2>1. \A i \in 1 .. 5 : 6 - (6 - i) = i
    OBVIOUS
  <2>2. \A i \in 1 .. 5 : pairs[i] = Reverse(pairs)[6 - i] /\ 6 - i \in 1 .. 5
    BY <1>4, <2>1
  <2>. QED
    BY <1>4, <2>2
<1>. QED
  BY <1>3, <1>4, <1>5, <1>6, <1>7, Flatten DEF pairs

AtsOf(layers) == UNION {Ats(s) : s \in Range(layers)}

\* What enabling a mode writes, and what enabling a bridge without an IP mode does.
Base(par) == Full(par, par, None)

EnabledBy(par, v, mode) ==
    AtsOf(controllers(mode, v, Base(par), TRUE))

BridgeAlone(par) ==
    IF Bridged(par) THEN Ats(bridge_mode_ctrl_action(Base(par), TRUE)) ELSE {}

Switched(par, modes) ==
    Ats(Plug(par, TRUE))
      \cup EnabledBy(par, 4, modes.IPv4Mode)
      \cup EnabledBy(par, 6, modes.IPv6Mode)
      \cup (IF NoIpMode(modes) THEN BridgeAlone(par) ELSE {})

LEMMA BridgeUndone ==
    ASSUME NEW par, NEW other, Alike(par, other)
    PROVE  Undone(bridge_mode_ctrl_action(par, TRUE), bridge_mode_ctrl_action(other, TRUE),
                  bridge_mode_ctrl_action(other, FALSE))
<1>. DEFINE ip == get_ip_path(par, 4)
            set(p) == << Set(ip, "LowerLayers", p.LowerLayer), Enable(ip, "on") >>
            clear == << Enable(ip, "off"), Set(ip, "LowerLayers", "off") >>
            on(p) == set(p) \o Listed(ip, "on")
            off == Listed(ip, "off") \o clear
<1>1. /\ bridge_mode_ctrl_action(par, TRUE) = Given({ip}, on(par))
      /\ bridge_mode_ctrl_action(other, TRUE) = Given({ip}, on(other))
      /\ bridge_mode_ctrl_action(other, FALSE) = Given({ip}, off)
  BY DEF bridge_mode_ctrl_action, Alike, get_ip_path
<1>2. /\ \A p : IsScript(set(p)) /\ Ats(set(p)) = {<<ip, "LowerLayers">>, <<ip, "Enable">>}
      /\ IsOff(clear) /\ Ats(clear) = {<<ip, "Enable">>, <<ip, "LowerLayers">>}
  BY Ats2, SetIs DEF Enable, Released
<1>3. Undone(Listed(ip, "on"), Listed(ip, "on"), Listed(ip, "off"))
  BY ListedUndone
<1>. HIDE DEF set, clear
<1>4. /\ \A p : /\ IsScript(on(p))
                /\ Ats(on(p)) = Ats(set(p)) \cup Ats(Listed(ip, "on"))
      /\ IsOff(off)
      /\ Ats(off) = Ats(Listed(ip, "off")) \cup Ats(clear)
  BY <1>2, <1>3, AtsJoined DEF IsOff, Undone
<1>. HIDE DEF on, off
<1>5. Undone(on(par), on(other), off)
  BY <1>2, <1>3, <1>4 DEF Undone
<1>6. Undone(Given({ip}, on(par)), Given({ip}, on(other)), Given({ip}, off))
  BY <1>5, UndoneNone, Ats0 DEF Given
<1>. QED
  BY <1>1, <1>6

LEMMA PlugUndone ==
    ASSUME NEW par, NEW other, Alike(par, other)
    PROVE  Undone(Plug(par, TRUE), Plug(other, TRUE), Plug(other, FALSE))
<1>. DEFINE port(value) == << Set(par.BridgeReference, "Port", value) >>
            vlan(value) == << Enable("VLAN", value) >>
            plug(value) == IF par.BridgeReference # None THEN port(value)
                           ELSE IF par.Type = "vlan" THEN vlan(value) ELSE << >>
<1>1. /\ Plug(par, TRUE) = plug("on")
      /\ Plug(other, TRUE) = plug("on")
      /\ Plug(other, FALSE) = plug("off")
  BY DEF Plug, Alike, Bridged
<1>2. /\ \A value : Ats(port(value)) = {<<par.BridgeReference, "Port">>}
      /\ \A value : Ats(vlan(value)) = {<<"VLAN", "Enable">>}
      /\ IsScript(port("on")) /\ IsScript(vlan("on"))
      /\ IsOff(port("off")) /\ IsOff(vlan("off"))
  BY Ats1, SetIs DEF Enable, Released
<1>. HIDE DEF port, vlan
<1>3. Undone(plug("on"), plug("on"), plug("off"))
  BY <1>2, Ats0 DEF Undone
<1>. QED
  BY <1>1, <1>3

LEMMA AlikeIs ==
    ASSUME NEW par, NEW other, Alike(par, other)
    PROVE  /\ Alike(other, par)
           /\ Bridged(par) <=> Bridged(other)
           /\ LowerLayer(par) = LowerLayer(other)
           /\ Ats(Plug(par, TRUE)) = Ats(Plug(other, TRUE))
BY PlugUndone DEF Alike, Bridged, LowerLayer, Undone

LEMMA AlikeJoins ==
    ASSUME NEW a, NEW b, NEW c, Alike(a, b), Alike(b, c)
    PROVE  Alike(a, c)
BY DEF Alike

(***************************************************************************)
(* What a mode enables, the same mode disables (the tables of mode_ctrl.c  *)
(* and every handler in them): all that its five layers write to enable an *)
(* interface, settings apart, they write to disable it, whatever became of *)
(* PPP in between (par and other differ in what a turn works out), and to  *)
(* disable it they switch nothing on.                                      *)
(***************************************************************************)
LEMMA ModeUndone ==
    ASSUME NEW par, NEW other, Alike(par, other), NEW v \in {4, 6}, NEW mode
    PROVE  /\ \A p \in AtsOf(controllers(mode, v, par, TRUE)) :
                 p \in AtsOf(controllers(mode, v, other, TRUE))
           /\ \A s \in Range(controllers(mode, v, other, FALSE)) : IsOff(s)
           /\ \A p \in AtsOf(controllers(mode, v, par, TRUE)) :
                 Setting(p) \/ p \in AtsOf(controllers(mode, v, other, FALSE))
<1>. DEFINE on == controllers(mode, v, par, TRUE)
            on_2 == controllers(mode, v, other, TRUE)
            off == controllers(mode, v, other, FALSE)
<1>1. \A i \in 1 .. 5 : Undone(on[i], on_2[i], off[i])
  BY Controllers
<1>2. IsScript(on) /\ IsScript(on_2) /\ IsScript(off)
      /\ Len(on) = 5 /\ Len(on_2) = 5 /\ Len(off) = 5
  BY ControllersShape DEF IsScript
<1>. HIDE DEF on, on_2, off
<1>3. DOMAIN on = 1 .. 5 /\ DOMAIN on_2 = 1 .. 5 /\ DOMAIN off = 1 .. 5
  BY <1>2, ScriptShape
<1>4. /\ UNION {Ats(s) : s \in Range(on)} = UNION {Ats(on[i]) : i \in 1 .. 5}
      /\ UNION {Ats(s) : s \in Range(on_2)} = UNION {Ats(on_2[i]) : i \in 1 .. 5}
      /\ UNION {Ats(s) : s \in Range(off)} = UNION {Ats(off[i]) : i \in 1 .. 5}
  BY <1>3 DEF Range
<1>5. UNION {Ats(on[i]) : i \in 1 .. 5} = UNION {Ats(on_2[i]) : i \in 1 .. 5}
  BY <1>1 DEF Undone
<1>6. \A p \in UNION {Ats(on[i]) : i \in 1 .. 5} :
         Setting(p) \/ p \in UNION {Ats(off[i]) : i \in 1 .. 5}
  BY <1>1 DEF Undone
<1>7. \A s \in Range(off) : IsOff(s)
  BY <1>1, <1>3 DEF Undone, Range
<1>8. /\ UNION {Ats(s) : s \in Range(on)} = UNION {Ats(s) : s \in Range(on_2)}
      /\ \A p \in UNION {Ats(s) : s \in Range(on)} :
            Setting(p) \/ p \in UNION {Ats(s) : s \in Range(off)}
  BY <1>4, <1>5, <1>6
<1>. QED
  BY <1>7, <1>8 DEF AtsOf, on, on_2, off

LEMMA ScriptSets ==
    ASSUME NEW scripts
    PROVE  /\ WritesIn(scripts) = UNION {Range(s) : s \in Range(scripts)}
           /\ Meant(scripts) = AtsOf(scripts)
<1>1. WritesIn(scripts) = UNION {Range(s) : s \in Range(scripts)}
  BY DEF WritesIn, Range
<1>2. Meant(scripts) = {At(w) : w \in WritesIn(scripts)}
  BY DEF Meant, WritesIn
<1>. DEFINE R == Range(scripts)
<1>. HIDE DEF R
<1>3. {At(w) : w \in UNION {Range(s) : s \in R}} = UNION {Ats(s) : s \in R}
  BY DEF Ats
<1>. QED
  BY <1>1, <1>2, <1>3 DEF R, AtsOf

LEMMA ModeCtrl ==
    ASSUME NEW par, NEW modes, NEW on \in BOOLEAN
    PROVE  LET layers == mode_ctrl_action(modes, par, on)
           IN  /\ AreScripts(layers)
               /\ Range(layers) = Range(controllers(modes.IPv4Mode, 4, par, on))
                                    \cup Range(controllers(modes.IPv6Mode, 6, par, on))
<1>. DEFINE a == controllers(modes.IPv4Mode, 4, par, on)
            b == controllers(modes.IPv6Mode, 6, par, on)
            S == Range(a) \cup Range(b)
<1>1. /\ a \in Seq(Range(a)) /\ Len(a) = 5 /\ \A s \in Range(a) : IsScript(s)
      /\ b \in Seq(Range(b)) /\ Len(b) = 5 /\ \A s \in Range(b) : IsScript(s)
  BY ControllersShape
<1>2. mode_ctrl_action(modes, par, on)
        = FlattenSeq(IF on THEN Zip(a, b) ELSE Reverse(Zip(a, b)))
  BY DEF mode_ctrl_action
<1>. HIDE DEF a, b
<1>3. a \in Seq(S) /\ b \in Seq(S)
  BY <1>1, SeqMonotonic
<1>4. /\ mode_ctrl_action(modes, par, on) \in Seq(S)
      /\ Range(mode_ctrl_action(modes, par, on)) = S
  BY <1>1, <1>2, <1>3, Ordered
<1>5. AreScripts(mode_ctrl_action(modes, par, on))
  BY <1>1, <1>4 DEF AreScripts, IsScript
<1>. QED
  BY <1>4, <1>5 DEF a, b

LEMMA ModeLayers ==
    ASSUME NEW par, IsInterface(par), NEW modes, NEW on \in BOOLEAN, NEW refused
    PROVE  LET full == Full(par, modes, refused)
               layers == mode_layers(par, modes, on, refused)
           IN  /\ AreScripts(layers)
               /\ Range(layers) =
                    IF ~NoIpMode(modes)
                    THEN Range(controllers(modes.IPv4Mode, 4, full, on))
                           \cup Range(controllers(modes.IPv6Mode, 6, full, on))
                    ELSE IF Bridged(par) THEN {bridge_mode_ctrl_action(full, on)} ELSE {}
<1>. DEFINE full == Full(par, modes, refused)
            layers == mode_layers(par, modes, on, refused)
<1>1. layers = IF NoIpMode(modes) /\ ~Bridged(par) THEN << >>
               ELSE IF NoIpMode(modes) THEN << bridge_mode_ctrl_action(full, on) >>
               ELSE mode_ctrl_action(modes, full, on)
  BY DEF mode_layers, Full, Low
<1>2. IsScript(bridge_mode_ctrl_action(full, on))
  <2>1. Alike(full, full)
    BY DEF Alike
  <2>. QED
    BY <2>1, BridgeUndone DEF Undone, IsOff
<1>. HIDE DEF full, layers
<1>3. CASE NoIpMode(modes) /\ ~Bridged(par)
  BY <1>1, <1>3, Scripts0 DEF AreScripts, full, layers
<1>4. CASE NoIpMode(modes) /\ Bridged(par)
  BY <1>1, <1>2, <1>4, Scripts1 DEF AreScripts, full, layers
<1>5. CASE ~NoIpMode(modes)
  BY <1>1, <1>5, ModeCtrl DEF full, layers
<1>. QED
  BY <1>3, <1>4, <1>5

Plugged(par, refused) == ~Bridged(par) \/ Complete(Plug(par, TRUE), refused)

\* The scripts of a turn: those of the layers, unless the port of a bridge is
\* missing, and the plug.
LEMMA Turn ==
    ASSUME NEW par, IsInterface(par), NEW modes, NEW on \in BOOLEAN, NEW refused
    PROVE  LET layers == mode_layers(par, modes, on, refused)
               scripts == wan_mode_intf_enable(par, modes, on, refused).scripts
           IN  /\ AreScripts(scripts)
               /\ Range(scripts) \subseteq Range(layers) \cup {Plug(par, on)}
               /\ ~on \/ Plugged(par, refused) =>
                      Range(scripts) = Range(layers) \cup {Plug(par, on)}
<1>. DEFINE plug == Plug(par, on)
            layers == mode_layers(par, modes, on, refused)
            plugged == ~Bridged(par) \/ Complete(plug, refused)
            first == IF on THEN << plug >> ELSE << >>
            last == IF on THEN << >> ELSE << plug >>
            middle == IF on /\ ~plugged THEN << >> ELSE layers
            scripts == wan_mode_intf_enable(par, modes, on, refused).scripts
<1>1. scripts = (first \o middle) \o last
  BY DEF wan_mode_intf_enable, WithPlug
<1>2. on => (plugged <=> Plugged(par, refused))
  BY DEF Plugged
<1>3. IsScript(plug)
  <2>1. Alike(par, par)
    BY DEF Alike
  <2>. QED
    BY <2>1, PlugUndone DEF Undone, IsOff
<1>4. AreScripts(layers)
  BY ModeLayers
<1>. HIDE DEF plug, layers, scripts, plugged
<1>5. /\ AreScripts(first) /\ Range(first) = IF on THEN {plug} ELSE {}
      /\ AreScripts(last) /\ Range(last) = IF on THEN {} ELSE {plug}
      /\ AreScripts(middle)
      /\ Range(middle) \subseteq Range(layers)
      /\ ~on \/ plugged => Range(middle) = Range(layers)
  BY <1>3, <1>4, Scripts0, Scripts1 DEF AreScripts
<1>. HIDE DEF first, last, middle
<1>6. /\ IsScript(first \o middle)
      /\ Range(first \o middle) = Range(first) \cup Range(middle)
  BY <1>5, Joined DEF AreScripts
<1>7. /\ IsScript((first \o middle) \o last)
      /\ Range((first \o middle) \o last) = Range(first \o middle) \cup Range(last)
  BY <1>5, <1>6, Joined DEF AreScripts
<1>8. AreScripts((first \o middle) \o last)
  BY <1>5, <1>6, <1>7 DEF AreScripts
<1>9. /\ Range(scripts) \subseteq Range(layers) \cup {plug}
      /\ ~on \/ plugged => Range(scripts) = Range(layers) \cup {plug}
  BY <1>1, <1>5, <1>6, <1>7
<1>. QED
  BY <1>1, <1>8, <1>9, <1>2 DEF plug, layers, scripts

LEMMA Enabling ==
    ASSUME NEW par, IsInterface(par), NEW refused
    PROVE  LET scripts == wan_mode_intf_enable(par, par, TRUE, refused).scripts
           IN  /\ AreScripts(scripts)
               /\ Meant(scripts) \subseteq Switched(par, par)
<1>. DEFINE scripts == wan_mode_intf_enable(par, par, TRUE, refused).scripts
            layers == mode_layers(par, par, TRUE, refused)
            full == Full(par, par, refused)
<1>1. AreScripts(scripts) /\ Range(scripts) \subseteq Range(layers) \cup {Plug(par, TRUE)}
  BY Turn
<1>2. Alike(full, Base(par))
  BY FullIs, AlikeIs, AlikeJoins DEF Base
<1>3. ASSUME NEW v \in {4, 6}, NEW mode
      PROVE  \A p \in AtsOf(controllers(mode, v, full, TRUE)) : p \in EnabledBy(par, v, mode)
  BY <1>2, ModeUndone DEF EnabledBy
<1>4. Bridged(par) => Ats(bridge_mode_ctrl_action(full, TRUE)) = BridgeAlone(par)
  BY <1>2, BridgeUndone DEF BridgeAlone, Undone
<1>. HIDE DEF scripts, full
<1>5. Range(layers) =
        IF ~NoIpMode(par)
        THEN Range(controllers(par.IPv4Mode, 4, full, TRUE))
               \cup Range(controllers(par.IPv6Mode, 6, full, TRUE))
        ELSE IF Bridged(par) THEN {bridge_mode_ctrl_action(full, TRUE)} ELSE {}
  BY ModeLayers DEF full
<1>. HIDE DEF layers
<1>6. \A s \in Range(layers) : Ats(s) \subseteq Switched(par, par)
  <2>1. CASE NoIpMode(par)
    BY <1>4, <1>5, <2>1 DEF Switched
  <2>2. CASE ~NoIpMode(par)
    <3>1. /\ EnabledBy(par, 4, par.IPv4Mode) \subseteq Switched(par, par)
          /\ EnabledBy(par, 6, par.IPv6Mode) \subseteq Switched(par, par)
      BY DEF Switched
    <3>2. ASSUME NEW s \in Range(layers)
          PROVE  \/ Ats(s) \subseteq AtsOf(controllers(par.IPv4Mode, 4, full, TRUE))
                 \/ Ats(s) \subseteq AtsOf(controllers(par.IPv6Mode, 6, full, TRUE))
      BY <1>5, <2>2 DEF AtsOf
    <3>. QED
      BY <1>3, <3>1, <3>2
  <2>. QED
    BY <2>1, <2>2
<1>7. Ats(Plug(par, TRUE)) \subseteq Switched(par, par)
  BY DEF Switched
<1>8. Meant(scripts) \subseteq Switched(par, par)
  <2>1. Meant(scripts) = AtsOf(scripts)
    BY ScriptSets
  <2>2. \A s \in Range(scripts) : Ats(s) \subseteq Switched(par, par)
    BY <1>1, <1>6, <1>7
  <2>. QED
    BY <2>1, <2>2 DEF AtsOf
<1>. QED
  BY <1>1, <1>8 DEF scripts

LEMMA Disabling ==
    ASSUME NEW par, IsInterface(par), NEW modes, NEW refused
    PROVE  LET scripts == wan_mode_intf_enable(par, modes, FALSE, refused).scripts
           IN  /\ AreScripts(scripts)
               /\ \A w \in WritesIn(scripts) : Released(w)
               /\ \A p \in Switched(par, modes) : Setting(p) \/ p \in Meant(scripts)
<1>. DEFINE scripts == wan_mode_intf_enable(par, modes, FALSE, refused).scripts
            layers == mode_layers(par, modes, FALSE, refused)
            full == Full(par, modes, refused)
            off(v, mode) == controllers(mode, v, full, FALSE)
<1>1. AreScripts(scripts) /\ Range(scripts) = Range(layers) \cup {Plug(par, FALSE)}
  BY Turn
<1>2. Alike(Base(par), full)
  BY FullIs, AlikeIs, AlikeJoins DEF Base
<1>3. ASSUME NEW v \in {4, 6}, NEW mode
      PROVE  /\ \A s \in Range(off(v, mode)) : IsOff(s)
             /\ \A p \in EnabledBy(par, v, mode) : Setting(p) \/ p \in AtsOf(off(v, mode))
  BY <1>2, ModeUndone DEF EnabledBy
<1>4. /\ IsOff(bridge_mode_ctrl_action(full, FALSE))
      /\ \A p \in BridgeAlone(par) :
            Setting(p) \/ p \in Ats(bridge_mode_ctrl_action(full, FALSE))
      /\ ~Bridged(par) => BridgeAlone(par) = {}
  BY <1>2, BridgeUndone DEF BridgeAlone, Undone
<1>5. /\ IsOff(Plug(par, FALSE))
      /\ \A p \in Ats(Plug(par, TRUE)) : Setting(p) \/ p \in Ats(Plug(par, FALSE))
  <2>1. Alike(par, par)
    BY DEF Alike
  <2>. QED
    BY <2>1, PlugUndone DEF Undone
<1>6. Range(layers) =
        IF ~NoIpMode(modes)
        THEN Range(off(4, modes.IPv4Mode)) \cup Range(off(6, modes.IPv6Mode))
        ELSE IF Bridged(par) THEN {bridge_mode_ctrl_action(full, FALSE)} ELSE {}
  BY ModeLayers
<1>7. NoIpMode(modes) => /\ EnabledBy(par, 4, modes.IPv4Mode) = {}
                         /\ EnabledBy(par, 6, modes.IPv6Mode) = {}
  BY ControllersShape, Ats0 DEF EnabledBy, NoIpMode, AtsOf
<1>. HIDE DEF scripts, layers, full, off
<1>8. \A s \in Range(scripts) : IsOff(s)
  BY <1>1, <1>3, <1>4, <1>5, <1>6
<1>9. \A w \in WritesIn(scripts) : Released(w)
  BY <1>8, ScriptSets DEF IsOff
<1>10. \A p \in Switched(par, modes) : Setting(p) \/ p \in AtsOf(scripts)
  <2>1. Ats(Plug(par, FALSE)) \subseteq AtsOf(scripts) /\ AtsOf(layers) \subseteq AtsOf(scripts)
    BY <1>1 DEF AtsOf
  <2>2. ~NoIpMode(modes) => /\ AtsOf(off(4, modes.IPv4Mode)) \subseteq AtsOf(layers)
                            /\ AtsOf(off(6, modes.IPv6Mode)) \subseteq AtsOf(layers)
    BY <1>6 DEF AtsOf
  <2>3. NoIpMode(modes) /\ Bridged(par) =>
           Ats(bridge_mode_ctrl_action(full, FALSE)) \subseteq AtsOf(layers)
    BY <1>6 DEF AtsOf
  <2>. QED
    BY <1>3, <1>4, <1>5, <1>7, <2>1, <2>2, <2>3 DEF Switched
<1>11. Meant(scripts) = AtsOf(scripts)
  BY ScriptSets
<1>. QED
  BY <1>1, <1>9, <1>10, <1>11 DEF scripts

(***************************************************************************)
(* Changes of the IP modes                                                 *)
(***************************************************************************)
LEMMA EnabledAlike ==
    ASSUME NEW par, IsInterface(par), NEW other, IsInterface(other), Alike(par, other)
    PROVE  /\ \A v \in {4, 6} : \A mode : \A p \in EnabledBy(par, v, mode) :
                  p \in EnabledBy(other, v, mode)
           /\ \A p \in BridgeAlone(par) : p \in BridgeAlone(other)
           /\ \A p \in Ats(Plug(par, TRUE)) : p \in Ats(Plug(other, TRUE))
<1>1. Alike(Base(par), Base(other))
  <2>1. Alike(Base(par), par) /\ Alike(Base(other), other)
    BY FullIs DEF Base
  <2>2. Alike(Base(par), other)
    BY <2>1, AlikeJoins
  <2>3. Alike(other, Base(other))
    BY <2>1, AlikeIs
  <2>. QED
    BY <2>2, <2>3, AlikeJoins
<1>2. \A v \in {4, 6} : \A mode : \A p \in EnabledBy(par, v, mode) :
          p \in EnabledBy(other, v, mode)
  BY <1>1, ModeUndone DEF EnabledBy
<1>3. \A p \in BridgeAlone(par) : p \in BridgeAlone(other)
  BY <1>1, BridgeUndone, AlikeIs DEF BridgeAlone, Undone
<1>4. Ats(Plug(par, TRUE)) = Ats(Plug(other, TRUE))
  BY AlikeIs
<1>. QED
  BY <1>2, <1>3, <1>4

\* With an IP mode, the layers switch on what the bridge alone does.
LEMMA BridgeInMode ==
    ASSUME NEW par, NEW mode, mode \notin {"none", "link", "dslite"}
    PROVE  \A p \in BridgeAlone(par) : p \in EnabledBy(par, 4, mode)
<1>. DEFINE base == Base(par)
            ip == get_ip_path(base, 4)
            layers == controllers(mode, 4, base, TRUE)
            set == << Set(ip, "LowerLayers", base.LowerLayer), Enable(ip, "on") >>
            low == << Set(ip, "LowerLayers", Lower(base, 4)) >>
            addr == ipv4_addr_toggle(ip, mode, TRUE)
            enable == << Set(ip, "IPv4Enable", "on") >>
<1>1. SUFFICES ASSUME ip # None, NEW p \in BridgeAlone(par)
               PROVE  p \in AtsOf(layers)
  BY Ats0 DEF BridgeAlone, bridge_mode_ctrl_action, Given, EnabledBy
<1>2. p \in {<<ip, "LowerLayers">>, <<ip, "Enable">>} \cup Ats(Listed(ip, "on"))
  <2>1. p \in Ats(set \o Listed(ip, "on"))
    BY <1>1 DEF BridgeAlone, bridge_mode_ctrl_action, Given
  <2>2. IsScript(set) /\ Ats(set) = {<<ip, "LowerLayers">>, <<ip, "Enable">>}
    BY Ats2, SetIs DEF Enable
  <2>3. IsScript(Listed(ip, "on"))
    BY <1>1, ListedIs
  <2>. HIDE DEF set
  <2>. QED
    BY <2>1, <2>2, <2>3, AtsJoined
<1>3. /\ layers[2] = (low \o addr) \o enable
      /\ layers[3] = << Enable(ip, "on") >>
      /\ layers[5] = logical_layer(mode, 4, base, TRUE)
  BY DEF controllers, ip_layer, ip_enable, ipv4_layer
<1>4. /\ <<ip, "LowerLayers">> \in Ats(layers[2])
      /\ <<ip, "Enable">> \in Ats(layers[3])
  <2>1. /\ IsScript(low) /\ Ats(low) = {<<ip, "LowerLayers">>}
        /\ IsScript(enable) /\ IsScript(addr)
    BY Ats1, Ats2, SetIs DEF ipv4_addr_toggle
  <2>2. Ats(<< Enable(ip, "on") >>) = {<<ip, "Enable">>}
    BY Ats1, SetIs DEF Enable
  <2>. HIDE DEF low, addr, enable, layers
  <2>3. IsScript(low \o addr) /\ Ats(low \o addr) = Ats(low) \cup Ats(addr)
    BY <2>1, AtsJoined
  <2>4. Ats((low \o addr) \o enable) = Ats(low \o addr) \cup Ats(enable)
    BY <2>1, <2>3, AtsJoined
  <2>. QED
    BY <1>3, <2>1, <2>2, <2>3, <2>4
<1>5. \A x \in Ats(Listed(ip, "on")) : x \in Ats(layers[5])
  <2>. DEFINE route == base.DefaultRouteReference
              origin == << Set(route, "Origin", IF ip = None THEN None
                                                ELSE get_routing_v4_origin(mode)) >>
              on == << Enable(route, "on") >>
              default == IF route = None THEN << >> ELSE origin \o on
  <2>1. logical_layer(mode, 4, base, TRUE) = default \o Listed(ip, "on")
    BY DEF logical_layer, routing_default_route_set_origin
  <2>2. IsScript(origin) /\ IsScript(on)
    BY Ats1
  <2>. HIDE DEF origin, on
  <2>3. IsScript(default)
    BY <2>2, Ats0, AtsJoined
  <2>. HIDE DEF default
  <2>4. IsScript(Listed(ip, "on"))
    BY <1>1, ListedIs
  <2>. HIDE DEF ip, layers
  <2>5. Ats(default \o Listed(ip, "on")) = Ats(default) \cup Ats(Listed(ip, "on"))
    BY <2>3, <2>4, AtsJoined
  <2>. QED
    BY <1>3, <2>1, <2>5
<1>6. \A i \in {2, 3, 5} : Ats(layers[i]) \subseteq AtsOf(layers)
  <2>1. IsScript(layers) /\ Len(layers) = 5
    BY ControllersShape DEF IsScript
  <2>. HIDE DEF layers
  <2>2. DOMAIN layers = 1 .. 5
    BY <2>1, ScriptShape
  <2>. QED
    BY <2>2 DEF AtsOf, Range
<1>. HIDE DEF layers
<1>. QED
  BY <1>2, <1>4, <1>5, <1>6

(***************************************************************************)
(* The queue of change events                                              *)
(***************************************************************************)
Names == {"IPv4Mode", "IPv6Mode"}
Where == {"no", "alone", "shared"}
ModeEvents == [of : Names, from : IPv4Modes \cup IPv6Modes]
ListEvents == [of : {"WANMode"}, from : Where, to : Where]
QueueType == events \in Seq(ModeEvents \cup ListEvents) /\ Len(events) <= MaxEvents

Version(event) == IF event.of = "IPv4Mode" THEN 4 ELSE 6

\* What the modes of the queued changes switch on.  A bridge without an IP mode
\* is left over from a change of IPv6Mode as long as IPv4Mode is none.
Leftover(par, event) ==
    IF event.of = "WANMode" THEN {}
    ELSE EnabledBy(par, Version(event), event.from)
           \cup (IF event.of = "IPv6Mode" /\ event.from = "none" /\ par.IPv4Mode = "none"
                 THEN BridgeAlone(par) ELSE {})

Queued(par, queue) == UNION {Leftover(par, queue[i]) : i \in DOMAIN queue}

\* WANMode as of the last event that was handled.
Shown(queue) ==
    IF queue # << >> /\ queue[1].of = "WANMode" THEN queue[1].from ELSE listed

\* At most one event of WANMode is queued, at the head, and it is up to date.
QueueInv ==
    \A i \in DOMAIN events :
        events[i].of = "WANMode" =>
            i = 1 /\ events[i].to = listed /\ events[i].from # listed

StatusInv == (status = "Disabled") <=> (Shown(events) = "no")

\* What is on belongs to the modes of the interface or to those of a queued
\* change that will be handled.
OnInv ==
    On(setup) \subseteq
        IF status = "Disabled" THEN {}
        ELSE Switched(intf, intf) \cup (IF Ignored THEN {} ELSE Queued(intf, events))

StateType ==
    /\ intf \in Interfaces
    /\ OperationMode \in {"Manual", "Automatic"}
    /\ listed \in Where
    /\ status \in {"Enabled", "Disabled", "Error"}
    /\ DOMAIN setup.value = Params
    /\ setup.unsure \subseteq Params
    /\ QueueType

\* A mode that leaves the IP interface alone is no mode of a bridged interface.
\* Otherwise a change of none and none to such a mode and to another IPv6 mode,
\* both before their events are handled, is one that no event remembers: the
\* bridge stays below the IP interface.
BridgedModes ==
    \A par \in Interfaces : Bridged(par) => par.IPv4Mode \notin {"link", "dslite"}

LeftInv == StateType /\ QueueInv /\ StatusInv /\ OnInv

LEMMA QueueShape ==
    ASSUME QueueType
    PROVE  /\ Len(events) \in Nat
           /\ DOMAIN events = 1 .. Len(events)
           /\ \A i \in DOMAIN events : events[i] \in ModeEvents \cup ListEvents
           /\ events # << >> =>
                 /\ Len(events) # 0
                 /\ 1 \in DOMAIN events
                 /\ Head(events) = events[1]
                 /\ Tail(events) \in Seq(ModeEvents \cup ListEvents)
                 /\ Len(Tail(events)) = Len(events) - 1
                 /\ \A i \in DOMAIN Tail(events) :
                       Tail(events)[i] = events[i + 1] /\ i + 1 \in DOMAIN events
<1>. DEFINE S == ModeEvents \cup ListEvents
<1>1. events \in Seq(S)
  BY DEF QueueType
<1>. HIDE DEF S
<1>2. /\ Len(events) \in Nat
      /\ DOMAIN events = 1 .. Len(events)
      /\ \A i \in DOMAIN events : events[i] \in S
  BY <1>1, LenProperties, ElementOfSeq
<1>3. ASSUME events # << >>
      PROVE  /\ Len(events) # 0
             /\ 1 \in DOMAIN events
             /\ Head(events) = events[1]
             /\ Tail(events) \in Seq(S)
             /\ Len(Tail(events)) = Len(events) - 1
             /\ \A i \in DOMAIN Tail(events) :
                   Tail(events)[i] = events[i + 1] /\ i + 1 \in DOMAIN events
  <2>1. Len(events) # 0
    BY <1>1, <1>3, EmptySeq
  <2>2. Tail(events) \in Seq(S) /\ Len(Tail(events)) = Len(events) - 1
        /\ \A i \in 1 .. Len(Tail(events)) : Tail(events)[i] = events[i + 1]
    BY <1>1, <1>3, HeadTailProperties
  <2>3. DOMAIN Tail(events) = 1 .. Len(Tail(events))
    BY <2>2, LenProperties
  <2>. QED
    BY <1>2, <2>1, <2>2, <2>3
<1>. QED
  BY <1>2, <1>3 DEF S

LEMMA AppendShape ==
    ASSUME NEW S, NEW queue \in Seq(S), NEW event \in S
    PROVE  /\ Append(queue, event) \in Seq(S)
           /\ Len(Append(queue, event)) = Len(queue) + 1
           /\ DOMAIN Append(queue, event) = 1 .. (Len(queue) + 1)
           /\ \A i \in DOMAIN queue : /\ i \in DOMAIN Append(queue, event)
                                      /\ Append(queue, event)[i] = queue[i]
           /\ Append(queue, event)[Len(queue) + 1] = event
           /\ \A i \in DOMAIN Append(queue, event) :
                 i \in DOMAIN queue \/ i = Len(queue) + 1
<1>1. /\ Append(queue, event) \in Seq(S)
      /\ Len(Append(queue, event)) = Len(queue) + 1
      /\ \A i \in 1 .. Len(queue) : Append(queue, event)[i] = queue[i]
      /\ Append(queue, event)[Len(queue) + 1] = event
  BY AppendProperties
<1>2. /\ DOMAIN Append(queue, event) = 1 .. (Len(queue) + 1)
      /\ DOMAIN queue = 1 .. Len(queue) /\ Len(queue) \in Nat
  BY <1>1, LenProperties
<1>. QED
  BY <1>1, <1>2

LEMMA WrittenType ==
    ASSUME NEW s, NEW scripts, NEW refused, DOMAIN s.value = Params
    PROVE  /\ DOMAIN Written(s, scripts, refused).value = Params
           /\ Written(s, scripts, refused).unsure \subseteq Params
BY DEF Written

LEMMA StateInit == Init => StateType
<1>1. << >> \in Seq(ModeEvents \cup ListEvents) /\ Len(<< >>) = 0
  BY EmptySeq
<1>. QED
  BY <1>1, MaxEventsAssumption DEF Init, StateType, QueueType, AllOff, Where

\* What a change of an IP mode does to the interface and to the queue.
LEMMA ModeChange ==
    ASSUME StateType, NEW version \in {4, 6}, NEW mode, set_intf_ip_mode(version, mode)
    PROVE  LET name == IF version = 4 THEN "IPv4Mode" ELSE "IPv6Mode"
               event == [of |-> name, from |-> intf[name]]
           IN  /\ event \in ModeEvents
               /\ events' = Append(events, event)
               /\ QueueType'
               /\ intf' \in Interfaces
               /\ IsInterface(intf)
               /\ IsInterface(intf')
               /\ Alike(intf', intf)
               /\ version = 4 => intf'.IPv6Mode = intf.IPv6Mode /\ intf'.IPv4Mode = mode
               /\ version = 6 => intf'.IPv4Mode = intf.IPv4Mode /\ intf'.IPv6Mode = mode
<1>. DEFINE name == IF version = 4 THEN "IPv4Mode" ELSE "IPv6Mode"
            event == [of |-> name, from |-> intf[name]]
<1>1. /\ events' = Append(events, event)
      /\ Len(events) < MaxEvents
      /\ intf' = [intf EXCEPT ![name] = mode]
      /\ intf' \in Interfaces
  BY DEF set_intf_ip_mode
<1>2. IsInterface(intf) /\ IsInterface(intf')
  BY <1>1, InterfacesAssumption DEF StateType
<1>3. event \in ModeEvents
  BY <1>2 DEF IsInterface, ModeEvents, Names
<1>4. QueueType'
  <2>1. events' \in Seq(ModeEvents \cup ListEvents) /\ Len(events') = Len(events) + 1
    BY <1>1, <1>3, AppendProperties DEF StateType, QueueType
  <2>. QED
    BY <1>1, <2>1, MaxEventsAssumption, LenProperties DEF StateType, QueueType
<1>5. DOMAIN intf = Parameters
  BY <1>2 DEF IsInterface
<1>6. /\ \A x \in Parameters \ {name} : intf'[x] = intf[x]
      /\ name \in Parameters
      /\ intf'[name] = mode
  BY <1>1, <1>5 DEF Parameters
<1>7. Alike(intf', intf)
  BY <1>6 DEF Alike, Parameters
<1>8. /\ version = 4 => intf'.IPv6Mode = intf.IPv6Mode /\ intf'.IPv4Mode = mode
      /\ version = 6 => intf'.IPv4Mode = intf.IPv4Mode /\ intf'.IPv6Mode = mode
  BY <1>6 DEF Parameters
<1>. QED
  BY <1>1, <1>2, <1>3, <1>4, <1>7, <1>8

LEMMA StateStep == StateType /\ [Next]_vars => StateType'
<1>. SUFFICES ASSUME StateType, [Next]_vars
              PROVE  StateType'
  OBVIOUS
<1>1. ASSUME NEW version \in {4, 6}, NEW mode, set_intf_ip_mode(version, mode)
      PROVE  StateType'
  BY <1>1, ModeChange DEF StateType, set_intf_ip_mode
<1>2. ASSUME NEW where \in Where, _setWANMode(where)
      PROVE  StateType'
  <2>1. [of |-> "WANMode", from |-> listed, to |-> where] \in ListEvents
    BY <1>2 DEF StateType, ListEvents
  <2>2. QueueType'
    <3>1. /\ events' \in Seq(ModeEvents \cup ListEvents)
          /\ Len(events') = Len(events) + 1
      BY <1>2, <2>1, AppendProperties DEF StateType, QueueType, _setWANMode
    <3>. QED
      BY <1>2, <3>1, MaxEventsAssumption, LenProperties
        DEF StateType, QueueType, _setWANMode
  <2>. QED
    BY <1>2, <2>2 DEF StateType, _setWANMode
<1>3. ASSUME NEW mode \in {"Manual", "Automatic"}, WriteOperationMode(mode)
      PROVE  StateType'
  BY <1>3 DEF StateType, QueueType, WriteOperationMode
<1>4. ASSUME NEW where \in Where, autosensing_set_wan_mode(where)
      PROVE  StateType'
  BY <1>4, WrittenType
    DEF StateType, QueueType, autosensing_set_wan_mode, wan_mode_set, wan_mode_enable
<1>5. ASSUME HandleEvent
      PROVE  StateType'
  <2>1. QueueType'
    <3>1. events # << >> /\ events' = Tail(events)
      BY <1>5 DEF HandleEvent
    <3>2. /\ Tail(events) \in Seq(ModeEvents \cup ListEvents)
          /\ Len(Tail(events)) = Len(events) - 1
          /\ Len(events) \in Nat /\ Len(events) <= MaxEvents
      BY <3>1, QueueShape DEF StateType, QueueType
    <3>. QED
      BY <3>1, <3>2, MaxEventsAssumption DEF QueueType
  <2>2. PICK refused :
          \/ wan_mode_set(Head(events).from, Head(events).to, refused)
          \/ ip_mode_toggled(Head(events), refused)
    BY <1>5 DEF HandleEvent
  <2>3. /\ DOMAIN setup'.value = Params
        /\ setup'.unsure \subseteq Params
        /\ status' \in {"Enabled", "Disabled", "Error"}
    <3>1. CASE wan_mode_set(Head(events).from, Head(events).to, refused)
      BY <3>1, WrittenType DEF StateType, wan_mode_set, wan_mode_enable
    <3>2. CASE ip_mode_toggled(Head(events), refused)
      <4>1. CASE UNCHANGED <<setup, status>>
        BY <4>1 DEF StateType
      <4>2. ASSUME NEW disable, NEW enable, Toggled(disable, enable, refused)
            PROVE  /\ DOMAIN setup'.value = Params
                   /\ setup'.unsure \subseteq Params
                   /\ status' \in {"Enabled", "Disabled", "Error"}
        <5>. DEFINE disabled == Written(setup, disable.scripts, refused)
        <5>1. DOMAIN disabled.value = Params /\ disabled.unsure \subseteq Params
          BY WrittenType DEF StateType
        <5>2. /\ setup' = IF disable.ok THEN Written(disabled, enable.scripts, refused)
                                        ELSE disabled
              /\ status' = IF disable.ok /\ enable.ok THEN status ELSE "Error"
          BY <4>2 DEF Toggled
        <5>. HIDE DEF disabled
        <5>. QED
          BY <5>1, <5>2, WrittenType DEF StateType
      <4>. QED
        BY <3>2, <4>1, <4>2 DEF ip_mode_toggled
    <3>. QED
      BY <2>2, <3>1, <3>2
  <2>. QED
    BY <1>5, <2>1, <2>3 DEF StateType, HandleEvent
<1>6. CASE UNCHANGED vars
  BY <1>6 DEF vars, StateType, QueueType
<1>. QED
  BY <1>1, <1>2, <1>3, <1>4, <1>5, <1>6 DEF Next, Where

LEMMA Off ==
    ASSUME StateType, NEW s, DOMAIN s.value = Params, NEW modes, NEW refused
    PROVE  LET scripts == wan_mode_intf_enable(intf, modes, FALSE, refused).scripts
           IN  On(Written(s, scripts, refused)) \subseteq On(s) \ Switched(intf, modes)
<1>. DEFINE scripts == wan_mode_intf_enable(intf, modes, FALSE, refused).scripts
<1>1. /\ AreScripts(scripts)
      /\ \A w \in WritesIn(scripts) : Released(w)
      /\ \A p \in Switched(intf, modes) : Setting(p) \/ p \in Meant(scripts)
  BY Disabling, InterfacesAssumption DEF StateType
<1>2. \A p \in Params : ~Setting(p)
  BY DEF Params
<1>. HIDE DEF scripts
<1>3. On(Written(s, scripts, refused)) \subseteq On(s) \ Meant(scripts)
  BY <1>1, <1>2, SwitchingOff DEF Released
<1>4. On(s) \subseteq Params
  BY DEF On
<1>5. On(Written(s, scripts, refused)) \subseteq On(s) \ Switched(intf, modes)
  BY <1>1, <1>2, <1>3, <1>4
<1>. QED
  BY <1>5 DEF scripts

LEMMA SwitchedOn ==
    ASSUME StateType, NEW s, NEW refused
    PROVE  LET scripts == wan_mode_intf_enable(intf, intf, TRUE, refused).scripts
           IN  On(Written(s, scripts, refused)) \subseteq On(s) \cup Switched(intf, intf)
<1>. DEFINE scripts == wan_mode_intf_enable(intf, intf, TRUE, refused).scripts
<1>1. AreScripts(scripts) /\ Meant(scripts) \subseteq Switched(intf, intf)
  BY Enabling, InterfacesAssumption DEF StateType
<1>. HIDE DEF scripts
<1>2. On(Written(s, scripts, refused)) \subseteq On(s) \cup Meant(scripts)
  BY <1>1, SwitchingOn
<1>3. On(Written(s, scripts, refused)) \subseteq On(s) \cup Switched(intf, intf)
  BY <1>1, <1>2
<1>. QED
  BY <1>3 DEF scripts

LEMMA EmptyQueue ==
    ASSUME StateType, Disturbances = {}, MaySwitch
    PROVE  events = << >> /\ \A par : Queued(par, events) = {}
<1>1. DOMAIN events = {}
  BY DEF MaySwitch
<1>2. events = << >>
  BY <1>1, QueueShape DEF StateType
<1>. QED
  BY <1>1, <1>2 DEF Queued

\* The queue after its head was handled.
LEMMA Handled ==
    ASSUME QueueType, QueueInv, events # << >>
    PROVE  /\ \A i \in DOMAIN Tail(events) : Tail(events)[i].of # "WANMode"
           /\ Shown(Tail(events)) = listed
           /\ \A par : Queued(par, events)
                         \subseteq Leftover(par, events[1]) \cup Queued(par, Tail(events))
<1>1. /\ \A i \in DOMAIN Tail(events) : Tail(events)[i] = events[i + 1] /\ i + 1 \in DOMAIN events
      /\ DOMAIN Tail(events) = 1 .. Len(Tail(events))
      /\ Len(Tail(events)) = Len(events) - 1
      /\ DOMAIN events = 1 .. Len(events)
      /\ Len(events) \in Nat
      /\ Tail(events) # << >> => Len(Tail(events)) # 0
  <2>1. Tail(events) \in Seq(ModeEvents \cup ListEvents)
    BY QueueShape
  <2>2. Tail(events) # << >> => Len(Tail(events)) # 0
    BY <2>1, EmptySeq
  <2>. QED
    BY <2>1, <2>2, QueueShape, LenProperties
<1>2. \A i \in DOMAIN Tail(events) : Tail(events)[i].of # "WANMode"
  BY <1>1 DEF QueueInv
<1>3. Shown(Tail(events)) = listed
  BY <1>1, <1>2 DEF Shown
<1>4. ASSUME NEW par
      PROVE  Queued(par, events)
               \subseteq Leftover(par, events[1]) \cup Queued(par, Tail(events))
  <2>1. ASSUME NEW i \in DOMAIN events, i # 1
        PROVE  /\ i - 1 \in DOMAIN Tail(events)
               /\ Tail(events)[i - 1] = events[i]
    <3>1. i - 1 \in DOMAIN Tail(events) /\ (i - 1) + 1 = i
      BY <1>1, <2>1
    <3>. QED
      BY <1>1, <3>1
  <2>2. ASSUME NEW i \in DOMAIN events, NEW p \in Leftover(par, events[i])
        PROVE  p \in Leftover(par, events[1]) \cup Queued(par, Tail(events))
    BY <2>1, <2>2 DEF Queued
  <2>. QED
    BY <2>2 DEF Queued
<1>. QED
  BY <1>2, <1>3, <1>4

LEMMA QueueStep ==
    ASSUME Disturbances = {}, StateType, QueueInv, StatusInv, [Next]_vars
    PROVE  QueueInv' /\ StatusInv'
<1>1. ASSUME NEW version \in {4, 6}, NEW mode, set_intf_ip_mode(version, mode)
      PROVE  QueueInv' /\ StatusInv'
  <2>1. PICK event \in ModeEvents : events' = Append(events, event)
    BY <1>1, ModeChange
  <2>2. UNCHANGED <<listed, status>>
    BY <1>1 DEF set_intf_ip_mode
  <2>3. event.of # "WANMode"
    BY DEF ModeEvents, Names
  <2>4. /\ Len(events) \in Nat
        /\ \A i \in DOMAIN events : i \in DOMAIN events' /\ events'[i] = events[i]
        /\ events'[Len(events) + 1] = event
        /\ \A i \in DOMAIN events' : i \in DOMAIN events \/ i = Len(events) + 1
    BY <2>1, QueueShape, AppendShape DEF StateType, QueueType
  <2>5. QueueInv'
    BY <2>2, <2>3, <2>4 DEF QueueInv
  <2>6. Shown(events)' = Shown(events)
    <3>1. CASE events = << >>
      <4>1. events'[1] = event
        BY <2>4, <3>1
      <4>. QED
        BY <3>1, <4>1, <2>2, <2>3 DEF Shown
    <3>2. CASE events # << >>
      <4>1. 1 \in DOMAIN events
        BY <3>2, QueueShape DEF StateType
      <4>2. events'[1] = events[1] /\ events' # << >>
        BY <2>1, <2>4, <4>1, AppendProperties DEF StateType, QueueType
      <4>. QED
        BY <3>2, <4>2, <2>2 DEF Shown
    <3>. QED
      BY <3>1, <3>2
  <2>. QED
    BY <2>2, <2>5, <2>6 DEF StatusInv
<1>2. ASSUME NEW where \in Where, _setWANMode(where)
      PROVE  QueueInv' /\ StatusInv'
  <2>. DEFINE event == [of |-> "WANMode", from |-> listed, to |-> where]
  <2>1. events = << >> /\ events' = << event >>
    BY <1>2, EmptyQueue DEF _setWANMode
  <2>2. listed' = where /\ where # listed /\ status' = status
    BY <1>2 DEF _setWANMode
  <2>3. DOMAIN events' = {1} /\ events'[1] = event /\ events' # << >>
    BY <2>1
  <2>4. QueueInv'
    BY <2>2, <2>3 DEF QueueInv
  <2>5. Shown(events)' = Shown(events)
    BY <2>1, <2>2, <2>3 DEF Shown
  <2>. QED
    BY <2>2, <2>4, <2>5 DEF StatusInv
<1>3. ASSUME NEW mode, WriteOperationMode(mode)
      PROVE  QueueInv' /\ StatusInv'
  BY <1>3 DEF WriteOperationMode, QueueInv, StatusInv, Shown
<1>4. ASSUME NEW where \in Where, autosensing_set_wan_mode(where)
      PROVE  QueueInv' /\ StatusInv'
  <2>1. events = << >> /\ events' = << >>
    BY <1>4, EmptyQueue DEF autosensing_set_wan_mode
  <2>2. PICK refused : wan_mode_set(listed, where, refused)
    BY <1>4 DEF autosensing_set_wan_mode
  <2>3. (status' = "Disabled") <=> (where = "no")
    BY <2>1, <2>2 DEF wan_mode_set, wan_mode_enable, StatusInv, Shown
  <2>. QED
    BY <1>4, <2>1, <2>3 DEF autosensing_set_wan_mode, QueueInv, StatusInv, Shown
<1>5. ASSUME HandleEvent
      PROVE  QueueInv' /\ StatusInv'
  <2>1. events # << >> /\ events' = Tail(events) /\ listed' = listed
    BY <1>5 DEF HandleEvent
  <2>2. /\ \A i \in DOMAIN events' : events'[i].of # "WANMode"
        /\ Shown(events)' = listed
    BY <2>1, Handled DEF StateType, Shown
  <2>3. Head(events) = events[1] /\ 1 \in DOMAIN events
    BY <2>1, QueueShape DEF StateType
  <2>4. PICK refused :
          \/ /\ events[1].of = "WANMode"
             /\ wan_mode_set(events[1].from, events[1].to, refused)
          \/ /\ events[1].of # "WANMode"
             /\ ip_mode_toggled(events[1], refused)
    BY <1>5, <2>3 DEF HandleEvent
  <2>5. (status' = "Disabled") <=> (listed = "no")
    <3>1. CASE /\ events[1].of = "WANMode"
               /\ wan_mode_set(events[1].from, events[1].to, refused)
      BY <2>1, <2>3, <3>1
        DEF wan_mode_set, wan_mode_enable, StatusInv, Shown, QueueInv
    <3>2. CASE /\ events[1].of # "WANMode"
               /\ ip_mode_toggled(events[1], refused)
      BY <2>1, <3>2 DEF ip_mode_toggled, Toggled, Ignored, StatusInv, Shown
    <3>. QED
      BY <2>4, <3>1, <3>2
  <2>. QED
    BY <2>2, <2>5 DEF QueueInv, StatusInv
<1>6. CASE UNCHANGED vars
  BY <1>6 DEF vars, QueueInv, StatusInv, Shown
<1>. QED
  BY <1>1, <1>2, <1>3, <1>4, <1>5, <1>6 DEF Next, Where

\* Whatever a change of an IP mode leaves behind is left to its event.
LEMMA OnAfterChange ==
    ASSUME Disturbances = {}, BridgedModes, StateType, OnInv,
           NEW version \in {4, 6}, NEW mode, set_intf_ip_mode(version, mode)
    PROVE  OnInv'
<1>. DEFINE name == IF version = 4 THEN "IPv4Mode" ELSE "IPv6Mode"
            event == [of |-> name, from |-> intf[name]]
            Kept(p) == p \in Switched(intf', intf') \cup Queued(intf', events')
<1>1. /\ event \in ModeEvents /\ events' = Append(events, event)
      /\ intf' \in Interfaces /\ IsInterface(intf) /\ IsInterface(intf')
      /\ Alike(intf, intf')
      /\ version = 4 => intf'.IPv6Mode = intf.IPv6Mode /\ intf'.IPv4Mode = mode
      /\ version = 6 => intf'.IPv4Mode = intf.IPv4Mode /\ intf'.IPv6Mode = mode
  <2>. HIDE DEF event
  <2>1. Alike(intf', intf)
    BY ModeChange
  <2>2. Alike(intf, intf')
    BY <2>1, AlikeIs
  <2>. QED
    BY <2>2, ModeChange DEF event
<1>2. /\ UNCHANGED <<OperationMode, listed, status, setup>>
      /\ mode # intf[name]
      /\ status = "Disabled" \/ ~Ignored
  BY DEF set_intf_ip_mode
<1>3. /\ Len(events) + 1 \in DOMAIN events' /\ events'[Len(events) + 1] = event
      /\ \A i \in DOMAIN events : i \in DOMAIN events' /\ events'[i] = events[i]
  BY <1>1, QueueShape, AppendShape DEF StateType, QueueType
<1>4. /\ \A v \in {4, 6} : \A m : \A p \in EnabledBy(intf, v, m) : p \in EnabledBy(intf', v, m)
      /\ \A p \in BridgeAlone(intf) : p \in BridgeAlone(intf')
      /\ \A p \in Ats(Plug(intf, TRUE)) : p \in Ats(Plug(intf', TRUE))
  BY <1>1, EnabledAlike
<1>5. CASE status = "Disabled"
  BY <1>2, <1>5 DEF OnInv
<1>6. CASE status # "Disabled"
  <2>1. ~Ignored'
    BY <1>2, <1>6 DEF Ignored
  <2>2. \A p \in Leftover(intf', event) : Kept(p)
    BY <1>3 DEF Queued
  <2>3. /\ event.of = name /\ event.of # "WANMode" /\ event.from = intf[name]
        /\ Version(event) = version
    BY DEF Version
  <2>4. \A p \in EnabledBy(intf', version, intf[name]) : Kept(p)
    BY <2>2, <2>3 DEF Leftover
  \* The bridge without an IP mode.
  <2>5. ASSUME NEW p \in BridgeAlone(intf), intf.IPv4Mode = "none", version = 4
        PROVE  Kept(p)
    <3>1. intf'.IPv4Mode \notin {"none", "link", "dslite"}
      <4>1. Bridged(intf)
        BY <2>5 DEF BridgeAlone
      <4>2. Bridged(intf')
        BY <4>1, <1>1, AlikeIs
      <4>. QED
        BY <4>2, <1>1, <1>2, <2>5 DEF BridgedModes
    <3>2. p \in EnabledBy(intf', 4, intf'.IPv4Mode)
      BY <1>4, <2>5, <3>1, BridgeInMode
    <3>. QED
      BY <3>2 DEF Switched
  <2>6. ASSUME NEW p \in Switched(intf, intf)
        PROVE  Kept(p)
    <3>1. CASE p \in Ats(Plug(intf, TRUE))
      BY <1>4, <3>1 DEF Switched
    <3>2. CASE p \in EnabledBy(intf, 4, intf.IPv4Mode)
      <4>1. p \in EnabledBy(intf', 4, intf.IPv4Mode)
        BY <1>4, <3>2
      <4>2. CASE version = 4
        BY <4>1, <4>2, <2>4
      <4>3. CASE version = 6
        BY <4>1, <4>3, <1>1 DEF Switched
      <4>. QED
        BY <4>2, <4>3
    <3>3. CASE p \in EnabledBy(intf, 6, intf.IPv6Mode)
      <4>1. p \in EnabledBy(intf', 6, intf.IPv6Mode)
        BY <1>4, <3>3
      <4>2. CASE version = 6
        BY <4>1, <4>2, <2>4
      <4>3. CASE version = 4
        BY <4>1, <4>3, <1>1 DEF Switched
      <4>. QED
        BY <4>2, <4>3
    <3>4. CASE p \in BridgeAlone(intf) /\ NoIpMode(intf)
      <4>1. CASE version = 4
        BY <2>5, <3>4, <4>1 DEF NoIpMode
      <4>2. CASE version = 6
        <5>1. p \in BridgeAlone(intf') /\ intf'.IPv4Mode = "none" /\ intf.IPv6Mode = "none"
          BY <1>1, <1>4, <3>4, <4>2 DEF NoIpMode
        <5>2. p \in Leftover(intf', event)
          BY <2>3, <4>2, <5>1 DEF Leftover
        <5>. QED
          BY <2>2, <5>2
      <4>. QED
        BY <4>1, <4>2
    <3>. QED
      BY <2>6, <3>1, <3>2, <3>3, <3>4 DEF Switched
  <2>7. ASSUME NEW p \in Queued(intf, events)
        PROVE  Kept(p)
    <3>1. PICK i \in DOMAIN events : p \in Leftover(intf, events[i])
      BY <2>7 DEF Queued
    <3>2. \A x \in Leftover(intf', events[i]) : Kept(x)
      BY <1>3 DEF Queued
    <3>3. CASE /\ events[i].of # "WANMode"
               /\ p \in EnabledBy(intf, Version(events[i]), events[i].from)
      <4>1. p \in EnabledBy(intf', Version(events[i]), events[i].from)
        BY <1>4, <3>3 DEF Version
      <4>. QED
        BY <3>2, <3>3, <4>1 DEF Leftover
    <3>4. CASE /\ events[i].of = "IPv6Mode" /\ events[i].from = "none"
               /\ intf.IPv4Mode = "none"
               /\ p \in BridgeAlone(intf)
      <4>1. CASE version = 4
        BY <2>5, <3>4, <4>1
      <4>2. CASE version = 6
        <5>1. intf'.IPv4Mode = "none" /\ p \in BridgeAlone(intf')
          BY <1>1, <1>4, <3>4, <4>2
        <5>2. p \in Leftover(intf', events[i])
          BY <3>4, <5>1 DEF Leftover
        <5>. QED
          BY <3>2, <5>2
      <4>. QED
        BY <4>1, <4>2
    <3>. QED
      BY <3>1, <3>3, <3>4 DEF Leftover
  <2>8. On(setup) \subseteq Switched(intf, intf) \cup Queued(intf, events)
    BY <1>2, <1>6 DEF OnInv
  <2>9. \A p \in On(setup) : Kept(p)
    BY <2>6, <2>7, <2>8
  <2>. QED
    BY <1>2, <1>6, <2>1, <2>9 DEF OnInv
<1>. QED
  BY <1>5, <1>6

LEMMA LeftoverBefore ==
    ASSUME intf \in Interfaces, NEW event \in ModeEvents \cup ListEvents,
           event.of # "WANMode"
    PROVE  Leftover(intf, event) \subseteq Switched(intf, Before(event))
<1>1. event \in ModeEvents
  BY DEF ListEvents
<1>2. IsInterface(intf)
  BY InterfacesAssumption
<1>3. /\ event.of = "IPv4Mode" => Before(event).IPv4Mode = event.from
      /\ event.of = "IPv6Mode" => /\ Before(event).IPv6Mode = event.from
                                  /\ Before(event).IPv4Mode = intf.IPv4Mode
  BY <1>2 DEF Before, IsInterface, Parameters
<1>4. event.of = "IPv4Mode" \/ event.of = "IPv6Mode"
  BY <1>1 DEF ModeEvents, Names
<1>. QED
  BY <1>3, <1>4 DEF Leftover, Switched, NoIpMode, Version

LEMMA OnAfterEvent ==
    ASSUME StateType, QueueInv, StatusInv, OnInv, HandleEvent
    PROVE  OnInv'
<1>. DEFINE event == events[1]
<1>1. /\ events # << >> /\ events' = Tail(events)
      /\ UNCHANGED <<intf, OperationMode, listed>>
  BY DEF HandleEvent
<1>2. Head(events) = event /\ 1 \in DOMAIN events /\ event \in ModeEvents \cup ListEvents
  BY <1>1, QueueShape DEF StateType
<1>3. PICK refused :
        \/ event.of = "WANMode" /\ wan_mode_set(event.from, event.to, refused)
        \/ event.of # "WANMode" /\ ip_mode_toggled(event, refused)
  BY <1>2 DEF HandleEvent
<1>4. Queued(intf, events) \subseteq Leftover(intf, event) \cup Queued(intf', events')
  BY <1>1, Handled DEF StateType
<1>5. Ignored' = Ignored
  BY <1>1 DEF Ignored
<1>. HIDE DEF event
<1>6. CASE event.of = "WANMode" /\ wan_mode_set(event.from, event.to, refused)
  <2>1. event.to = listed /\ event.from = Shown(events)
    BY <1>1, <1>2, <1>6 DEF QueueInv, Shown, event
  <2>2. Leftover(intf, event) = {}
    BY <1>6 DEF Leftover
  <2>3. CASE UNCHANGED <<status, setup>>
    BY <1>1, <1>4, <1>5, <2>2, <2>3 DEF OnInv
  <2>4. CASE event.from = "no" /\ wan_mode_enable(TRUE, refused)
    <3>1. On(setup) = {}
      BY <2>1, <2>4 DEF OnInv, StatusInv
    <3>2. On(setup') \subseteq Switched(intf, intf)
      BY <2>4, <3>1, SwitchedOn DEF wan_mode_enable
    <3>3. status' # "Disabled"
      BY <2>4 DEF wan_mode_enable
    <3>. QED
      BY <1>1, <3>2, <3>3 DEF OnInv
  <2>5. CASE event.from # "no" /\ event.to = "no" /\ wan_mode_enable(FALSE, refused)
    <3>1. Ignored
      BY <2>1, <2>5 DEF Ignored
    <3>2. On(setup) \subseteq Switched(intf, intf)
      BY <3>1 DEF OnInv
    <3>3. On(setup') = {}
      BY <2>5, <3>2, Off DEF wan_mode_enable, StateType
    <3>. QED
      BY <3>3 DEF OnInv
  <2>. QED
    BY <1>6, <2>3, <2>4, <2>5 DEF wan_mode_set
<1>7. CASE event.of # "WANMode" /\ Ignored /\ UNCHANGED <<setup, status>>
  BY <1>1, <1>5, <1>7 DEF OnInv
<1>8. CASE /\ event.of # "WANMode"
           /\ ~Ignored
           /\ Toggled(wan_mode_intf_enable(intf, Before(event), FALSE, refused),
                      wan_mode_intf_enable(intf, intf, TRUE, refused), refused)
  <2>. DEFINE disabled == Written(setup,
                 wan_mode_intf_enable(intf, Before(event), FALSE, refused).scripts, refused)
  <2>1. status # "Disabled" /\ status' # "Disabled"
    BY <1>8 DEF Ignored, StatusInv, Shown, Toggled, event
  <2>2. On(disabled) \subseteq On(setup) \ Switched(intf, Before(event))
    BY Off DEF StateType
  <2>3. On(setup') \subseteq On(disabled) \cup Switched(intf, intf)
    <3>1. \/ setup' = disabled
          \/ setup' = Written(disabled,
                        wan_mode_intf_enable(intf, intf, TRUE, refused).scripts, refused)
      BY <1>8 DEF Toggled
    <3>. HIDE DEF disabled
    <3>. QED
      BY <3>1, SwitchedOn
  <2>4. On(setup) \subseteq Switched(intf, intf) \cup Queued(intf, events)
    BY <1>8, <2>1 DEF OnInv
  <2>5. Leftover(intf, event) \subseteq Switched(intf, Before(event))
    BY <1>2, <1>8, LeftoverBefore DEF StateType
  <2>. HIDE DEF disabled
  <2>6. On(setup') \subseteq Switched(intf, intf) \cup Queued(intf', events')
    BY <1>4, <2>2, <2>3, <2>4, <2>5
  <2>. QED
    BY <1>1, <1>5, <1>8, <2>1, <2>6 DEF OnInv
<1>. QED
  BY <1>3, <1>6, <1>7, <1>8 DEF ip_mode_toggled

LEMMA OnStep ==
    ASSUME Disturbances = {}, BridgedModes, LeftInv, [Next]_vars
    PROVE  OnInv'
<1>. USE DEF LeftInv
<1>1. ASSUME NEW version \in {4, 6}, NEW mode, set_intf_ip_mode(version, mode)
      PROVE  OnInv'
  BY <1>1, OnAfterChange
<1>2. ASSUME MaySwitch
      PROVE  On(setup) \subseteq IF status = "Disabled" THEN {} ELSE Switched(intf, intf)
  BY <1>2, EmptyQueue DEF OnInv
<1>3. ASSUME NEW where \in Where, _setWANMode(where)
      PROVE  OnInv'
  BY <1>2, <1>3 DEF OnInv, _setWANMode
<1>4. ASSUME NEW mode, WriteOperationMode(mode)
      PROVE  OnInv'
  BY <1>2, <1>4 DEF OnInv, WriteOperationMode
<1>5. ASSUME NEW where \in Where, autosensing_set_wan_mode(where)
      PROVE  OnInv'
  <2>1. MaySwitch /\ intf' = intf /\ events' = events
    BY <1>5 DEF autosensing_set_wan_mode
  <2>2. PICK refused : wan_mode_set(listed, where, refused)
    BY <1>5 DEF autosensing_set_wan_mode
  <2>3. Shown(events) = listed
    BY <2>1, EmptyQueue DEF Shown
  <2>4. CASE UNCHANGED <<status, setup>>
    BY <1>2, <2>1, <2>4 DEF OnInv
  <2>5. CASE listed = "no" /\ wan_mode_enable(TRUE, refused)
    <3>1. On(setup) = {}
      BY <2>3, <2>5 DEF OnInv, StatusInv
    <3>2. On(setup') \subseteq Switched(intf, intf) /\ status' # "Disabled"
      BY <2>5, <3>1, SwitchedOn DEF wan_mode_enable
    <3>. QED
      BY <2>1, <3>2 DEF OnInv
  <2>6. CASE wan_mode_enable(FALSE, refused)
    <3>1. On(setup') = {}
      BY <1>2, <2>1, <2>6, Off DEF wan_mode_enable, StateType
    <3>. QED
      BY <3>1 DEF OnInv
  <2>. QED
    BY <2>2, <2>4, <2>5, <2>6 DEF wan_mode_set
<1>6. ASSUME HandleEvent
      PROVE  OnInv'
  BY <1>6, OnAfterEvent
<1>7. CASE UNCHANGED vars
  BY <1>7 DEF vars, OnInv, Ignored
<1>. QED
  BY <1>1, <1>3, <1>4, <1>5, <1>6, <1>7 DEF Next, Where

LEMMA LeftInit == Init => LeftInv
<1>. SUFFICES ASSUME Init
              PROVE  LeftInv
  OBVIOUS
<1>1. StateType
  BY StateInit
<1>2. On(setup) = {}
  BY DEF Init, AllOff, On
<1>3. QueueInv /\ StatusInv
  BY DEF Init, QueueInv, StatusInv, Shown
<1>. QED
  BY <1>1, <1>2, <1>3 DEF LeftInv, OnInv

\* Disable undoes enable (NothingLeft): for all interfaces, queues and sequences
\* of changes and of refused writes, nothing that wan_mode_intf_enable has
\* switched on stays on once the mode is out of WANMode and the events of the IP
\* modes are handled.
THEOREM NothingStaysOn ==
    ASSUME Disturbances = {}, BridgedModes
    PROVE  Spec => []NothingLeft
<1>1. LeftInv /\ [Next]_vars => LeftInv'
  BY StateStep, QueueStep, OnStep DEF LeftInv
<1>2. LeftInv => NothingLeft
  <2>1. SUFFICES ASSUME LeftInv, Settled, listed = "no"
                 PROVE  \A p \in Params \ setup.unsure : setup.value[p] = "off"
    BY DEF NothingLeft
  <2>2. status = "Disabled"
    BY <2>1 DEF LeftInv, StatusInv, Shown, Settled
  <2>. QED
    BY <2>1, <2>2 DEF LeftInv, OnInv, On, StateType
<1>. QED
  BY LeftInit, <1>1, <1>2, PTL DEF Spec

(***************************************************************************)
(* Enabling when a write is refused and when none is: the scripts differ   *)
(* in the lower layer of the IP interface at most                          *)
(***************************************************************************)
Unrefused(par) == wan_mode_intf_enable(par, par, TRUE, None).scripts

LEMMA InUnrefused ==
    ASSUME NEW par \in Interfaces
    PROVE  /\ Plugged(par, None)
           /\ AreScripts(Unrefused(par))
           /\ Range(Unrefused(par))
                = Range(mode_layers(par, par, TRUE, None)) \cup {Plug(par, TRUE)}
           /\ \A w \in WritesIn(Unrefused(par)) :
                 w \in Writes /\ w.value \in Values /\ At(w) \in Written_to /\ At(w) # None
<1>1. IsInterface(par)
  BY InterfacesAssumption
<1>2. WritesIn(Unrefused(par)) \subseteq Writes
  <2>. DEFINE act(on) == wan_mode_intf_enable(par, par, on, None)
              of(on) == WritesIn(act(on).scripts)
  <2>1. WritesOf(par) = UNION {of(on) : on \in BOOLEAN}
    BY DEF WritesOf, WritesIn
  <2>2. WritesIn(Unrefused(par)) = of(TRUE)
    BY DEF Unrefused
  <2>. HIDE DEF of
  <2>. QED
    BY <2>1, <2>2 DEF Writes
<1>3. \A w \in WritesIn(Unrefused(par)) :
         w \in Writes /\ w.value \in Values /\ At(w) \in Written_to /\ At(w) # None
  BY <1>2, NoneAssumption DEF Values, Written_to
<1>4. Plug(par, TRUE) \in Range(Unrefused(par))
  <2>. DEFINE plug == Plug(par, TRUE)
              layers == IF ~(~Bridged(par) \/ Complete(plug, None)) THEN << >>
                        ELSE mode_layers(par, par, TRUE, None)
  <2>1. Unrefused(par) = (<< plug >> \o layers) \o << >>
    BY DEF Unrefused, wan_mode_intf_enable, WithPlug
  <2>2. IsScript(<< plug >>) /\ Range(<< plug >>) = {plug}
    BY Scripts1
  <2>3. IsScript(layers)
    BY <1>1, ModeLayers, Scripts0 DEF AreScripts
  <2>. HIDE DEF plug, layers
  <2>4. IsScript(<< plug >> \o layers) /\ plug \in Range(<< plug >> \o layers)
    BY <2>2, <2>3, Joined
  <2>. DEFINE all == << plug >> \o layers
  <2>5. plug \in Range(all \o << >>)
    <3>. HIDE DEF all
    <3>. QED
      BY <2>4, Joined, Scripts0 DEF all
  <2>. QED
    BY <2>1, <2>5 DEF plug
<1>5. Plugged(par, None)
  <2>1. SUFFICES ASSUME Bridged(par)
                 PROVE  Complete(Plug(par, TRUE), None)
    BY DEF Plugged
  <2>. DEFINE w == Set(par.BridgeReference, "Port", "on")
              plug == << w >>
  <2>2. Plug(par, TRUE) = plug
    BY <2>1 DEF Plug
  <2>3. w \in WritesIn(Unrefused(par))
    <3>1. w \in Range(plug) /\ plug \in Range(Unrefused(par))
      BY <1>4, <2>2, Scripts1
    <3>. HIDE DEF w, plug
    <3>. QED
      BY <3>1, ScriptSets
  <2>4. w.object = par.BridgeReference /\ w.value = "on" /\ At(w) # None
    BY <1>3, <2>3 DEF Set
  <2>5. component_set_params(w, None)
    BY <2>1, <2>4, NoneAssumption DEF component_set_params, Bridged
  <2>6. DOMAIN plug = {1} /\ plug[1] = w
    OBVIOUS
  <2>. HIDE DEF w, plug
  <2>7. Performed(plug, None) = {1}
    BY <2>5, <2>6 DEF Performed
  <2>. QED
    BY <2>2, <2>6, <2>7 DEF Complete
<1>. QED
  BY <1>1, <1>3, <1>5, Turn DEF Unrefused

\* The same layers, and the same writes of the IP interface but w instead of w_2.
SameBut(layers, layers_2, w, w_2) ==
    /\ \A i \in {1, 3, 4, 5} : layers[i] = layers_2[i]
    /\ \A u \in Range(layers[2]) :
          u \in Range(layers_2[2]) \/ (u = w /\ w_2 \in Range(layers_2[2]))

LEMMA SameLayers ==
    ASSUME NEW par, NEW other, Alike(par, other), NEW v \in {4, 6}, NEW mode,
           par.LowerLayer = other.LowerLayer,
           par.IPv4Mode = other.IPv4Mode, par.IPv6Mode = other.IPv6Mode
    PROVE  SameBut(controllers(mode, v, par, TRUE), controllers(mode, v, other, TRUE),
                   Set(get_ip_path(par, v), "LowerLayers", Lower(par, v)),
                   Set(get_ip_path(par, v), "LowerLayers", Lower(other, v)))
<1>1. ppp_lower_layer(v, par, TRUE) = ppp_lower_layer(v, other, TRUE)
  BY DEF ppp_lower_layer, Alike, get_ppp_path, get_ip_path, Credentials
<1>2. ip_enable(v, par, "on") = ip_enable(v, other, "on")
  BY DEF ip_enable, Alike, get_ip_path
<1>3. client_layer(mode, v, par, TRUE) = client_layer(mode, v, other, TRUE)
  <2>1. dhcp4_layer(par, TRUE) = dhcp4_layer(other, TRUE)
    BY DEF dhcp4_layer, Alike, get_dhcp_path, get_ip_path
  <2>2. dhcp6_layer(par, TRUE) = dhcp6_layer(other, TRUE)
    BY DEF dhcp6_layer, Alike, get_dhcp_path, get_ip_path, get_nd_path
  <2>3. ppp_upper_layer(v, par, TRUE) = ppp_upper_layer(v, other, TRUE)
    BY DEF ppp_upper_layer, Alike, get_dhcp_path, get_ip_path, get_nd_path
  <2>4. static_layer(v, par, TRUE) = static_layer(v, other, TRUE)
    BY DEF static_layer, static_enable, Alike, get_ip_path
  <2>5. cellular_layer(par, TRUE) = cellular_layer(other, TRUE)
    BY DEF cellular_layer, get_cellular_ip_type
  <2>6. dslite_layer(par, TRUE) = dslite_layer(other, TRUE)
    BY DEF dslite_layer, Alike, get_dhcp_path, get_ip_path, get_dslite_path, get_pcp_path
  <2>. QED
    BY <2>1, <2>2, <2>3, <2>4, <2>5, <2>6 DEF client_layer
<1>4. logical_layer(mode, v, par, TRUE) = logical_layer(mode, v, other, TRUE)
  BY DEF logical_layer, Alike, get_ip_path
<1>5. \A i \in {1, 3, 4, 5} :
         controllers(mode, v, par, TRUE)[i] = controllers(mode, v, other, TRUE)[i]
  <2>. DEFINE own == mode \notin {"none", "link", "dslite"}
              only(cond, script) == IF cond THEN script ELSE << >>
              a(p) == only(PPP(mode), ppp_lower_layer(v, p, TRUE))
              b(p) == only(own, ip_layer(mode, v, p, TRUE))
              c(p) == only(own, ip_enable(v, p, "on"))
              d(p) == client_layer(mode, v, p, TRUE)
              e(p) == only(mode # "none", logical_layer(mode, v, p, TRUE))
  <2>1. \A p : controllers(mode, v, p, TRUE) = << a(p), b(p), c(p), d(p), e(p) >>
    BY DEF controllers
  <2>2. a(par) = a(other) /\ c(par) = c(other) /\ d(par) = d(other) /\ e(par) = e(other)
    BY <1>1, <1>2, <1>3, <1>4
  <2>. HIDE DEF a, b, c, d, e
  <2>3. \A p : /\ controllers(mode, v, p, TRUE)[1] = a(p)
               /\ controllers(mode, v, p, TRUE)[3] = c(p)
               /\ controllers(mode, v, p, TRUE)[4] = d(p)
               /\ controllers(mode, v, p, TRUE)[5] = e(p)
    <3>. TAKE p
    <3>. DEFINE f == << a(p), b(p), c(p), d(p), e(p) >>
    <3>1. f[1] = a(p)
      OBVIOUS
    <3>2. f[3] = c(p)
      OBVIOUS
    <3>3. f[4] = d(p)
      OBVIOUS
    <3>4. f[5] = e(p)
      OBVIOUS
    <3>. HIDE DEF f
    <3>5. controllers(mode, v, p, TRUE) = f
      BY <2>1 DEF f
    <3>. QED
      BY <3>1, <3>2, <3>3, <3>4, <3>5
  <2>. QED
    BY <2>2, <2>3
<1>6. ASSUME NEW w \in Range(ip_layer(mode, v, par, TRUE))
      PROVE  \/ w \in Range(ip_layer(mode, v, other, TRUE))
             \/ /\ w = Set(get_ip_path(par, v), "LowerLayers", Lower(par, v))
                /\ Set(get_ip_path(par, v), "LowerLayers", Lower(other, v))
                      \in Range(ip_layer(mode, v, other, TRUE))
  <2>. DEFINE low(p) == << Set(get_ip_path(par, v), "LowerLayers", Lower(p, v)) >>
  <2>1. \A p : IsScript(low(p))
               /\ Range(low(p)) = {Set(get_ip_path(par, v), "LowerLayers", Lower(p, v))}
    BY Scripts1
  <2>2. CASE v = 4
    <3>. DEFINE addr == ipv4_addr_toggle(get_ip_path(par, 4), mode, TRUE)
                enable == << Set(get_ip_path(par, 4), "IPv4Enable", "on") >>
    <3>1. /\ ip_layer(mode, v, par, TRUE) = (low(par) \o addr) \o enable
          /\ ip_layer(mode, v, other, TRUE) = (low(other) \o addr) \o enable
      BY <2>2 DEF ip_layer, ipv4_layer, Alike, get_ip_path
    <3>2. IsScript(addr) /\ IsScript(enable)
      BY Ats1, Ats2 DEF ipv4_addr_toggle
    <3>. HIDE DEF low, addr, enable
    <3>3. \A p : /\ IsScript(low(p) \o addr)
                 /\ Range(low(p) \o addr) = Range(low(p)) \cup Range(addr)
      BY <2>1, <3>2, Joined
    <3>4. \A p : Range((low(p) \o addr) \o enable) = Range(low(p) \o addr) \cup Range(enable)
      BY <3>2, <3>3, Joined
    <3>5. /\ w \in Range(low(par)) \/ w \in Range(ip_layer(mode, v, other, TRUE))
          /\ Range(low(other)) \subseteq Range(ip_layer(mode, v, other, TRUE))
      BY <1>6, <3>1, <3>3, <3>4
    <3>. QED
      BY <2>1, <2>2, <3>5
  <2>3. CASE v = 6
    <3>. DEFINE ip == get_ip_path(par, 6)
                delegate == par.IPv6AddressDelegate
                address == IF delegate # None
                           THEN << Set(ip, "IPv6AddressDelegate", delegate) >>
                           ELSE IF mode = "ppp6"
                                THEN << Set(get_nd_path(par), "AutoConfEnable", "on") >>
                                ELSE << >>
                on == (ipv6_prefix_toggle(ip, TRUE) \o ipv6_addr_toggle(ip, TRUE))
                        \o ipv6_prefix_lan_toggle(TRUE)
                static == IF mode = "static" THEN on ELSE << >>
                enable == << Set(ip, "IPv6Enable", "on") >>
                all(p) == ((low(p) \o address) \o static) \o enable
    <3>1. /\ ip_layer(mode, v, par, TRUE) = Given({ip}, all(par))
          /\ ip_layer(mode, v, other, TRUE) = Given({ip}, all(other))
      BY <2>3 DEF ip_layer, ipv6_layer, ipv6_set_config, Alike, get_ip_path, get_nd_path
    <3>2. IsScript(address) /\ IsScript(enable)
      BY Ats0, Ats1
    <3>3. IsScript(static)
      BY Ipv6Static, Ats0 DEF Undone
    <3>. HIDE DEF low, address, static, enable
    <3>4. \A p : /\ IsScript(low(p) \o address)
                 /\ Range(low(p) \o address) = Range(low(p)) \cup Range(address)
      BY <2>1, <3>2, Joined
    <3>5. \A p : /\ IsScript((low(p) \o address) \o static)
                 /\ Range((low(p) \o address) \o static)
                      = Range(low(p) \o address) \cup Range(static)
      BY <3>3, <3>4, Joined
    <3>6. \A p : Range(all(p)) = Range((low(p) \o address) \o static) \cup Range(enable)
      BY <3>2, <3>5, Joined
    <3>7. CASE ip = None
      BY <1>6, <3>1, <3>7, Scripts0 DEF Given
    <3>8. CASE ip # None
      <4>1. /\ ip_layer(mode, v, par, TRUE) = all(par)
            /\ ip_layer(mode, v, other, TRUE) = all(other)
        BY <3>1, <3>8 DEF Given
      <4>. DEFINE rest == Range(address) \cup Range(static) \cup Range(enable)
      <4>3. \A p : Range(all(p)) = Range(low(p)) \cup rest
        BY <3>4, <3>5, <3>6
      <4>. HIDE DEF all, rest
      <4>4. /\ Range(ip_layer(mode, v, par, TRUE)) = Range(low(par)) \cup rest
            /\ Range(ip_layer(mode, v, other, TRUE)) = Range(low(other)) \cup rest
        BY <4>1, <4>3
      <4>2. /\ w \in Range(low(par)) \/ w \in Range(ip_layer(mode, v, other, TRUE))
            /\ Range(low(other)) \subseteq Range(ip_layer(mode, v, other, TRUE))
        BY <1>6, <4>4
      <4>. QED
        BY <2>1, <2>3, <4>2
    <3>. QED
      BY <3>7, <3>8
  <2>. QED
    BY <2>2, <2>3
<1>7. \A p : controllers(mode, v, p, TRUE)[2]
               = IF mode \notin {"none", "link", "dslite"}
                 THEN ip_layer(mode, v, p, TRUE) ELSE << >>
  BY DEF controllers
<1>. QED
  BY <1>5, <1>6, <1>7 DEF SameBut

\* The lower layer of PPP is among the scripts of an interface with a PPP mode.
LEMMA PppLowerIn ==
    ASSUME NEW par \in Interfaces, NEW refused, Plugged(par, refused), NEW v \in {4, 6},
           NEW mode, mode = IF v = 4 THEN par.IPv4Mode ELSE par.IPv6Mode, PPP(mode)
    PROVE  LET scripts == wan_mode_intf_enable(par, par, TRUE, refused).scripts
           IN  /\ ppp_lower_layer(v, Full(par, par, refused), TRUE)
                    = ppp_lower_layer(v, Low(par), TRUE)
               /\ ppp_lower_layer(v, Low(par), TRUE) \in Range(scripts)
<1>. DEFINE full == Full(par, par, refused)
            script == ppp_lower_layer(v, Low(par), TRUE)
            layers == controllers(mode, v, full, TRUE)
<1>1. IsInterface(par)
  BY InterfacesAssumption
<1>2. /\ Alike(full, par) /\ full.LowerLayer = LowerLayer(par)
      /\ Alike(Low(par), par) /\ Low(par).LowerLayer = LowerLayer(par)
  BY <1>1, FullIs
<1>3. ppp_lower_layer(v, full, TRUE) = script
  BY <1>2 DEF ppp_lower_layer, Alike, get_ppp_path, get_ip_path, Credentials
<1>4. script \in Range(layers)
  <2>. DEFINE a == ppp_lower_layer(v, full, TRUE)
  <2>1. /\ layers \in Seq(Range(layers)) /\ Len(layers) = 5
    BY ControllersShape
  <2>2. layers[1] = a
    BY DEF controllers
  <2>. HIDE DEF layers, a
  <2>3. 1 \in DOMAIN layers
    BY <2>1
  <2>4. a \in Range(layers)
    BY <2>2, <2>3 DEF Range
  <2>. QED
    BY <1>3, <2>4 DEF a
<1>5. ~NoIpMode(par)
  BY DEF NoIpMode, PPP
<1>6. Range(mode_layers(par, par, TRUE, refused))
        = Range(controllers(par.IPv4Mode, 4, full, TRUE))
            \cup Range(controllers(par.IPv6Mode, 6, full, TRUE))
  BY <1>1, <1>5, ModeLayers
<1>7. Range(wan_mode_intf_enable(par, par, TRUE, refused).scripts)
        = Range(mode_layers(par, par, TRUE, refused)) \cup {Plug(par, TRUE)}
  BY <1>1, Turn
<1>. HIDE DEF script, full
<1>8. script \in Range(mode_layers(par, par, TRUE, refused))
  BY <1>4, <1>6
<1>. QED
  BY <1>3, <1>7, <1>8 DEF script, full

LEMMA OverrideIs ==
    ASSUME NEW par \in Interfaces, NEW refused, NEW v \in {4, 6},
           NEW mode, mode = IF v = 4 THEN par.IPv4Mode ELSE par.IPv6Mode
    PROVE  LET script == ppp_lower_layer(v, Low(par), TRUE)
           IN  /\ PPP(mode) => script \in Range(Unrefused(par))
               /\ \/ Override(par, v, mode, refused) = Override(par, v, mode, None)
                  \/ /\ Override(par, v, mode, refused) = None
                     /\ PPP(mode) /\ script # << >>
                     /\ ~(1 .. (Len(script) - 2) \subseteq Performed(script, refused))
<1>. DEFINE script == ppp_lower_layer(v, Low(par), TRUE)
<1>2. ASSUME PPP(mode)
      PROVE  script \in Range(Unrefused(par))
  BY <1>2, InUnrefused, PppLowerIn DEF Unrefused
<1>. DEFINE set(r) == 1 .. (Len(script) - 2) \subseteq Performed(script, r)
<1>3. ASSUME PPP(mode), set(refused)
      PROVE  set(None)
  <2>1. \A w \in Range(script) : At(w) # None
    <3>1. script \in Range(Unrefused(par))
      BY <1>2, <1>3
    <3>. HIDE DEF script
    <3>2. Range(script) \subseteq WritesIn(Unrefused(par))
      BY <3>1, ScriptSets
    <3>. QED
      BY <3>2, InUnrefused
  <2>2. \A i \in DOMAIN script : script[i] \in Range(script)
    BY DEF Range
  <2>3. \A i \in DOMAIN script : At(script[i]) # None
    BY <2>1, <2>2
  <2>4. IsScript(script) /\ AreScripts(Unrefused(par))
    BY <1>2, <1>3, InUnrefused DEF AreScripts
  <2>5. Len(script) \in Nat /\ DOMAIN script = 1 .. Len(script)
    BY <2>4, ScriptShape
  <2>. HIDE DEF script
  <2>6. Performed(script, refused) \subseteq Performed(script, None)
    <3>. DEFINE done(i, r) == component_set_params(script[i], r)
    <3>1. \A i \in DOMAIN script : done(i, refused) => done(i, None)
      BY <2>3 DEF component_set_params
    <3>2. \A i \in DOMAIN script : \A j \in 1 .. (i - 1) : j \in DOMAIN script
      BY <2>5
    <3>. QED
      BY <3>1, <3>2 DEF Performed
  <2>. QED
    BY <1>3, <2>6
<1>4. \A r : Override(par, v, mode, r)
               = IF PPP(mode) /\ script # << >> /\ set(r)
                 THEN get_ppp_path(Low(par), v) ELSE None
  BY DEF Override
<1>. QED
  BY <1>2, <1>3, <1>4

\* Whatever is refused, what is put below the IP interface is something that is
\* also written when nothing is.
LEMMA LowerIs ==
    ASSUME NEW par \in Interfaces, NEW refused, NEW v \in {4, 6},
           NEW mode, mode = IF v = 4 THEN par.IPv4Mode ELSE par.IPv6Mode,
           Lower(Base(par), v) \in Values
    PROVE  Lower(Full(par, par, refused), v) \in Values
<1>. DEFINE script == ppp_lower_layer(v, Low(par), TRUE)
            below(r) == Default(Override(par, v, mode, r), LowerLayer(par))
<1>1. IsInterface(par)
  BY InterfacesAssumption
<1>2. \A r : Lower(Full(par, par, r), v) = below(r)
  BY <1>1, FullIs DEF Lower
<1>3. CASE Override(par, v, mode, refused) = Override(par, v, mode, None)
  BY <1>2, <1>3 DEF Base
<1>4. CASE Override(par, v, mode, refused) = None /\ PPP(mode) /\ script # << >>
  <2>1. below(refused) = LowerLayer(par)
    BY <1>4 DEF Default
  <2>. DEFINE ppp == get_ppp_path(Low(par), v)
              w == Set(ppp, "LowerLayers", LowerLayer(par))
              cp == IF v = 4 THEN "IPCPEnable" ELSE "IPv6CPEnable"
              all == (<< w >> \o Credentials(ppp, Low(par)))
                       \o << Set(ppp, cp, "on"), Enable(ppp, "on") >>
  <2>2. script = all
    BY <1>1, <1>4, FullIs DEF ppp_lower_layer, Given
  <2>3. w \in Range(all)
    <3>. DEFINE credentials == Credentials(ppp, Low(par))
                enable == << Set(ppp, cp, "on"), Enable(ppp, "on") >>
    <3>1. IsScript(credentials)
      BY CredentialsAre
    <3>2. IsScript(enable)
      BY Ats2
    <3>. HIDE DEF credentials, enable, w
    <3>3. IsScript(<< w >>) /\ w \in Range(<< w >>)
      BY Scripts1
    <3>4. IsScript(<< w >> \o credentials) /\ w \in Range(<< w >> \o credentials)
      BY <3>1, <3>3, Joined
    <3>5. w \in Range((<< w >> \o credentials) \o enable)
      BY <3>2, <3>4, Joined
    <3>. QED
      BY <3>5 DEF credentials, enable
  <2>4. script \in Range(Unrefused(par))
    BY <1>4, OverrideIs
  <2>. HIDE DEF all, script, w
  <2>5. w \in WritesIn(Unrefused(par))
    BY <2>2, <2>3, <2>4, ScriptSets
  <2>6. w.value \in Values
    BY <2>5, InUnrefused
  <2>. QED
    BY <1>2, <2>1, <2>6, SetIs DEF w
<1>. QED
  BY <1>3, <1>4, OverrideIs

\* The writes of enabling an interface write values that are written when nothing
\* is refused.
LEMMA ValuesOn ==
    ASSUME NEW par \in Interfaces, NEW refused
    PROVE  LET scripts == wan_mode_intf_enable(par, par, TRUE, refused).scripts
           IN  \A w \in WritesIn(scripts) : w.value \in Values
<1>. DEFINE scripts == wan_mode_intf_enable(par, par, TRUE, refused).scripts
            layers == mode_layers(par, par, TRUE, refused)
            unrefused == mode_layers(par, par, TRUE, None)
            full == Full(par, par, refused)
            mode(v) == IF v = 4 THEN par.IPv4Mode ELSE par.IPv6Mode
            on(v) == controllers(mode(v), v, full, TRUE)
            on_2(v) == controllers(mode(v), v, Base(par), TRUE)
<1>1. IsInterface(par)
  BY InterfacesAssumption
<1>2. /\ Alike(full, par) /\ Alike(Base(par), par)
      /\ full.LowerLayer = LowerLayer(par) /\ Base(par).LowerLayer = LowerLayer(par)
      /\ full.IPv4Mode = par.IPv4Mode /\ Base(par).IPv4Mode = par.IPv4Mode
      /\ full.IPv6Mode = par.IPv6Mode /\ Base(par).IPv6Mode = par.IPv6Mode
  BY <1>1, FullIs DEF Base
<1>3. Alike(full, Base(par))
  BY <1>2, AlikeIs, AlikeJoins
<1>4. Range(scripts) \subseteq Range(layers) \cup {Plug(par, TRUE)}
  BY <1>1, Turn
<1>5. Range(Unrefused(par)) = Range(unrefused) \cup {Plug(par, TRUE)}
  BY InUnrefused
<1>6. \A s \in Range(Unrefused(par)) : \A w \in Range(s) : w.value \in Values
  <2>1. WritesIn(Unrefused(par)) = UNION {Range(s) : s \in Range(Unrefused(par))}
    BY ScriptSets
  <2>2. \A w \in WritesIn(Unrefused(par)) : w.value \in Values
    BY InUnrefused
  <2>. QED
    BY <2>1, <2>2
<1>9. WritesIn(scripts) = UNION {Range(s) : s \in Range(scripts)}
  BY ScriptSets
<1>. SUFFICES ASSUME NEW s \in Range(scripts), NEW w \in Range(s)
              PROVE  w.value \in Values
  BY <1>9
<1>7. CASE NoIpMode(par)
  <2>1. /\ Range(layers) = IF Bridged(par) THEN {bridge_mode_ctrl_action(full, TRUE)} ELSE {}
        /\ Range(unrefused)
             = IF Bridged(par) THEN {bridge_mode_ctrl_action(Base(par), TRUE)} ELSE {}
    BY <1>1, <1>7, ModeLayers DEF Base
  <2>2. bridge_mode_ctrl_action(full, TRUE) = bridge_mode_ctrl_action(Base(par), TRUE)
    BY <1>2, <1>3 DEF bridge_mode_ctrl_action, Alike, get_ip_path
  <2>. HIDE DEF scripts, layers, unrefused, full
  <2>3. Range(scripts) \subseteq Range(Unrefused(par))
    BY <1>4, <1>5, <2>1, <2>2
  <2>. QED
    BY <1>6, <2>3
<1>8. CASE ~NoIpMode(par)
  <2>1. /\ Range(layers) = Range(on(4)) \cup Range(on(6))
        /\ Range(unrefused) = Range(on_2(4)) \cup Range(on_2(6))
    <3>1. mode(4) = par.IPv4Mode /\ mode(6) = par.IPv6Mode
      OBVIOUS
    <3>. HIDE DEF mode
    <3>. QED
      BY <1>1, <1>8, <3>1, ModeLayers DEF Base
  <2>2. ASSUME NEW v \in {4, 6}, s \in Range(on(v)),
               Range(on_2(v)) \subseteq Range(Unrefused(par))
        PROVE  w.value \in Values
    <3>. DEFINE m == mode(v)
                base == Base(par)
    <3>1. m = IF v = 4 THEN par.IPv4Mode ELSE par.IPv6Mode
      OBVIOUS
    <3>. HIDE DEF mode, full, m, base
    <3>. DEFINE a == controllers(m, v, full, TRUE)
                b == controllers(m, v, base, TRUE)
                below(par_) == Set(get_ip_path(full, v), "LowerLayers", Lower(par_, v))
    <3>2. /\ \A i \in {1, 3, 4, 5} : a[i] = b[i]
          /\ \A u \in Range(a[2]) :
                u \in Range(b[2]) \/ (u = below(full) /\ below(base) \in Range(b[2]))
      <4>1. /\ Alike(full, base)
            /\ full.LowerLayer = base.LowerLayer
            /\ full.IPv4Mode = base.IPv4Mode /\ full.IPv6Mode = base.IPv6Mode
        BY <1>2, <1>3 DEF base
      <4>2. SameBut(a, b, below(full), below(base))
        BY <4>1, SameLayers
      <4>. HIDE DEF a, b, below
      <4>. QED
        BY <4>2 DEF SameBut
    <3>3. /\ a \in Seq(Range(a)) /\ Len(a) = 5
          /\ b \in Seq(Range(b)) /\ Len(b) = 5
      BY ControllersShape
    <3>9. Lower(base, v) \in Values => Lower(full, v) \in Values
      BY <3>1, LowerIs DEF full, base
    <3>10. /\ s \in Range(a)
           /\ Range(b) \subseteq Range(Unrefused(par))
      BY <2>2 DEF m, base
    <3>. HIDE DEF a, b
    <3>4. DOMAIN a = 1 .. 5 /\ DOMAIN b = 1 .. 5
      BY <3>3, ScriptShape DEF IsScript
    <3>5. \A i \in 1 .. 5 : b[i] \in Range(Unrefused(par))
      BY <3>4, <3>10 DEF Range
    <3>6. PICK i \in 1 .. 5 : s = a[i]
      BY <3>4, <3>10 DEF Range
    <3>7. CASE i # 2
      <4>1. s = b[i]
        BY <3>2, <3>6, <3>7
      <4>. QED
        BY <1>6, <3>5, <4>1
    <3>8. CASE i = 2
      <4>1. \A u \in Range(b[2]) : u.value \in Values
        BY <1>6, <3>5, <3>8
      <4>2. w \in Range(b[2]) \/ (w = below(full) /\ below(base) \in Range(b[2]))
        BY <3>2, <3>6, <3>8
      <4>3. below(full).value = Lower(full, v) /\ below(base).value = Lower(base, v)
        BY SetIs
      <4>. HIDE DEF below
      <4>. QED
        BY <3>9, <4>1, <4>2, <4>3
    <3>. QED
      BY <3>7, <3>8
  <2>. HIDE DEF on, on_2, scripts, layers, unrefused
  <2>3. CASE s = Plug(par, TRUE)
    BY <1>5, <1>6, <2>3
  <2>4. CASE s # Plug(par, TRUE)
    <3>1. s \in Range(on(4)) \/ s \in Range(on(6))
      BY <1>4, <2>1, <2>4
    <3>2. \A v \in {4, 6} : Range(on_2(v)) \subseteq Range(Unrefused(par))
      BY <1>5, <2>1
    <3>. QED
      BY <2>2, <3>1, <3>2
  <2>. QED
    BY <2>3, <2>4
<1>. QED
  BY <1>7, <1>8

LEMMA ValuesWritten ==
    ASSUME NEW s, s.value \in [Params -> Values], NEW scripts, AreScripts(scripts),
           NEW refused,
           \A w \in WritesIn(scripts) : At(w) \in Params => w.value \in Values
    PROVE  Written(s, scripts, refused).value \in [Params -> Values]
<1>. DEFINE t == Written(s, scripts, refused)
<1>1. t.value = [p \in Params |-> t.value[p]]
  BY DEF Written
<1>2. DOMAIN s.value = Params /\ \A p \in Params : s.value[p] \in Values
  OBVIOUS
<1>3. \A p \in Params : t.value[p] \in Values
  <2>. TAKE p \in Params
  <2>1. \/ t.value[p] = s.value[p]
        \/ \E w \in WritesIn(scripts) : At(w) = p /\ t.value[p] = w.value
    BY <1>2, Effects
  <2>. QED
    BY <1>2, <2>1
<1>. HIDE DEF t
<1>. QED
  BY <1>1, <1>3 DEF t

LEMMA ValuesTurn ==
    ASSUME StateType, NEW s, s.value \in [Params -> Values], NEW modes, NEW refused
    PROVE  /\ Written(s, wan_mode_intf_enable(intf, intf, TRUE, refused).scripts, refused).value
                 \in [Params -> Values]
           /\ Written(s, wan_mode_intf_enable(intf, modes, FALSE, refused).scripts, refused).value
                 \in [Params -> Values]
<1>1. intf \in Interfaces /\ IsInterface(intf)
  BY InterfacesAssumption DEF StateType
<1>2. "off" \in Values
  BY DEF Values
<1>3. LET scripts == wan_mode_intf_enable(intf, intf, TRUE, refused).scripts
      IN  AreScripts(scripts) /\ \A w \in WritesIn(scripts) : w.value \in Values
  BY <1>1, Enabling, ValuesOn
<1>4. LET scripts == wan_mode_intf_enable(intf, modes, FALSE, refused).scripts
      IN  AreScripts(scripts)
          /\ \A w \in WritesIn(scripts) : At(w) \in Params => w.value \in Values
  BY <1>1, <1>2, Disabling DEF Released, Params
<1>. QED
  BY <1>3, <1>4, ValuesWritten

(***************************************************************************)
(* An invariant of the module on its own: TypeOK, with the shape of the    *)
(* queue.                                                                  *)
(***************************************************************************)
TypeInv == StateType /\ setup.value \in [Params -> Values]

LEMMA TypeInvIs == TypeInv => TypeOK
BY DEF TypeInv, StateType, QueueType, Where, TypeOK

LEMMA TypeStep == TypeInv /\ [Next]_vars => TypeInv'
<1>. SUFFICES ASSUME TypeInv, [Next]_vars
              PROVE  TypeInv'
  OBVIOUS
<1>1. StateType /\ setup.value \in [Params -> Values]
  BY DEF TypeInv
<1>2. StateType'
  BY <1>1, StateStep
<1>. DEFINE Fits == setup'.value \in [Params -> Values]
<1>. SUFFICES Fits
  BY <1>2 DEF TypeInv
<1>3. \A s : s.value \in [Params -> Values] =>
          \A refused :
             /\ Written(s, wan_mode_intf_enable(intf, intf, TRUE, refused).scripts,
                        refused).value \in [Params -> Values]
             /\ \A modes :
                  Written(s, wan_mode_intf_enable(intf, modes, FALSE, refused).scripts,
                          refused).value \in [Params -> Values]
  BY <1>1, ValuesTurn
<1>4. ASSUME NEW from, NEW to, NEW refused, wan_mode_set(from, to, refused)
      PROVE  Fits
  <2>1. CASE UNCHANGED setup
    BY <1>1, <2>1
  <2>2. CASE wan_mode_enable(TRUE, refused)
    BY <1>1, <1>3, <2>2 DEF wan_mode_enable
  <2>3. CASE wan_mode_enable(FALSE, refused)
    BY <1>1, <1>3, <2>3 DEF wan_mode_enable
  <2>4. (from = "no") \in BOOLEAN
    OBVIOUS
  <2>. QED
    BY <1>4, <2>1, <2>2, <2>3, <2>4 DEF wan_mode_set
<1>5. CASE \E mode \in IPv4Modes : set_intf_ip_mode(4, mode)
  BY <1>1, <1>5 DEF set_intf_ip_mode
<1>6. CASE \E mode \in IPv6Modes : set_intf_ip_mode(6, mode)
  BY <1>1, <1>6 DEF set_intf_ip_mode
<1>7. CASE \E where \in {"no", "alone", "shared"} : _setWANMode(where)
  BY <1>1, <1>7 DEF _setWANMode
<1>8. CASE \E mode \in {"Manual", "Automatic"} : WriteOperationMode(mode)
  BY <1>1, <1>8 DEF WriteOperationMode
<1>9. CASE \E where \in {"no", "alone", "shared"} : autosensing_set_wan_mode(where)
  BY <1>4, <1>9 DEF autosensing_set_wan_mode
<1>10. CASE HandleEvent
  <2>1. PICK event, refused : \/ wan_mode_set(event.from, event.to, refused)
                              \/ ip_mode_toggled(event, refused)
    BY <1>10 DEF HandleEvent
  <2>2. CASE wan_mode_set(event.from, event.to, refused)
    BY <1>4, <2>2
  <2>3. CASE ip_mode_toggled(event, refused)
    <3>. DEFINE disable == wan_mode_intf_enable(intf, Before(event), FALSE, refused)
                enable == wan_mode_intf_enable(intf, intf, TRUE, refused)
                disabled == Written(setup, disable.scripts, refused)
    <3>1. CASE UNCHANGED setup
      BY <1>1, <3>1
    <3>2. CASE Toggled(disable, enable, refused)
      <4>1. disabled.value \in [Params -> Values]
        BY <1>1, <1>3
      <4>2. Written(disabled, enable.scripts, refused).value \in [Params -> Values]
        BY <1>3, <4>1
      <4>. HIDE DEF disable, enable
      <4>3. \/ setup' = disabled
            \/ setup' = Written(disabled, enable.scripts, refused)
        BY <3>2 DEF Toggled
      <4>. QED
        BY <4>1, <4>2, <4>3
    <3>. QED
      BY <2>3, <3>1, <3>2 DEF ip_mode_toggled
  <2>. QED
    BY <2>1, <2>2, <2>3
<1>11. CASE UNCHANGED vars
  BY <1>1, <1>11 DEF vars
<1>. QED
  BY <1>5, <1>6, <1>7, <1>8, <1>9, <1>10, <1>11 DEF Next

(***************************************************************************)
(* Whatever is refused or disturbed, the interface has modes that the      *)
(* validate actions accept, and the other components only hold values that *)
(* an enabling without a refusal writes: a refusal keeps PPP away from     *)
(* below the IP interface (ppp_enable_lower of ppp_controller.c) and puts  *)
(* nothing new there.                                                      *)
(***************************************************************************)
THEOREM InterfaceTypeCorrect == Spec => []TypeOK
<1>1. Init => TypeInv
  <2>. SUFFICES ASSUME Init
                PROVE  TypeInv
    OBVIOUS
  <2>1. StateType
    BY StateInit
  <2>2. setup = AllOff /\ "off" \in Values
    BY DEF Init, Values
  <2>3. setup.value = [p \in Params |-> "off"]
    BY <2>2 DEF AllOff
  <2>. QED
    BY <2>1, <2>2, <2>3 DEF TypeInv
<1>2. TypeInv /\ [Next]_vars => TypeInv'
  BY TypeStep
<1>. QED
  BY <1>1, <1>2, TypeInvIs, PTL DEF Spec

(***************************************************************************)
(* The order of the writes of a script: those of parameters that take      *)
(* several values come first, before every setting; the others have the    *)
(* same value wherever they are written.  Written in M alone are the       *)
(* parameters that only one script writes.                                 *)
(***************************************************************************)
Special == {"LowerLayers", "Interface", "StaticPrefix", "StaticAddress"}

UsualValue(par, name) ==
    IF name = "IPv6AddressDelegate" THEN par.IPv6AddressDelegate ELSE "on"

Usual(par, w) ==
    /\ At(w)[2] \notin Special
    /\ w.value = UsualValue(par, At(w)[2])

Marks(par) ==
    {<<get_ppp_path(par, 4), "IPCPEnable">>, <<get_ppp_path(par, 6), "IPv6CPEnable">>,
     <<get_pcp_path(par), "Enable">>}

Early(par, M, w) ==
    ~Setting(At(w)) /\ At(w) \notin M /\ (At(w)[2] \in Special \/ Usual(par, w))

Late(par, M, w) ==
    At(w) \notin M /\ (Setting(At(w)) \/ Usual(par, w))

AllEarly(par, M, s) == IsScript(s) /\ \A w \in Range(s) : Early(par, M, w)
AllLate(par, M, s) == IsScript(s) /\ \A w \in Range(s) : Late(par, M, w)

Robust(par, M, s) ==
    /\ IsScript(s)
    /\ \E n \in 0 .. Len(s) :
          /\ \A i \in 1 .. n : Early(par, M, s[i])
          /\ \A i \in (n + 1) .. Len(s) : Late(par, M, s[i])

LEMMA RobustEarly ==
    ASSUME NEW par, NEW M, NEW s, AllEarly(par, M, s)
    PROVE  Robust(par, M, s)
<1>1. IsScript(s) /\ Len(s) \in Nat /\ DOMAIN s = 1 .. Len(s)
  BY ScriptShape DEF AllEarly
<1>2. \A i \in 1 .. Len(s) : Early(par, M, s[i])
  BY <1>1 DEF Range, AllEarly
<1>. DEFINE n == Len(s)
<1>3. n \in 0 .. Len(s) /\ (n + 1) .. Len(s) = {}
  BY <1>1
<1>. QED
  BY <1>1, <1>2, <1>3 DEF Robust

LEMMA RobustLate ==
    ASSUME NEW par, NEW M, NEW s, AllLate(par, M, s)
    PROVE  Robust(par, M, s)
<1>1. IsScript(s) /\ Len(s) \in Nat /\ DOMAIN s = 1 .. Len(s)
  BY ScriptShape DEF AllLate
<1>2. \A i \in 1 .. Len(s) : Late(par, M, s[i])
  BY <1>1 DEF Range, AllLate
<1>. DEFINE n == 0
<1>3. n \in 0 .. Len(s) /\ 1 .. n = {} /\ n + 1 = 1
  BY <1>1
<1>. HIDE DEF n
<1>. QED
  BY <1>1, <1>2, <1>3 DEF Robust

LEMMA LateJoined ==
    ASSUME NEW par, NEW M, NEW s, NEW t, AllLate(par, M, s), AllLate(par, M, t)
    PROVE  AllLate(par, M, s \o t)
BY Joined DEF AllLate

LEMMA EarlyJoined ==
    ASSUME NEW par, NEW M, NEW s, NEW t, AllEarly(par, M, s), AllEarly(par, M, t)
    PROVE  AllEarly(par, M, s \o t)
BY Joined DEF AllEarly

LEMMA EarlyScripts ==
    ASSUME NEW par, NEW M
    PROVE  /\ AllEarly(par, M, << >>)
           /\ \A a : Early(par, M, a) => AllEarly(par, M, << a >>)
           /\ \A a, b : Early(par, M, a) /\ Early(par, M, b) => AllEarly(par, M, << a, b >>)
<1>1. AllEarly(par, M, << >>)
  BY Scripts0 DEF AllEarly
<1>2. ASSUME NEW a, Early(par, M, a)
      PROVE  AllEarly(par, M, << a >>)
  BY <1>2, Scripts1 DEF AllEarly
<1>3. ASSUME NEW a, NEW b, Early(par, M, a), Early(par, M, b)
      PROVE  AllEarly(par, M, << a, b >>)
  BY <1>3, Scripts2 DEF AllEarly
<1>. QED
  BY <1>1, <1>2, <1>3

LEMMA RobustJoined ==
    ASSUME NEW par, NEW M, NEW s, NEW t, Robust(par, M, s), AllLate(par, M, t)
    PROVE  Robust(par, M, s \o t)
<1>1. IsScript(s) /\ Len(s) \in Nat
  BY ScriptShape DEF Robust
<1>2. IsScript(t) /\ Len(t) \in Nat /\ DOMAIN t = 1 .. Len(t)
  BY ScriptShape DEF AllLate
<1>3. \A i \in 1 .. Len(t) : Late(par, M, t[i])
  BY <1>2 DEF Range, AllLate
<1>4. PICK n \in 0 .. Len(s) :
         /\ \A i \in 1 .. n : Early(par, M, s[i])
         /\ \A i \in (n + 1) .. Len(s) : Late(par, M, s[i])
  BY DEF Robust
<1>. DEFINE S == Range(s) \cup Range(t)
            all == s \o t
<1>5. s \in Seq(S) /\ t \in Seq(S)
  BY <1>1, <1>2, SeqMonotonic DEF IsScript
<1>6. /\ Len(all) = Len(s) + Len(t)
      /\ \A i \in 1 .. Len(s) + Len(t) :
            all[i] = IF i <= Len(s) THEN s[i] ELSE t[i - Len(s)]
  BY <1>5, ConcatProperties
<1>7. IsScript(all)
  BY <1>1, <1>2, Joined
<1>. HIDE DEF all
<1>8. n \in 0 .. Len(all)
  BY <1>1, <1>2, <1>6
<1>9. \A i \in 1 .. n : Early(par, M, all[i])
  BY <1>1, <1>2, <1>4, <1>6
<1>10. ASSUME NEW i \in (n + 1) .. Len(all)
       PROVE  Late(par, M, all[i])
  <2>1. CASE i <= Len(s)
    BY <1>1, <1>2, <1>4, <1>6, <2>1
  <2>2. CASE ~(i <= Len(s))
    <3>1. i - Len(s) \in 1 .. Len(t) /\ all[i] = t[i - Len(s)]
      BY <1>1, <1>2, <1>6, <2>2
    <3>. QED
      BY <1>3, <3>1
  <2>. QED
    BY <2>1, <2>2
<1>. QED
  BY <1>7, <1>8, <1>9, <1>10 DEF Robust, all

LEMMA LateScripts ==
    ASSUME NEW par, NEW M
    PROVE  /\ AllLate(par, M, << >>)
           /\ \A a : Late(par, M, a) => AllLate(par, M, << a >>)
           /\ \A a, b : Late(par, M, a) /\ Late(par, M, b) => AllLate(par, M, << a, b >>)
<1>1. AllLate(par, M, << >>)
  BY Scripts0 DEF AllLate
<1>2. ASSUME NEW a, Late(par, M, a)
      PROVE  AllLate(par, M, << a >>)
  BY <1>2, Scripts1 DEF AllLate
<1>3. ASSUME NEW a, NEW b, Late(par, M, a), Late(par, M, b)
      PROVE  AllLate(par, M, << a, b >>)
  BY <1>3, Scripts2 DEF AllLate
<1>. QED
  BY <1>1, <1>2, <1>3

LEMMA Robust2 ==
    ASSUME NEW par, NEW M, NEW a, NEW b, Early(par, M, a), Late(par, M, b)
    PROVE  Robust(par, M, << a, b >>)
<1>. DEFINE s == << a, b >>
<1>1. Len(s) = 2
  OBVIOUS
<1>2. s[1] = a
  OBVIOUS
<1>3. s[2] = b
  OBVIOUS
<1>4. IsScript(s)
  BY Scripts2
<1>. HIDE DEF s
<1>. DEFINE n == 1
<1>5. n \in 0 .. Len(s) /\ (\A i \in 1 .. n : i = 1) /\ \A i \in (n + 1) .. Len(s) : i = 2
  BY <1>1
<1>. HIDE DEF n
<1>. QED
  BY <1>2, <1>3, <1>4, <1>5 DEF Robust, s

LEMMA Robust4 ==
    ASSUME NEW par, NEW M, NEW a, NEW b, NEW c, NEW d,
           Early(par, M, a), Early(par, M, b), Late(par, M, c), Late(par, M, d)
    PROVE  Robust(par, M, << a, b, c, d >>)
<1>. DEFINE s == << a, b, c, d >>
<1>1. Len(s) = 4
  OBVIOUS
<1>2. s[1] = a
  OBVIOUS
<1>3. s[2] = b
  OBVIOUS
<1>4. s[3] = c
  OBVIOUS
<1>5. s[4] = d
  OBVIOUS
<1>6. IsScript(s)
  BY Scripts4
<1>. HIDE DEF s
<1>. DEFINE n == 2
<1>7. /\ n \in 0 .. Len(s)
      /\ \A i \in 1 .. n : i = 1 \/ i = 2
      /\ \A i \in (n + 1) .. Len(s) : i = 3 \/ i = 4
  BY <1>1
<1>. HIDE DEF n
<1>. QED
  BY <1>2, <1>3, <1>4, <1>5, <1>6, <1>7 DEF Robust, s

\* The writes that the layers are made of.
LEMMA EarlyWrites ==
    ASSUME NEW par, NEW M, M \subseteq Marks(par), DistinctReferences(par)
    PROVE  /\ \A o, v : \A name \in Special : Early(par, M, Set(o, name, v))
           /\ \A o : /\ Early(par, M, Set(o, "AutoConfEnable", "on"))
                     /\ Early(par, M, Set(o, "NoGUA_RA", "on"))
                     /\ Early(par, M, Set(o, "IPv6AddressDelegate", par.IPv6AddressDelegate))
           /\ Early(par, M, Enable(get_nd_path(par), "on"))
<1>1. \A o, v : \A name \in Special : Early(par, M, Set(o, name, v))
  BY SetIs DEF Early, Special, Setting, Marks
<1>2. \A o : /\ Early(par, M, Set(o, "AutoConfEnable", "on"))
             /\ Early(par, M, Set(o, "NoGUA_RA", "on"))
             /\ Early(par, M, Set(o, "IPv6AddressDelegate", par.IPv6AddressDelegate))
  BY SetIs DEF Early, Special, Setting, Marks, Usual, UsualValue
<1>3. Early(par, M, Enable(get_nd_path(par), "on"))
  BY SetIs DEF Early, Special, Setting, Marks, Usual, UsualValue, Enable,
     DistinctReferences
<1>. QED
  BY <1>1, <1>2, <1>3

Objects(par) ==
    {get_ip_path(par, 4), get_ip_path(par, 6), get_dhcp_path(par, 4),
     get_dhcp_path(par, 6), get_ppp_path(par, 4), get_ppp_path(par, 6),
     get_nd_path(par), get_dslite_path(par), par.DefaultRouteReference,
     "DSLite", "PCP", "VLAN", "AccessPoint", "Logical"}

LEMMA LateWrites ==
    ASSUME NEW par, NEW M, M \subseteq Marks(par), DistinctReferences(par)
    PROVE  /\ \A o \in Objects(par) : Late(par, M, Enable(o, "on"))
           /\ \A o : \A name \in {"AddressEnable", "IPv4Enable", "IPv6Enable", "Port",
                                  "IPv6Forwarding"} :
                 Late(par, M, Set(o, name, "on"))
           /\ \A o, v : \A name \in {"AddressingType", "Origin", "RequestPrefixes", "IPType",
                                     "DNSMode", "IPv6DNSMode", "Username", "Password"} :
                 Late(par, M, Set(o, name, v))
           /\ \A v \in {4, 6} : Late(par, M, Set("Logical", get_ip_path(par, v), "on"))
<1>1. \A o \in Objects(par) : Late(par, M, Enable(o, "on"))
  <2>1. ASSUME NEW o \in Objects(par)
        PROVE  o # get_pcp_path(par)
    BY <2>1 DEF Objects, DistinctReferences
  <2>2. ASSUME NEW o, o # get_pcp_path(par)
        PROVE  Late(par, M, Enable(o, "on"))
    BY <2>2, SetIs DEF Late, Special, Marks, Usual, UsualValue, Enable
  <2>. QED
    BY <2>1, <2>2
<1>2. \A o : \A name \in {"AddressEnable", "IPv4Enable", "IPv6Enable", "Port",
                          "IPv6Forwarding"} :
         Late(par, M, Set(o, name, "on"))
  BY SetIs DEF Late, Special, Marks, Usual, UsualValue
<1>3. \A o, v : \A name \in {"AddressingType", "Origin", "RequestPrefixes", "IPType",
                             "DNSMode", "IPv6DNSMode", "Username", "Password"} :
         Late(par, M, Set(o, name, v))
  BY SetIs DEF Late, Setting, Marks
<1>4. ASSUME NEW v \in {4, 6}
      PROVE  Late(par, M, Set("Logical", get_ip_path(par, v), "on"))
  <2>. DEFINE ip == get_ip_path(par, v)
  <2>1. /\ ip \notin Special
        /\ ip \notin {"IPv6AddressDelegate", "IPCPEnable", "IPv6CPEnable"}
        /\ get_pcp_path(par) # "Logical"
    BY DEF DistinctReferences, Special
  <2>. HIDE DEF ip
  <2>2. Late(par, M, Set("Logical", ip, "on"))
    BY <2>1, SetIs DEF Late, Marks, Usual, UsualValue
  <2>. QED
    BY <2>2 DEF ip
<1>. QED
  BY <1>1, <1>2, <1>3, <1>4

\* The layers that are so.
LEMMA RobustIpv4 ==
    ASSUME NEW par, NEW M, M \subseteq Marks(par), DistinctReferences(par), NEW mode
    PROVE  Robust(par, M, ipv4_layer(mode, par, TRUE))
<1>. DEFINE ip == get_ip_path(par, 4)
            low == << Set(ip, "LowerLayers", Lower(par, 4)) >>
            addr == ipv4_addr_toggle(ip, mode, TRUE)
            enable == << Set(ip, "IPv4Enable", "on") >>
<1>1. Robust(par, M, low)
  <2>. DEFINE w == Set(ip, "LowerLayers", Lower(par, 4))
  <2>1. Early(par, M, w)
    BY EarlyWrites DEF Special
  <2>. HIDE DEF w
  <2>. QED
    BY <2>1, EarlyScripts, RobustEarly DEF w
<1>2. AllLate(par, M, addr)
  BY LateWrites, LateScripts DEF ipv4_addr_toggle
<1>3. AllLate(par, M, enable)
  BY LateWrites, LateScripts
<1>4. ipv4_layer(mode, par, TRUE) = (low \o addr) \o enable
  BY DEF ipv4_layer
<1>. HIDE DEF low, addr, enable
<1>5. Robust(par, M, low \o addr)
  BY <1>1, <1>2, RobustJoined
<1>6. Robust(par, M, (low \o addr) \o enable)
  BY <1>3, <1>5, RobustJoined
<1>. QED
  BY <1>4, <1>6

LEMMA EarlyStatic ==
    ASSUME NEW par, NEW M, M \subseteq Marks(par), DistinctReferences(par), NEW ip
    PROVE  LET s == (ipv6_prefix_toggle(ip, TRUE) \o ipv6_addr_toggle(ip, TRUE))
                      \o ipv6_prefix_lan_toggle(TRUE)
           IN  AllEarly(par, M, s)
<1>. DEFINE a == << Set(ip, "StaticPrefix", "off") >>
            b == << Set(ip, "StaticPrefix", "on") >>
            c == << Set(ip, "StaticAddress", "off") >>
            d == << Set(ip, "StaticAddress", "on"), Set(ip, "NoGUA_RA", "on") >>
            e == << Set("LAN", "StaticPrefix", "on") >>
<1>1. /\ AllEarly(par, M, a) /\ AllEarly(par, M, b)
      /\ AllEarly(par, M, c) /\ AllEarly(par, M, e)
  BY EarlyWrites, EarlyScripts DEF Special
<1>2. AllEarly(par, M, d)
  BY EarlyWrites, EarlyScripts DEF Special
<1>3. /\ ipv6_prefix_toggle(ip, TRUE) = a \o b
      /\ ipv6_addr_toggle(ip, TRUE) = c \o d
      /\ ipv6_prefix_lan_toggle(TRUE) = e
  BY DEF ipv6_prefix_toggle, ipv6_addr_toggle, ipv6_prefix_lan_toggle
<1>. HIDE DEF a, b, c, d, e
<1>5. AllEarly(par, M, a \o b) /\ AllEarly(par, M, c \o d)
  BY <1>1, <1>2, EarlyJoined
<1>6. AllEarly(par, M, (a \o b) \o (c \o d))
  BY <1>5, EarlyJoined
<1>7. AllEarly(par, M, ((a \o b) \o (c \o d)) \o e)
  BY <1>1, <1>6, EarlyJoined
<1>. QED
  BY <1>3, <1>7

LEMMA RobustIpv6 ==
    ASSUME NEW par, NEW M, M \subseteq Marks(par), DistinctReferences(par), NEW mode
    PROVE  Robust(par, M, ipv6_layer(mode, par, TRUE))
<1>. DEFINE ip == get_ip_path(par, 6)
            delegate == par.IPv6AddressDelegate
            low == << Set(ip, "LowerLayers", Lower(par, 6)) >>
            address == IF delegate # None
                       THEN << Set(ip, "IPv6AddressDelegate", delegate) >>
                       ELSE IF mode = "ppp6"
                            THEN << Set(get_nd_path(par), "AutoConfEnable", "on") >>
                            ELSE << >>
            on == (ipv6_prefix_toggle(ip, TRUE) \o ipv6_addr_toggle(ip, TRUE))
                    \o ipv6_prefix_lan_toggle(TRUE)
            static == IF mode = "static" THEN on ELSE << >>
            enable == << Set(ip, "IPv6Enable", "on") >>
<1>1. ipv6_layer(mode, par, TRUE)
        = Given({ip}, ((low \o address) \o static) \o enable)
  BY DEF ipv6_layer, ipv6_set_config
<1>2. AllEarly(par, M, low)
  BY EarlyWrites, EarlyScripts DEF Special
<1>3. AllEarly(par, M, address)
  BY EarlyWrites, EarlyScripts
<1>4. AllEarly(par, M, static)
  BY EarlyStatic, EarlyScripts
<1>5. AllLate(par, M, enable)
  BY LateWrites, LateScripts
<1>8. Robust(par, M, << >>)
  BY LateScripts, RobustLate
<1>. HIDE DEF low, address, static, enable
<1>9. AllEarly(par, M, low \o address)
  BY <1>2, <1>3, EarlyJoined
<1>10. AllEarly(par, M, (low \o address) \o static)
  BY <1>4, <1>9, EarlyJoined
<1>11. Robust(par, M, (low \o address) \o static)
  BY <1>10, RobustEarly
<1>12. Robust(par, M, ((low \o address) \o static) \o enable)
  BY <1>5, <1>11, RobustJoined
<1>. QED
  BY <1>1, <1>8, <1>12 DEF Given

LEMMA LateListed ==
    ASSUME NEW par, NEW M, M \subseteq Marks(par), DistinctReferences(par), NEW v \in {4, 6}
    PROVE  AllLate(par, M, Listed(get_ip_path(par, v), "on"))
BY LateWrites, LateScripts DEF Listed, Given

LEMMA LateLogical ==
    ASSUME NEW par, NEW M, M \subseteq Marks(par), DistinctReferences(par),
           NEW v \in {4, 6}, NEW mode
    PROVE  AllLate(par, M, logical_layer(mode, v, par, TRUE))
<1>. DEFINE ip == get_ip_path(par, v)
            route == par.DefaultRouteReference
            origin == << Set(route, "Origin", IF ip = None THEN None
                                              ELSE get_routing_v4_origin(mode)) >>
            enable == << Enable(route, "on") >>
            default == IF v = 6 \/ route = None THEN << >> ELSE origin \o enable
            listed_ == Listed(ip, "on")
<1>1. AllLate(par, M, origin)
  BY LateWrites, LateScripts
<1>2. AllLate(par, M, enable)
  BY LateWrites, LateScripts DEF Objects
<1>3. AllLate(par, M, listed_)
  BY LateListed
<1>4. AllLate(par, M, << >>)
  BY LateScripts
<1>5. logical_layer(mode, v, par, TRUE) = default \o listed_
  BY DEF logical_layer, routing_default_route_set_origin
<1>. HIDE DEF origin, enable, listed_
<1>6. AllLate(par, M, default)
  BY <1>1, <1>2, <1>4, LateJoined
<1>. HIDE DEF default
<1>. QED
  BY <1>3, <1>5, <1>6, LateJoined

LEMMA RobustDhcp4 ==
    ASSUME NEW par, NEW M, M \subseteq Marks(par), DistinctReferences(par)
    PROVE  Robust(par, M, dhcp4_layer(par, TRUE))
<1>. DEFINE client == get_dhcp_path(par, 4)
            ip == get_ip_path(par, 4)
            a == Set(client, "Interface", ip)
            b == Enable(client, "on")
<1>1. Early(par, M, a) /\ Late(par, M, b)
  BY EarlyWrites, LateWrites DEF Special, Objects
<1>2. Robust(par, M, << >>)
  BY LateScripts, RobustLate
<1>3. dhcp4_layer(par, TRUE) = Given({client, ip}, << a, b >>)
  BY DEF dhcp4_layer
<1>. HIDE DEF a, b
<1>. QED
  BY <1>1, <1>2, <1>3, Robust2 DEF Given

LEMMA RobustDhcp6 ==
    ASSUME NEW par, NEW M, M \subseteq Marks(par), DistinctReferences(par)
    PROVE  Robust(par, M, dhcp6_layer(par, TRUE))
<1>. DEFINE client == get_dhcp_path(par, 6)
            ip == get_ip_path(par, 6)
            a == Set(client, "Interface", ip)
            b == Enable(client, "on")
            first == Given({client}, << a, b >>)
            second == << Enable(get_nd_path(par), "on") >>
<1>1. Early(par, M, a) /\ Late(par, M, b)
  BY EarlyWrites, LateWrites DEF Special, Objects
<1>2. Robust(par, M, << >>)
  BY LateScripts, RobustLate
<1>3. AllLate(par, M, second)
  BY LateWrites, LateScripts DEF Objects
<1>4. dhcp6_layer(par, TRUE) = Given({ip}, first \o second)
  BY DEF dhcp6_layer
<1>. HIDE DEF a, b, second
<1>5. Robust(par, M, first)
  BY <1>1, <1>2, Robust2 DEF Given
<1>. HIDE DEF first
<1>6. Robust(par, M, first \o second)
  BY <1>3, <1>5, RobustJoined
<1>. QED
  BY <1>2, <1>4, <1>6 DEF Given

LEMMA RobustPppUpper ==
    ASSUME NEW par, NEW M, M \subseteq Marks(par), DistinctReferences(par), NEW v
    PROVE  Robust(par, M, ppp_upper_layer(v, par, TRUE))
<1>. DEFINE client == get_dhcp_path(par, 6)
            ip == get_ip_path(par, 6)
            a == Enable(get_nd_path(par), "on")
            b == Set(client, "Interface", ip)
            c == Set(client, "RequestPrefixes", "on")
            d == Enable(client, "on")
<1>1. Early(par, M, a) /\ Early(par, M, b) /\ Late(par, M, c) /\ Late(par, M, d)
  BY EarlyWrites, LateWrites DEF Special, Objects
<1>2. Robust(par, M, << >>)
  BY LateScripts, RobustLate
<1>3. ppp_upper_layer(v, par, TRUE)
        = IF v = 4 THEN << >> ELSE Given({ip}, << a, b, c, d >>)
  BY DEF ppp_upper_layer
<1>. HIDE DEF a, b, c, d
<1>. QED
  BY <1>1, <1>2, <1>3, Robust4 DEF Given

LEMMA LateStatic ==
    ASSUME NEW par, NEW M, M \subseteq Marks(par), DistinctReferences(par), NEW v
    PROVE  AllLate(par, M, static_layer(v, par, TRUE))
<1>. DEFINE a == Route("on")
            b == Set("WANMode", IF v = 4 THEN "DNSMode" ELSE "IPv6DNSMode", "static")
            first == IF v = 6 /\ par.DefaultRouter # None THEN << a >> ELSE << >>
            second == IF par.Name = "wan" THEN << b >> ELSE << >>
<1>1. Late(par, M, a) /\ Late(par, M, b)
  BY LateWrites DEF Route
<1>2. static_layer(v, par, TRUE) = Given({get_ip_path(par, 6), par.Name}, first \o second)
  BY DEF static_layer, static_enable
<1>. HIDE DEF a, b
<1>3. AllLate(par, M, first) /\ AllLate(par, M, second) /\ AllLate(par, M, << >>)
  BY <1>1, LateScripts
<1>. HIDE DEF first, second
<1>. QED
  BY <1>2, <1>3, LateJoined DEF Given

LEMMA LateCellular ==
    ASSUME NEW par, NEW M, M \subseteq Marks(par), DistinctReferences(par)
    PROVE  AllLate(par, M, cellular_layer(par, TRUE))
BY LateWrites, LateScripts DEF cellular_layer, Objects

LEMMA RobustBridge ==
    ASSUME NEW par, NEW M, M \subseteq Marks(par), DistinctReferences(par)
    PROVE  Robust(par, M, bridge_mode_ctrl_action(par, TRUE))
<1>. DEFINE ip == get_ip_path(par, 4)
            a == Set(ip, "LowerLayers", par.LowerLayer)
            b == Enable(ip, "on")
            first == << a, b >>
            second == Listed(ip, "on")
<1>1. Early(par, M, a) /\ Late(par, M, b)
  BY EarlyWrites, LateWrites DEF Special, Objects
<1>2. Robust(par, M, << >>)
  BY LateScripts, RobustLate
<1>3. AllLate(par, M, second)
  BY LateListed
<1>4. bridge_mode_ctrl_action(par, TRUE) = Given({ip}, first \o second)
  BY DEF bridge_mode_ctrl_action
<1>. HIDE DEF a, b
<1>5. Robust(par, M, first)
  BY <1>1, Robust2
<1>. HIDE DEF first, second
<1>6. Robust(par, M, first \o second)
  BY <1>3, <1>5, RobustJoined
<1>. QED
  BY <1>2, <1>4, <1>6 DEF Given

LEMMA LatePlug ==
    ASSUME NEW par, NEW M, M \subseteq Marks(par), DistinctReferences(par)
    PROVE  AllLate(par, M, Plug(par, TRUE))
BY LateWrites, LateScripts DEF Plug, Objects

LEMMA LateIpEnable ==
    ASSUME NEW par, NEW M, M \subseteq Marks(par), DistinctReferences(par), NEW v \in {4, 6}
    PROVE  AllLate(par, M, ip_enable(v, par, "on"))
BY LateWrites, LateScripts DEF ip_enable, Objects

\* The lower layer of PPP enables the network protocol last but one.  No other
\* layer writes that.
Mark(par, v) ==
    IF v = 4 THEN <<get_ppp_path(par, 4), "IPCPEnable">>
             ELSE <<get_ppp_path(par, 6), "IPv6CPEnable">>

LEMMA PppLowerShape ==
    ASSUME NEW par, DistinctReferences(par), NEW v \in {4, 6}
    PROVE  LET s == ppp_lower_layer(v, par, TRUE)
           IN  /\ Robust(par, Marks(par) \ {Mark(par, v)}, s)
               /\ \A j \in DOMAIN s : s[j].checked
               /\ \A j \in DOMAIN s : At(s[j]) = Mark(par, v) => j > Len(s) - 2
               /\ s # << >> => Mark(par, v) \in Ats(s)
<1>. DEFINE ppp == get_ppp_path(par, v)
            cp == IF v = 4 THEN "IPCPEnable" ELSE "IPv6CPEnable"
            M == Marks(par) \ {Mark(par, v)}
            low == << Set(ppp, "LowerLayers", par.LowerLayer) >>
            user == Given({par.UserName}, << Set(ppp, "Username", par.UserName) >>)
            password == Given({par.Password}, << Set(ppp, "Password", par.Password) >>)
            a == Set(ppp, cp, "on")
            b == Enable(ppp, "on")
            set == low \o (user \o password)
            enable == << a, b >>
            s == ppp_lower_layer(v, par, TRUE)
            Fine(t) == \A w \in Range(t) : w.checked /\ At(w) # Mark(par, v)
<1>1. s = Given({get_ip_path(par, v)}, set \o enable)
  BY DEF ppp_lower_layer, Credentials
<1>2. M \subseteq Marks(par) /\ Mark(par, v) = <<ppp, cp>>
  BY DEF Mark
<1>3. cp \notin Special \cup {"LowerLayers", "Username", "Password", "Enable", "IPv6AddressDelegate"}
  BY DEF Special
<1>4. Early(par, M, Set(ppp, "LowerLayers", par.LowerLayer))
  BY <1>2, EarlyWrites DEF Special
<1>5. Robust(par, M, low)
  BY <1>4, EarlyScripts, RobustEarly
<1>6. AllLate(par, M, user) /\ AllLate(par, M, password)
  BY <1>2, LateWrites, LateScripts DEF Given
<1>7. Late(par, M, a) /\ Late(par, M, b)
  <2>1. At(a) = <<ppp, cp>> /\ a.value = "on"
    BY SetIs
  <2>2. Late(par, M, a)
    BY <1>2, <1>3, <2>1 DEF Late, Usual, UsualValue
  <2>. QED
    BY <1>2, <2>2, LateWrites DEF Objects
<1>8. AllLate(par, M, enable)
  BY <1>7, LateScripts
<1>9. Fine(low) /\ Fine(user) /\ Fine(password)
  <2>1. \A name, value : name # cp =>
           Set(ppp, name, value).checked /\ At(Set(ppp, name, value)) # Mark(par, v)
    BY <1>2 DEF Set, At
  <2>. HIDE DEF cp
  <2>2. Fine(low)
    <3>. DEFINE w == Set(ppp, "LowerLayers", par.LowerLayer)
    <3>1. w.checked /\ At(w) # Mark(par, v)
      BY <1>3, <2>1
    <3>. HIDE DEF w
    <3>. QED
      BY <3>1, Scripts1 DEF w
  <2>3. Fine(user)
    <3>. DEFINE w == Set(ppp, "Username", par.UserName)
    <3>1. w.checked /\ At(w) # Mark(par, v)
      BY <1>3, <2>1
    <3>. HIDE DEF w
    <3>2. Range(<< w >>) = {w} /\ Range(<< >>) = {}
      BY Scripts0, Scripts1
    <3>. QED
      BY <3>1, <3>2 DEF w, Given
  <2>4. Fine(password)
    <3>. DEFINE w == Set(ppp, "Password", par.Password)
    <3>1. w.checked /\ At(w) # Mark(par, v)
      BY <1>3, <2>1
    <3>. HIDE DEF w
    <3>2. Range(<< w >>) = {w} /\ Range(<< >>) = {}
      BY Scripts0, Scripts1
    <3>. QED
      BY <3>1, <3>2 DEF w, Given
  <2>. QED
    BY <2>2, <2>3, <2>4
<1>10. a.checked /\ b.checked
  BY DEF Set, Enable
<1>11. IsScript(low) /\ IsScript(user) /\ IsScript(password)
  BY <1>5, <1>6 DEF Robust, AllLate
<1>12. /\ Len(enable) = 2
       /\ IsScript(enable) /\ Range(enable) = {a, b}
  BY Scripts2
<1>. HIDE DEF low, user, password, a, b, enable, M, ppp, cp
<1>13. /\ AllLate(par, M, user \o password)
       /\ IsScript(user \o password)
       /\ Range(user \o password) = Range(user) \cup Range(password)
  BY <1>6, <1>11, LateJoined, Joined
<1>14. /\ IsScript(set)
       /\ Range(set) = Range(low) \cup Range(user \o password)
       /\ Robust(par, M, set)
  BY <1>5, <1>11, <1>13, Joined, RobustJoined
<1>15. Fine(set)
  BY <1>9, <1>13, <1>14
<1>. HIDE DEF set
<1>16. /\ Robust(par, M, set \o enable)
       /\ IsScript(set \o enable)
       /\ Range(set \o enable) = Range(set) \cup Range(enable)
  BY <1>8, <1>12, <1>14, Joined, RobustJoined
<1>17. CASE get_ip_path(par, v) = None
  <2>1. s = << >>
    BY <1>1, <1>17 DEF Given
  <2>2. Robust(par, M, << >>)
    BY LateScripts, RobustLate
  <2>3. DOMAIN << >> = {}
    OBVIOUS
  <2>. HIDE DEF s
  <2>. QED
    BY <2>1, <2>2, <2>3 DEF s, M
<1>18. CASE get_ip_path(par, v) # None
  <2>. DEFINE all == set \o enable
  <2>1. s = all
    BY <1>1, <1>18 DEF Given
  <2>2. \A w \in Range(all) : w.checked
    BY <1>10, <1>12, <1>15, <1>16
  <2>3. a \in Range(all)
    BY <1>12, <1>16
  <2>. DEFINE S == Range(set) \cup Range(enable)
  <2>4. set \in Seq(S) /\ enable \in Seq(S)
    BY <1>12, <1>14, SeqMonotonic DEF IsScript
  <2>5. Len(set) \in Nat /\ DOMAIN set = 1 .. Len(set)
    BY <1>14, ScriptShape
  <2>6. /\ Len(all) = Len(set) + 2
        /\ \A i \in 1 .. Len(set) + 2 : i <= Len(set) => all[i] = set[i]
    <3>. HIDE DEF S
    <3>1. /\ Len(all) = Len(set) + Len(enable)
          /\ \A i \in 1 .. Len(set) + Len(enable) :
                all[i] = IF i <= Len(set) THEN set[i] ELSE enable[i - Len(set)]
      BY <2>4, ConcatProperties
    <3>. HIDE DEF all
    <3>. QED
      BY <1>12, <2>5, <3>1
  <2>. HIDE DEF all, S
  <2>7. DOMAIN all = 1 .. Len(set) + 2
    BY <1>16, <2>6, ScriptShape DEF all
  <2>8. \A j \in DOMAIN all : At(all[j]) = Mark(par, v) => j > Len(all) - 2
    <3>. SUFFICES ASSUME NEW j \in DOMAIN all, j <= Len(set)
                  PROVE  At(all[j]) # Mark(par, v)
      BY <2>5, <2>6, <2>7
    <3>1. all[j] = set[j] /\ j \in DOMAIN set
      BY <2>5, <2>6, <2>7
    <3>. QED
      BY <1>15, <3>1 DEF Range
  <2>9. \A j \in DOMAIN all : all[j].checked
    BY <2>2 DEF Range
  <2>10. Mark(par, v) \in Ats(all)
    BY <1>2, <2>3, SetIs DEF Ats, a
  <2>. HIDE DEF s
  <2>. QED
    BY <1>16, <2>1, <2>8, <2>9, <2>10 DEF s, all, M
<1>. QED
  BY <1>17, <1>18

\* DS-Lite enables the PCP client fourth, after its two settings.
DsliteMark(par) == <<get_pcp_path(par), "Enable">>

LEMMA DsliteShape ==
    ASSUME NEW par, DistinctReferences(par), dslite_layer(par, TRUE) # << >>
    PROVE  LET s == dslite_layer(par, TRUE)
           IN  /\ Len(s) = 6 /\ DOMAIN s = 1 .. 6
               /\ \A j \in 1 .. 6 : At(s[j]) = DsliteMark(par) <=> j = 4
               /\ \A j \in 1 .. 6 : s[j].checked /\ At(s[j])[2] \in {"Enable", "Interface"}
               /\ \A j \in 1 .. 6 : At(s[j])[2] \in Special <=> j = 5
               /\ \A j \in 1 .. 6 : j # 5 => Usual(par, s[j])
<1>. DEFINE client == get_dhcp_path(par, 6)
            dslite == get_dslite_path(par)
            pcp == get_pcp_path(par)
            s == << Enable("DSLite", "on"), Enable(dslite, "on"), Enable("PCP", "on"),
                    Enable(pcp, "on"), Set(client, "Interface", "WANInterface"),
                    Enable(client, "on") >>
<1>1. dslite_layer(par, TRUE) = s
  BY DEF dslite_layer, Given
<1>2. pcp \notin {client, dslite, "DSLite", "PCP"}
  BY DEF DistinctReferences
<1>3. Len(s) = 6
  OBVIOUS
<1>4. s[1] = Enable("DSLite", "on")
  OBVIOUS
<1>5. s[2] = Enable(dslite, "on")
  OBVIOUS
<1>6. s[3] = Enable("PCP", "on")
  OBVIOUS
<1>7. s[4] = Enable(pcp, "on")
  OBVIOUS
<1>8. s[5] = Set(client, "Interface", "WANInterface")
  OBVIOUS
<1>9. s[6] = Enable(client, "on")
  OBVIOUS
<1>10. 1 .. 6 = {1, 2, 3, 4, 5, 6}
  OBVIOUS
<1>11. IsScript(s)
  BY Scripts6
<1>. HIDE DEF s, client, dslite
<1>12. DOMAIN s = 1 .. 6
  BY <1>3, <1>11, ScriptShape
<1>13. \A o : LET w == Enable(o, "on")
              IN  /\ At(w) = <<o, "Enable">> /\ w.checked
                  /\ At(w)[2] \notin Special /\ Usual(par, w)
                  /\ At(w)[2] \in {"Enable", "Interface"}
  BY DEF Enable, Set, At, Special, Usual, UsualValue
<1>14. LET w == Set(client, "Interface", "WANInterface")
       IN  At(w) = <<client, "Interface">> /\ w.checked /\ At(w)[2] \in Special
           /\ At(w)[2] \in {"Enable", "Interface"}
  BY DEF Set, At, Special
<1>15. \A j \in 1 .. 6 : At(s[j]) = DsliteMark(par) <=> j = 4
  BY <1>2, <1>4, <1>5, <1>6, <1>7, <1>8, <1>9, <1>10, <1>13, <1>14 DEF DsliteMark
<1>16. \A j \in 1 .. 6 : s[j].checked /\ At(s[j])[2] \in {"Enable", "Interface"}
  BY <1>4, <1>5, <1>6, <1>7, <1>8, <1>9, <1>10, <1>13, <1>14
<1>17. \A j \in 1 .. 6 : At(s[j])[2] \in Special <=> j = 5
  BY <1>4, <1>5, <1>6, <1>7, <1>8, <1>9, <1>10, <1>13, <1>14
<1>18. \A j \in 1 .. 6 : j # 5 => Usual(par, s[j])
  BY <1>4, <1>5, <1>6, <1>7, <1>9, <1>10, <1>13
<1>. QED
  BY <1>1, <1>3, <1>12, <1>15, <1>16, <1>17, <1>18

\* The scripts of an interface: each is robust, but the lower layer of PPP writes
\* its mark, and DS-Lite has settings before the interface of the DHCPv6 client.
Kind(par, s) ==
    \/ Robust(par, Marks(par), s)
    \/ \E v \in {4, 6} : s = ppp_lower_layer(v, par, TRUE)
    \/ s = dslite_layer(par, TRUE)

LEMMA ControllersKinds ==
    ASSUME NEW par, DistinctReferences(par), NEW v \in {4, 6}, NEW mode
    PROVE  \A s \in Range(controllers(mode, v, par, TRUE)) : Kind(par, s)
<1>. DEFINE own == mode \notin {"none", "link", "dslite"}
            only(cond, script) == IF cond THEN script ELSE << >>
            M == Marks(par)
            a == only(PPP(mode), ppp_lower_layer(v, par, TRUE))
            b == only(own, ip_layer(mode, v, par, TRUE))
            c == only(own, ip_enable(v, par, "on"))
            d == client_layer(mode, v, par, TRUE)
            e == only(mode # "none", logical_layer(mode, v, par, TRUE))
<1>1. controllers(mode, v, par, TRUE) = << a, b, c, d, e >>
  BY DEF controllers
<1>2. Robust(par, M, << >>)
  BY LateScripts, RobustLate
<1>3. Kind(par, a)
  BY <1>2 DEF Kind
<1>4. Kind(par, b)
  BY <1>2, RobustIpv4, RobustIpv6 DEF Kind, ip_layer
<1>5. Kind(par, c)
  BY <1>2, LateIpEnable, RobustLate DEF Kind
<1>6. Kind(par, e)
  BY <1>2, LateLogical, RobustLate DEF Kind
<1>7. Kind(par, d)
  <2>1. /\ Robust(par, M, dhcp4_layer(par, TRUE))
        /\ Robust(par, M, dhcp6_layer(par, TRUE))
        /\ Robust(par, M, ppp_upper_layer(v, par, TRUE))
    BY RobustDhcp4, RobustDhcp6, RobustPppUpper
  <2>2. /\ Robust(par, M, static_layer(v, par, TRUE))
        /\ Robust(par, M, cellular_layer(par, TRUE))
    BY LateStatic, LateCellular, RobustLate
  <2>3. CASE mode = "dslite"
    BY <2>3 DEF client_layer, PPP, Kind
  <2>4. CASE PPP(mode)
    BY <2>1, <2>4 DEF client_layer, PPP, Kind
  <2>5. CASE mode # "dslite" /\ ~PPP(mode)
    BY <1>2, <2>1, <2>2, <2>5 DEF client_layer, PPP, Kind
  <2>. QED
    BY <2>3, <2>4, <2>5
<1>. HIDE DEF a, b, c, d, e
<1>8. Range(<< a, b, c, d, e >>) = {a, b, c, d, e}
  BY Scripts5
<1>. QED
  BY <1>1, <1>3, <1>4, <1>5, <1>6, <1>7, <1>8

LEMMA FullDistinct ==
    ASSUME NEW par \in Interfaces, NEW refused
    PROVE  LET full == Full(par, par, refused)
           IN  DistinctReferences(full) /\ Marks(full) = Marks(par)
<1>1. Alike(Full(par, par, refused), par)
  BY FullIs, InterfacesAssumption
<1>2. DistinctReferences(par)
  BY ReferencesAssumption
<1>. QED
  BY <1>1, <1>2 DEF DistinctReferences, Marks, Alike, get_ip_path, get_dhcp_path,
     get_ppp_path, get_nd_path, get_dslite_path, get_pcp_path

LEMMA Kinds ==
    ASSUME NEW par \in Interfaces, NEW refused
    PROVE  LET full == Full(par, par, refused)
               scripts == wan_mode_intf_enable(par, par, TRUE, refused).scripts
           IN  \A s \in Range(scripts) : Kind(full, s)
<1>. DEFINE full == Full(par, par, refused)
            layers == mode_layers(par, par, TRUE, refused)
            scripts == wan_mode_intf_enable(par, par, TRUE, refused).scripts
<1>1. IsInterface(par)
  BY InterfacesAssumption
<1>2. DistinctReferences(full)
  BY FullDistinct
<1>3. Range(scripts) \subseteq Range(layers) \cup {Plug(par, TRUE)}
  BY <1>1, Turn
<1>4. Kind(full, Plug(par, TRUE))
  <2>1. Plug(full, TRUE) = Plug(par, TRUE)
    BY <1>1, FullIs DEF Plug, Bridged, Alike
  <2>. HIDE DEF full
  <2>. QED
    BY <1>2, <2>1, LatePlug, RobustLate DEF Kind
<1>5. Kind(full, bridge_mode_ctrl_action(full, TRUE))
  BY <1>2, RobustBridge DEF Kind
<1>6. \A v \in {4, 6} : \A mode : \A s \in Range(controllers(mode, v, full, TRUE)) :
         Kind(full, s)
  BY <1>2, ControllersKinds
<1>7. \A s \in Range(layers) : Kind(full, s)
  <2>1. Range(layers) =
          IF ~NoIpMode(par)
          THEN Range(controllers(par.IPv4Mode, 4, full, TRUE))
                 \cup Range(controllers(par.IPv6Mode, 6, full, TRUE))
          ELSE IF Bridged(par) THEN {bridge_mode_ctrl_action(full, TRUE)} ELSE {}
    BY <1>1, ModeLayers
  <2>. HIDE DEF layers, full
  <2>. QED
    BY <1>5, <1>6, <2>1
<1>. QED
  BY <1>3, <1>4, <1>7

LEMMA RobustExcludes ==
    ASSUME NEW par, NEW M, NEW s, Robust(par, M, s)
    PROVE  \A p \in M : p \notin Ats(s)
<1>1. Len(s) \in Nat /\ DOMAIN s = 1 .. Len(s)
  BY ScriptShape DEF Robust
<1>2. \A i \in DOMAIN s : At(s[i]) \notin M
  BY <1>1 DEF Robust, Early, Late
<1>. QED
  BY <1>2 DEF Ats, Range

\* The scripts in which the mark of the lower layer of PPP, and that of DS-Lite,
\* are written.
LEMMA Owner ==
    ASSUME NEW par, DistinctReferences(par), NEW s, Kind(par, s)
    PROVE  /\ \A v \in {4, 6} : Mark(par, v) \in Ats(s) => s = ppp_lower_layer(v, par, TRUE)
           /\ DsliteMark(par) \in Ats(s) => s = dslite_layer(par, TRUE)
<1>1. /\ Mark(par, 4) \in Marks(par) /\ Mark(par, 6) \in Marks(par)
      /\ DsliteMark(par) \in Marks(par)
      /\ Mark(par, 4) # Mark(par, 6)
      /\ \A v \in {4, 6} : Mark(par, v) # DsliteMark(par)
  BY DEF Mark, Marks, DsliteMark
<1>2. CASE Robust(par, Marks(par), s)
  BY <1>1, <1>2, RobustExcludes
<1>3. ASSUME NEW v \in {4, 6}, s = ppp_lower_layer(v, par, TRUE)
      PROVE  /\ \A v_2 \in {4, 6} :
                   Mark(par, v_2) \in Ats(s) => s = ppp_lower_layer(v_2, par, TRUE)
             /\ DsliteMark(par) \in Ats(s) => s = dslite_layer(par, TRUE)
  <2>. DEFINE M == Marks(par) \ {Mark(par, v)}
  <2>1. Robust(par, M, s)
    BY <1>3, PppLowerShape
  <2>. HIDE DEF M
  <2>2. \A p \in M : p \notin Ats(s)
    BY <2>1, RobustExcludes
  <2>3. DsliteMark(par) \in M /\ \A v_2 \in {4, 6} : v_2 = v \/ Mark(par, v_2) \in M
    BY <1>1 DEF M
  <2>. QED
    BY <1>3, <2>2, <2>3
<1>4. CASE s = dslite_layer(par, TRUE)
  <2>1. \A v \in {4, 6} : Mark(par, v)[2] \notin {"Enable", "Interface"}
    BY DEF Mark
  <2>2. \A p \in Ats(s) : p[2] \in {"Enable", "Interface"}
    <3>1. CASE s = << >>
      BY <3>1, Scripts0 DEF Ats
    <3>2. CASE s # << >>
      <4>1. \A j \in DOMAIN s : At(s[j])[2] \in {"Enable", "Interface"}
        BY <1>4, <3>2, DsliteShape
      <4>. QED
        BY <4>1 DEF Ats, Range
    <3>. QED
      BY <3>1, <3>2
  <2>. QED
    BY <1>4, <2>1, <2>2
<1>. QED
  BY <1>2, <1>3, <1>4 DEF Kind

\* A turn after which nothing is unsure has done all it meant.
LEMMA SureDone ==
    ASSUME NEW s, DOMAIN s.value = Params, NEW scripts, AreScripts(scripts), NEW refused,
           Written(s, scripts, refused).unsure = {}
    PROVE  /\ \A p \in Params : p \in s.unsure => p \in Done(scripts, refused)
           /\ \A p \in Meant(scripts) \cap Params :
                 \E i \in DOMAIN scripts : \E j \in Performed(scripts[i], refused) :
                    /\ j \in DOMAIN scripts[i]
                    /\ At(scripts[i][j]) = p
                    /\ p \in Done(scripts, refused)
<1>1. \A p \in Params : p \in s.unsure \cup Meant(scripts) => p \in Done(scripts, refused)
  BY DEF Written
<1>2. ASSUME NEW p \in Done(scripts, refused)
      PROVE  \E i \in DOMAIN scripts : \E j \in Performed(scripts[i], refused) :
                j \in DOMAIN scripts[i] /\ At(scripts[i][j]) = p
  <2>1. PICK at \in Effective(scripts, refused) : At(WriteAt(scripts, at)) = p
    BY <1>2 DEF Done
  <2>2. /\ at[1] \in 1 .. Len(scripts)
        /\ at[2] \in Performed(scripts[at[1]], refused)
    BY <2>1, EffectiveShape
  <2>3. DOMAIN scripts = 1 .. Len(scripts)
    BY ScriptShape DEF AreScripts
  <2>4. at[2] \in DOMAIN scripts[at[1]]
    BY <2>2 DEF Performed
  <2>. QED
    BY <2>1, <2>2, <2>3, <2>4 DEF WriteAt
<1>. QED
  BY <1>1, <1>2

LEMMA MarksParams ==
    ASSUME NEW par \in Interfaces, NEW refused, NEW s \in Range(Unrefused(par))
    PROVE  \A p \in Marks(Full(par, par, refused)) \cap Ats(s) : p \in Params
<1>1. \A p \in Ats(s) : p \in Written_to
  <2>1. Range(s) \subseteq WritesIn(Unrefused(par))
    BY ScriptSets
  <2>. QED
    BY <2>1, InUnrefused DEF Ats
<1>2. \A p \in Marks(Full(par, par, refused)) : ~Setting(p)
  <2>. DEFINE full == Full(par, par, refused)
  <2>1. get_pcp_path(full) \notin {"DSLite", "PCP"}
    BY FullDistinct DEF DistinctReferences
  <2>. HIDE DEF full
  <2>2. \A p \in Marks(full) : ~Setting(p)
    BY <2>1 DEF Marks, Setting
  <2>. QED
    BY <2>2 DEF full
<1>. QED
  BY <1>1, <1>2 DEF Params

\* Such a turn put PPP below the IP interface where it should, so it is made of
\* the same scripts as a turn in which nothing is refused.
LEMMA SureOverride ==
    ASSUME NEW par \in Interfaces, NEW refused, Plugged(par, refused),
           NEW s, DOMAIN s.value = Params,
           Written(s, wan_mode_intf_enable(par, par, TRUE, refused).scripts,
                   refused).unsure = {},
           NEW v \in {4, 6}, NEW mode,
           mode = IF v = 4 THEN par.IPv4Mode ELSE par.IPv6Mode
    PROVE  Override(par, v, mode, refused) = Override(par, v, mode, None)
<1>. DEFINE scripts == wan_mode_intf_enable(par, par, TRUE, refused).scripts
            full == Full(par, par, refused)
            script == ppp_lower_layer(v, Low(par), TRUE)
            set == 1 .. (Len(script) - 2) \subseteq Performed(script, refused)
<1>. SUFFICES ASSUME PPP(mode), script # << >>
              PROVE  set
  BY OverrideIs
<1>1. IsInterface(par)
  BY InterfacesAssumption
<1>2. AreScripts(scripts)
  BY <1>1, Enabling
<1>3. script = ppp_lower_layer(v, full, TRUE) /\ script \in Range(scripts)
  BY PppLowerIn
<1>4. DistinctReferences(full)
  BY FullDistinct
<1>5. /\ \A j \in DOMAIN script : script[j].checked
      /\ \A j \in DOMAIN script : At(script[j]) = Mark(full, v) => j > Len(script) - 2
      /\ Mark(full, v) \in Ats(script)
  BY <1>3, <1>4, PppLowerShape
<1>6. Mark(full, v) \in Params
  <2>1. script \in Range(Unrefused(par))
    BY OverrideIs
  <2>2. Mark(full, v) \in Marks(full)
    BY DEF Mark, Marks
  <2>. QED
    BY <1>5, <2>1, <2>2, MarksParams
<1>7. \A q \in Range(scripts) : Kind(full, q)
  BY Kinds
<1>18. Written(s, scripts, refused).unsure = {}
  OBVIOUS
<1>. HIDE DEF scripts, full, script
<1>8. Mark(full, v) \in Meant(scripts)
  <2>1. Meant(scripts) = AtsOf(scripts)
    BY ScriptSets
  <2>2. Mark(full, v) \in Ats(script) /\ script \in Range(scripts)
    BY <1>3, <1>5
  <2>. QED
    BY <2>1, <2>2 DEF AtsOf
<1>9. PICK i \in DOMAIN scripts : \E j \in Performed(scripts[i], refused) :
         j \in DOMAIN scripts[i] /\ At(scripts[i][j]) = Mark(full, v)
  BY <1>2, <1>6, <1>8, <1>18, SureDone
<1>17. PICK j \in Performed(scripts[i], refused) :
          j \in DOMAIN scripts[i] /\ At(scripts[i][j]) = Mark(full, v)
  BY <1>9
<1>10. scripts[i] = script
  <2>1. scripts[i] \in Range(scripts) /\ Mark(full, v) \in Ats(scripts[i])
    BY <1>17 DEF Range, Ats
  <2>. QED
    BY <1>3, <1>4, <1>7, <2>1, Owner
<1>11. Len(script) \in Nat /\ DOMAIN script = 1 .. Len(script)
  BY <1>2, <1>3, ScriptShape DEF AreScripts
<1>12. j \in 1 .. Len(script) /\ j > Len(script) - 2
  BY <1>5, <1>17, <1>10, <1>11
<1>13. \A k \in 1 .. (j - 1) : script[k].checked => component_set_params(script[k], refused)
  BY <1>17, <1>10 DEF Performed
<1>14. \A k \in 1 .. (j - 1) : k \in DOMAIN script
  BY <1>11, <1>12
<1>15. \A k \in 1 .. (j - 1) : component_set_params(script[k], refused)
  BY <1>5, <1>13, <1>14
<1>16. ASSUME NEW k \in 1 .. (Len(script) - 2)
       PROVE  k \in Performed(script, refused)
  <2>1. /\ k \in 1 .. (j - 1)
        /\ \A l \in 1 .. (k - 1) : l \in 1 .. (j - 1)
    BY <1>11, <1>12
  <2>. QED
    BY <1>14, <1>15, <2>1 DEF Performed
<1>. QED
  BY <1>16

LEMMA SameScripts ==
    ASSUME NEW par \in Interfaces, NEW refused, Plugged(par, refused),
           NEW s, DOMAIN s.value = Params,
           Written(s, wan_mode_intf_enable(par, par, TRUE, refused).scripts,
                   refused).unsure = {}
    PROVE  wan_mode_intf_enable(par, par, TRUE, refused).scripts = Unrefused(par)
<1>1. \A r : Full(par, par, r) =
         Also(Low(par), [LowerLayersV4Override |-> Override(par, 4, par.IPv4Mode, r),
                         LowerLayersV6Override |-> Override(par, 6, par.IPv6Mode, r)])
  BY DEF Full, Overridden, Override
<1>2. Override(par, 4, par.IPv4Mode, refused) = Override(par, 4, par.IPv4Mode, None)
  BY SureOverride
<1>3. Override(par, 6, par.IPv6Mode, refused) = Override(par, 6, par.IPv6Mode, None)
  <2>1. par.IPv6Mode = IF 6 = 4 THEN par.IPv4Mode ELSE par.IPv6Mode
    OBVIOUS
  <2>2. 6 \in {4, 6}
    OBVIOUS
  <2>. DEFINE mode == par.IPv6Mode
  <2>. HIDE DEF mode
  <2>3. Override(par, 6, mode, refused) = Override(par, 6, mode, None)
    BY <2>1, <2>2, SureOverride DEF mode
  <2>. QED
    BY <2>3 DEF mode
<1>4. Full(par, par, refused) = Full(par, par, None)
  BY <1>1, <1>2, <1>3
<1>5. mode_layers(par, par, TRUE, refused) = mode_layers(par, par, TRUE, None)
  <2>1. \A r : mode_layers(par, par, TRUE, r)
                 = IF NoIpMode(par) /\ ~Bridged(par) THEN << >>
                   ELSE IF NoIpMode(par)
                        THEN << bridge_mode_ctrl_action(Full(par, par, r), TRUE) >>
                        ELSE mode_ctrl_action(par, Full(par, par, r), TRUE)
    BY DEF mode_layers, Full, Low
  <2>. QED
    BY <1>4, <2>1
<1>6. \A r : Plugged(par, r) =>
         wan_mode_intf_enable(par, par, TRUE, r).scripts
           = (<< Plug(par, TRUE) >> \o mode_layers(par, par, TRUE, r)) \o << >>
  BY DEF wan_mode_intf_enable, WithPlug, Plugged
<1>7. Plugged(par, None)
  BY InUnrefused
<1>. QED
  BY <1>5, <1>6, <1>7 DEF Unrefused

\* All parameters of a mode are written, so none of the writes on them is the
\* refused one.
LEMMA SureWrites ==
    ASSUME NEW par \in Interfaces, NEW refused,
           NEW s, DOMAIN s.value = Params,
           Written(s, Unrefused(par), refused).unsure = {}
    PROVE  \A w \in WritesIn(Unrefused(par)) :
              /\ component_set_params(w, refused) => component_set_params(w, None)
              /\ At(w) \in Params =>
                    (component_set_params(w, refused) <=> component_set_params(w, None))
<1>. DEFINE scripts == Unrefused(par)
<1>1. AreScripts(scripts)
  BY InUnrefused
<1>. SUFFICES ASSUME NEW w \in WritesIn(scripts)
              PROVE  /\ component_set_params(w, refused) => component_set_params(w, None)
                     /\ At(w) \in Params =>
                           (component_set_params(w, refused)
                              <=> component_set_params(w, None))
  OBVIOUS
<1>2. At(w) # None
  BY InUnrefused
<1>3. ASSUME At(w) \in Params
      PROVE  At(w) # refused
  <2>1. Written(s, scripts, refused).unsure = {}
    OBVIOUS
  <2>. HIDE DEF scripts
  <2>2. At(w) \in Meant(scripts)
    <3>1. w \in UNION {Range(q) : q \in Range(scripts)} /\ Meant(scripts) = AtsOf(scripts)
      BY ScriptSets
    <3>. QED
      BY <3>1 DEF AtsOf, Ats
  <2>3. PICK i \in DOMAIN scripts : \E j \in Performed(scripts[i], refused) :
           j \in DOMAIN scripts[i] /\ At(scripts[i][j]) = At(w)
    BY <1>1, <1>3, <2>1, <2>2, SureDone
  <2>4. PICK j \in Performed(scripts[i], refused) : At(scripts[i][j]) = At(w)
    BY <2>3
  <2>. QED
    BY <2>4 DEF Performed, component_set_params
<1>. QED
  BY <1>2, <1>3 DEF component_set_params

\* What is done when a write is refused is done when none is.
LEMMA SurePerformed ==
    ASSUME NEW par \in Interfaces, NEW refused,
           NEW s, DOMAIN s.value = Params,
           Written(s, Unrefused(par), refused).unsure = {},
           NEW q \in Range(Unrefused(par))
    PROVE  /\ \A i \in DOMAIN q :
                 /\ component_set_params(q[i], refused) => component_set_params(q[i], None)
                 /\ At(q[i]) \in Params =>
                       (component_set_params(q[i], refused)
                          <=> component_set_params(q[i], None))
           /\ Performed(q, refused) \subseteq Performed(q, None)
<1>1. \A i \in DOMAIN q : q[i] \in WritesIn(Unrefused(par))
  <2>1. Range(q) \subseteq WritesIn(Unrefused(par))
    BY ScriptSets
  <2>. QED
    BY <2>1 DEF Range
<1>2. \A i \in DOMAIN q :
         /\ component_set_params(q[i], refused) => component_set_params(q[i], None)
         /\ At(q[i]) \in Params =>
               (component_set_params(q[i], refused) <=> component_set_params(q[i], None))
  BY <1>1, SureWrites
<1>3. \A i \in DOMAIN q : \A j \in 1 .. (i - 1) : j \in DOMAIN q
  BY InUnrefused, ScriptShape DEF AreScripts
<1>. QED
  BY <1>2, <1>3 DEF Performed

\* A parameter with several values is written by the same writes in both.
LEMMA SureSpecial ==
    ASSUME NEW par \in Interfaces, NEW refused,
           NEW s, DOMAIN s.value = Params,
           Written(s, Unrefused(par), refused).unsure = {},
           NEW q \in Range(Unrefused(par)), NEW j \in DOMAIN q,
           At(q[j]) \in Params, At(q[j])[2] \in Special
    PROVE  j \in Performed(q, refused) <=> j \in Performed(q, None)
<1>. DEFINE full == Base(par)
            scripts == Unrefused(par)
            same(i) == component_set_params(q[i], refused) <=> component_set_params(q[i], None)
<1>1. AreScripts(scripts) /\ IsScript(q)
  BY InUnrefused DEF AreScripts
<1>2. Len(q) \in Nat /\ DOMAIN q = 1 .. Len(q)
  BY <1>1, ScriptShape
<1>3. \A i \in DOMAIN q : At(q[i]) \in Params => same(i)
  BY SurePerformed
<1>4. DistinctReferences(full)
  BY FullDistinct DEF Base
<1>5. \A r \in Range(scripts) : Kind(full, r)
  BY Kinds DEF Base, Unrefused
<1>6. \A i \in DOMAIN q : At(q[i]) \in Written_to
  <2>1. Range(q) \subseteq WritesIn(Unrefused(par))
    BY ScriptSets
  <2>. QED
    BY <2>1, InUnrefused DEF Range
<1>7. \A i \in DOMAIN q : Setting(At(q[i])) \/ same(i)
  BY <1>3, <1>6 DEF Params
<1>. HIDE DEF full
<1>8. ASSUME NEW M, Robust(full, M, q)
      PROVE  j \in Performed(q, refused) <=> j \in Performed(q, None)
  <2>1. PICK n \in 0 .. Len(q) :
           /\ \A i \in 1 .. n : Early(full, M, q[i])
           /\ \A i \in (n + 1) .. Len(q) : Late(full, M, q[i])
    BY <1>8 DEF Robust
  <2>2. ~Late(full, M, q[j])
    BY DEF Late, Usual, Params
  <2>3. j \in 1 .. n
    BY <1>2, <2>1, <2>2
  <2>4. \A i \in 1 .. j : i \in 1 .. n /\ i \in DOMAIN q
    BY <1>2, <2>3
  <2>5. \A i \in 1 .. j : ~Setting(At(q[i]))
    BY <2>1, <2>4 DEF Early
  <2>6. \A i \in 1 .. j : same(i)
    BY <1>7, <2>4, <2>5
  <2>7. j \in 1 .. j /\ \A i \in 1 .. (j - 1) : i \in 1 .. j
    BY <2>3
  <2>. QED
    BY <2>6, <2>7 DEF Performed
<1>9. CASE \E v \in {4, 6} : q = ppp_lower_layer(v, full, TRUE)
  BY <1>4, <1>8, <1>9, PppLowerShape
<1>10. CASE q = dslite_layer(full, TRUE)
  <2>1. q # << >>
    OBVIOUS
  <2>2. /\ DOMAIN q = 1 .. 6
        /\ \A i \in 1 .. 6 : At(q[i]) = DsliteMark(full) <=> i = 4
        /\ \A i \in 1 .. 6 : q[i].checked
        /\ \A i \in 1 .. 6 : At(q[i])[2] \in Special <=> i = 5
    BY <1>4, <1>10, <2>1, DsliteShape
  <2>3. j = 5
    BY <2>2
  <2>4. DsliteMark(full) \in Params /\ DsliteMark(full) \in Meant(scripts)
    <3>1. DsliteMark(full) \in Ats(q)
      BY <2>2 DEF Ats, Range
    <3>2. DsliteMark(full) \in Params
      BY <3>1, MarksParams DEF Marks, DsliteMark, full, Base
    <3>3. Meant(scripts) = AtsOf(scripts)
      BY ScriptSets
    <3>. QED
      BY <3>1, <3>2, <3>3 DEF AtsOf
  <2>5. PICK i \in DOMAIN scripts : \E k \in Performed(scripts[i], refused) :
           k \in DOMAIN scripts[i] /\ At(scripts[i][k]) = DsliteMark(full)
    <3>1. Written(s, scripts, refused).unsure = {}
      OBVIOUS
    <3>. HIDE DEF scripts
    <3>. QED
      BY <1>1, <2>4, <3>1, SureDone
  <2>6. PICK k \in Performed(scripts[i], refused) :
           k \in DOMAIN scripts[i] /\ At(scripts[i][k]) = DsliteMark(full)
    BY <2>5
  <2>. HIDE DEF scripts
  <2>7. scripts[i] = q
    <3>1. scripts[i] \in Range(scripts) /\ DsliteMark(full) \in Ats(scripts[i])
      BY <2>5, <2>6 DEF Range, Ats
    <3>. QED
      BY <1>4, <1>5, <1>10, <3>1, Owner
  <2>8. k = 4
    BY <2>2, <2>6, <2>7
  <2>9. \A i_2 \in 1 .. 4 : component_set_params(q[i_2], refused)
    <3>1. component_set_params(q[4], refused)
      BY <2>6, <2>7, <2>8 DEF Performed
    <3>2. \A i_2 \in 1 .. (4 - 1) :
             q[i_2].checked => component_set_params(q[i_2], refused)
      BY <2>6, <2>7, <2>8 DEF Performed
    <3>3. \A i_2 \in 1 .. 4 : i_2 = 4 \/ (i_2 \in 1 .. (4 - 1) /\ i_2 \in 1 .. 6)
      OBVIOUS
    <3>. QED
      BY <2>2, <3>1, <3>2, <3>3
  <2>10. \A i_2 \in 1 .. 4 : component_set_params(q[i_2], None)
    <3>1. \A i_2 \in 1 .. 4 : i_2 \in DOMAIN q
      BY <2>2
    <3>. QED
      BY <2>9, <3>1, SurePerformed
  <2>11. \A i_2 \in 1 .. (5 - 1) : i_2 \in 1 .. 4
    OBVIOUS
  <2>. QED
    BY <1>3, <2>3, <2>9, <2>10, <2>11 DEF Performed
<1>. QED
  BY <1>5, <1>8, <1>9, <1>10 DEF Kind

\* Any other one has the same value whoever writes it.
LEMMA SureUsual ==
    ASSUME NEW par \in Interfaces, NEW w \in WritesIn(Unrefused(par)),
           At(w) \in Params, At(w)[2] \notin Special
    PROVE  w.value = UsualValue(Base(par), At(w)[2])
<1>. DEFINE full == Base(par)
            scripts == Unrefused(par)
<1>1. PICK q \in Range(scripts) : w \in Range(q)
  BY ScriptSets
<1>2. PICK j \in DOMAIN q : w = q[j]
  BY <1>1 DEF Range
<1>3. DistinctReferences(full)
  BY FullDistinct DEF Base
<1>4. Kind(full, q)
  BY Kinds DEF Base, Unrefused
<1>. HIDE DEF full
<1>5. SUFFICES Usual(full, w)
  BY DEF Usual, full
<1>6. ~Setting(At(w))
  BY DEF Params
<1>7. ASSUME NEW M, Robust(full, M, q)
      PROVE  Usual(full, w)
  <2>1. Len(q) \in Nat /\ DOMAIN q = 1 .. Len(q)
    BY <1>7, ScriptShape DEF Robust
  <2>2. Early(full, M, q[j]) \/ Late(full, M, q[j])
    BY <1>7, <2>1 DEF Robust
  <2>. QED
    BY <1>2, <1>6, <2>2 DEF Early, Late
<1>8. CASE \E v \in {4, 6} : q = ppp_lower_layer(v, full, TRUE)
  BY <1>3, <1>7, <1>8, PppLowerShape
<1>9. CASE q = dslite_layer(full, TRUE)
  <2>1. q # << >>
    BY <1>2
  <2>2. /\ DOMAIN q = 1 .. 6
        /\ \A i \in 1 .. 6 : At(q[i])[2] \in Special <=> i = 5
        /\ \A i \in 1 .. 6 : i # 5 => Usual(full, q[i])
    BY <1>3, <1>9, <2>1, DsliteShape
  <2>. QED
    BY <1>2, <2>2
<1>. QED
  BY <1>4, <1>7, <1>8, <1>9 DEF Kind

\* Everything that may be on is written, since nothing keeps enabling from its
\* layers but the port of a bridge.
LEMMA AllMeant ==
    ASSUME NEW par \in Interfaces
    PROVE  \A p \in Switched(par, par) : p \in Meant(Unrefused(par))
<1>. DEFINE scripts == Unrefused(par)
            layers == mode_layers(par, par, TRUE, None)
<1>1. IsInterface(par)
  BY InterfacesAssumption
<1>2. Meant(scripts) = AtsOf(scripts)
  BY ScriptSets
<1>3. Range(scripts) = Range(layers) \cup {Plug(par, TRUE)}
  BY InUnrefused
<1>4. Range(layers) =
        IF ~NoIpMode(par)
        THEN Range(controllers(par.IPv4Mode, 4, Base(par), TRUE))
               \cup Range(controllers(par.IPv6Mode, 6, Base(par), TRUE))
        ELSE IF Bridged(par) THEN {bridge_mode_ctrl_action(Base(par), TRUE)} ELSE {}
  BY <1>1, ModeLayers DEF Base
<1>. HIDE DEF scripts, layers
<1>5. \A p \in Ats(Plug(par, TRUE)) : p \in Meant(scripts)
  BY <1>2, <1>3 DEF AtsOf
<1>6. CASE ~NoIpMode(par)
  <2>1. \A p \in EnabledBy(par, 4, par.IPv4Mode) \cup EnabledBy(par, 6, par.IPv6Mode) :
           p \in Meant(scripts)
    BY <1>2, <1>3, <1>4, <1>6 DEF AtsOf, EnabledBy
  <2>. QED
    BY <1>5, <1>6, <2>1 DEF Switched, scripts
<1>7. CASE NoIpMode(par)
  <2>1. \A p \in BridgeAlone(par) : p \in Meant(scripts)
    BY <1>2, <1>3, <1>4, <1>7 DEF AtsOf, BridgeAlone
  <2>2. EnabledBy(par, 4, "none") = {} /\ EnabledBy(par, 6, "none") = {}
    <3>1. \A v \in {4, 6} : Range(controllers("none", v, Base(par), TRUE)) = {<< >>}
      BY ControllersShape
    <3>. QED
      BY <3>1, Ats0 DEF EnabledBy, AtsOf
  <2>. QED
    BY <1>5, <1>7, <2>1, <2>2 DEF Switched, NoIpMode, scripts
<1>. QED
  BY <1>6, <1>7

(***************************************************************************)
(* The main lemma of FollowsModes: from a setup in which only parameters   *)
(* of the modes are on, a turn that leaves nothing unsure makes the setup  *)
(* of the modes, although a write on a setting may have been refused.      *)
(***************************************************************************)
LEMMA SureValue ==
    ASSUME NEW par \in Interfaces, NEW refused,
           NEW s, DOMAIN s.value = Params,
           On(s) \subseteq Switched(par, par),
           Written(s, Unrefused(par), refused).unsure = {},
           NEW p \in Params
    PROVE  Written(s, Unrefused(par), refused).value[p]
             = Written(AllOff, Unrefused(par), None).value[p]
<1>. DEFINE scripts == Unrefused(par)
            value(r) == WriteAt(scripts, LastOn(p, scripts, r)).value
<1>1. AreScripts(scripts)
  BY InUnrefused
<1>2. Written(s, scripts, refused).value[p]
        = IF p \in Done(scripts, refused) THEN value(refused) ELSE s.value[p]
  BY DEF Written
<1>3. Written(AllOff, scripts, None).value[p]
        = IF p \in Done(scripts, None) THEN value(None) ELSE "off"
  BY DEF Written, AllOff
<1>4. Written(s, scripts, refused).unsure = {}
  OBVIOUS
<1>5. \A q \in Range(scripts) : Performed(q, refused) \subseteq Performed(q, None)
  BY SurePerformed
<1>6. \A i \in DOMAIN scripts : scripts[i] \in Range(scripts)
  BY DEF Range
<1>7. Effective(scripts, refused) \subseteq Effective(scripts, None)
  <2>. HIDE DEF scripts
  <2>. QED
    BY <1>5, <1>6 DEF Effective
<1>8. Done(scripts, refused) \subseteq Done(scripts, None)
  BY <1>7 DEF Done
<1>9. \A r : \A at \in Effective(scripts, r) :
         /\ at[1] \in DOMAIN scripts
         /\ at[2] \in DOMAIN scripts[at[1]]
         /\ at[2] \in Performed(scripts[at[1]], r)
         /\ at = <<at[1], at[2]>>
  <2>. TAKE r
  <2>1. DOMAIN scripts = 1 .. Len(scripts)
    BY <1>1, ScriptShape DEF AreScripts
  <2>. HIDE DEF scripts
  <2>. QED
    BY <1>1, <2>1, EffectiveShape DEF Performed
<1>10. \A r : \A at \in Effective(scripts, r) : WriteAt(scripts, at) \in WritesIn(scripts)
  BY <1>6, <1>9 DEF WriteAt, WritesIn, Range
<1>11. Done(scripts, None) \subseteq Meant(scripts)
  BY <1>10 DEF Done, Meant, WritesIn
<1>12. CASE p \notin Meant(scripts)
  <2>1. p \notin Done(scripts, refused) /\ p \notin Done(scripts, None)
    BY <1>8, <1>11, <1>12
  <2>2. p \notin Switched(par, par)
    BY <1>12, AllMeant
  <2>3. p \notin s.unsure
    <3>. HIDE DEF scripts
    <3>. QED
      BY <1>1, <1>4, <2>1, SureDone
  <2>4. s.value[p] = "off"
    BY <2>2, <2>3 DEF On
  <2>. QED
    BY <1>2, <1>3, <2>1, <2>4
<1>13. CASE p \in Meant(scripts)
  <2>1. p \in Done(scripts, refused) /\ p \in Done(scripts, None)
    <3>1. p \in Done(scripts, refused)
      <4>. HIDE DEF scripts
      <4>. QED
        BY <1>1, <1>4, <1>13, SureDone
    <3>. QED
      BY <1>8, <3>1
  <2>2. \A r : p \in Done(scripts, r) =>
           LastOn(p, scripts, r) \in EffectiveOn(p, scripts, r)
    BY <1>1, LastIsLast
  <2>3. CASE p[2] \in Special
    <3>1. ASSUME NEW i \in DOMAIN scripts, NEW j \in DOMAIN scripts[i], At(scripts[i][j]) = p
          PROVE  j \in Performed(scripts[i], refused) <=> j \in Performed(scripts[i], None)
      BY <1>6, <2>3, <3>1, SureSpecial
    <3>2. EffectiveOn(p, scripts, None) \subseteq EffectiveOn(p, scripts, refused)
      <4>. SUFFICES ASSUME NEW at \in EffectiveOn(p, scripts, None)
                    PROVE  at \in Effective(scripts, refused)
        BY DEF EffectiveOn
      <4>1. at \in Effective(scripts, None) /\ At(WriteAt(scripts, at)) = p
        BY DEF EffectiveOn
      <4>2. /\ at[1] \in DOMAIN scripts
            /\ at[2] \in Performed(scripts[at[1]], refused)
            /\ at = <<at[1], at[2]>>
        BY <1>9, <3>1, <4>1 DEF WriteAt
      <4>. DEFINE i == at[1]
                  j == at[2]
      <4>3. at = <<i, j>> /\ i \in DOMAIN scripts /\ j \in Performed(scripts[i], refused)
        BY <4>2
      <4>. HIDE DEF i, j, scripts
      <4>4. <<i, j>> \in {i} \X Performed(scripts[i], refused)
        BY <4>3
      <4>. QED
        BY <4>3, <4>4 DEF Effective
    <3>3. EffectiveOn(p, scripts, None) = EffectiveOn(p, scripts, refused)
      BY <1>7, <3>2 DEF EffectiveOn
    <3>4. LastOn(p, scripts, None) = LastOn(p, scripts, refused)
      BY <3>3 DEF LastOn
    <3>. QED
      BY <1>2, <1>3, <2>1, <3>4
  <2>4. CASE p[2] \notin Special
    <3>1. ASSUME NEW r, p \in Done(scripts, r)
          PROVE  value(r) = UsualValue(Base(par), p[2])
      <4>1. LastOn(p, scripts, r) \in EffectiveOn(p, scripts, r)
        BY <2>2, <3>1
      <4>. DEFINE w == WriteAt(scripts, LastOn(p, scripts, r))
      <4>2. w \in WritesIn(scripts) /\ At(w) = p
        BY <1>10, <4>1 DEF EffectiveOn
      <4>. QED
        BY <2>4, <4>2, SureUsual
    <3>. QED
      BY <1>2, <1>3, <2>1, <3>1
  <2>. QED
    BY <2>3, <2>4
<1>. QED
  BY <1>12, <1>13

LEMMA SureTurn ==
    ASSUME StateType, NEW refused, NEW s, DOMAIN s.value = Params,
           On(s) \subseteq Switched(intf, intf),
           wan_mode_intf_enable(intf, intf, TRUE, refused).ok,
           Written(s, wan_mode_intf_enable(intf, intf, TRUE, refused).scripts,
                   refused).unsure = {}
    PROVE  Written(s, wan_mode_intf_enable(intf, intf, TRUE, refused).scripts,
                   refused).value = Expected
<1>. DEFINE scripts == wan_mode_intf_enable(intf, intf, TRUE, refused).scripts
            t == Written(s, Unrefused(intf), refused)
<1>1. intf \in Interfaces
  BY DEF StateType
<1>2. Plugged(intf, refused)
  BY DEF wan_mode_intf_enable, WithPlug, Plugged
<1>3. scripts = Unrefused(intf)
  BY <1>1, <1>2, SameScripts
<1>4. \A p \in Params : t.value[p] = Expected[p]
  <2>1. Written(s, Unrefused(intf), refused).unsure = {}
    BY <1>3
  <2>2. Expected = Written(AllOff, Unrefused(intf), None).value
    BY DEF Expected, Unrefused
  <2>. QED
    BY <1>1, <2>1, <2>2, SureValue
<1>5. t.value = [p \in Params |-> t.value[p]]
  BY DEF Written
<1>6. Expected = [p \in Params |-> Expected[p]]
  BY DEF Expected, Written, AllOff
<1>. HIDE DEF t
<1>7. t.value = Expected
  BY <1>4, <1>5, <1>6
<1>. QED
  BY <1>3, <1>7 DEF t

(***************************************************************************)
(* The invariant of FollowsModes.  A queued change of an IP mode may make  *)
(* the setup differ from the modes, unless its event will be ignored.      *)
(***************************************************************************)
Current == Ignored \/ \A i \in DOMAIN events : events[i].of = "WANMode"

FollowsInv ==
    status = "Enabled" /\ setup.unsure = {} /\ Current => setup.value = Expected

LEMMA SureEnabled ==
    ASSUME StateType, StatusInv, OnInv, Shown(events) = "no", NEW refused,
           wan_mode_enable(TRUE, refused), intf' = intf
    PROVE  FollowsInv'
<1>. DEFINE act == wan_mode_intf_enable(intf, intf, TRUE, refused)
<1>1. On(setup) = {}
  BY DEF OnInv, StatusInv
<1>2. /\ setup' = Written(setup, act.scripts, refused)
      /\ status' = IF act.ok THEN "Enabled" ELSE "Error"
  BY DEF wan_mode_enable
<1>3. Expected' = Expected
  BY DEF Expected
<1>4. ASSUME status' = "Enabled", setup'.unsure = {}
      PROVE  setup'.value = Expected
  <2>1. act.ok
    BY <1>2, <1>4
  <2>2. Written(setup, act.scripts, refused).unsure = {}
    BY <1>2, <1>4
  <2>3. On(setup) \subseteq Switched(intf, intf)
    BY <1>1
  <2>4. Written(setup, act.scripts, refused).value = Expected
    BY <2>1, <2>2, <2>3, SureTurn DEF StateType
  <2>. QED
    BY <1>2, <2>4
<1>. QED
  BY <1>3, <1>4 DEF FollowsInv

LEMMA FollowsAfterEvent ==
    ASSUME LeftInv, FollowsInv, HandleEvent
    PROVE  FollowsInv'
<1>. DEFINE event == events[1]
<1>. USE DEF LeftInv
<1>1. /\ events # << >> /\ events' = Tail(events)
      /\ UNCHANGED <<intf, OperationMode, listed>>
  BY DEF HandleEvent
<1>2. /\ Head(events) = event /\ 1 \in DOMAIN events
      /\ event \in ModeEvents \cup ListEvents
      /\ DOMAIN events = 1 .. Len(events) /\ Len(events) \in Nat /\ Len(events) # 0
      /\ Tail(events) \in Seq(ModeEvents \cup ListEvents)
      /\ Len(Tail(events)) = Len(events) - 1
      /\ \A i \in DOMAIN Tail(events) :
            Tail(events)[i] = events[i + 1] /\ i + 1 \in DOMAIN events
  BY <1>1, QueueShape DEF StateType
<1>3. PICK refused :
        \/ event.of = "WANMode" /\ wan_mode_set(event.from, event.to, refused)
        \/ event.of # "WANMode" /\ ip_mode_toggled(event, refused)
  BY <1>2 DEF HandleEvent
<1>4. Ignored' = Ignored /\ Expected' = Expected
  BY <1>1 DEF Ignored, Expected
<1>5. \A i \in DOMAIN Tail(events) : Tail(events)[i].of # "WANMode"
  BY <1>1, Handled DEF StateType
<1>6. Current' => Ignored \/ \A i \in DOMAIN Tail(events) : Tail(events)[i].of = "WANMode"
  BY <1>1, <1>4 DEF Current
<1>7. \A i \in DOMAIN events : i = 1 \/ (i - 1 \in DOMAIN Tail(events) /\ (i - 1) + 1 = i)
  <2>1. DOMAIN Tail(events) = 1 .. Len(Tail(events))
    BY <1>2, LenProperties
  <2>. QED
    BY <1>2, <2>1
<1>8. ASSUME UNCHANGED <<status, setup>>, event.of = "WANMode" \/ Ignored
      PROVE  FollowsInv'
  <2>1. Current' => Current
    <3>. SUFFICES ASSUME Current', ~Ignored, NEW i \in DOMAIN events
                  PROVE  events[i].of = "WANMode"
      BY DEF Current
    <3>1. CASE i = 1
      BY <1>8, <3>1
    <3>2. CASE i # 1
      BY <1>2, <1>6, <1>7, <3>2
    <3>. QED
      BY <3>1, <3>2
  <2>. QED
    BY <1>4, <1>8, <2>1 DEF FollowsInv
<1>. HIDE DEF event
<1>9. CASE event.of = "WANMode" /\ wan_mode_set(event.from, event.to, refused)
  <2>1. event.from = Shown(events)
    BY <1>1, <1>9 DEF Shown, event
  <2>2. CASE UNCHANGED <<status, setup>>
    BY <1>8, <1>9, <2>2
  <2>3. CASE event.from = "no" /\ wan_mode_enable(TRUE, refused)
    BY <1>1, <2>1, <2>3, SureEnabled
  <2>4. CASE wan_mode_enable(FALSE, refused)
    <3>1. status' = "Disabled"
      BY <2>4 DEF wan_mode_enable
    <3>. QED
      BY <3>1 DEF FollowsInv
  <2>. QED
    BY <1>9, <2>2, <2>3, <2>4 DEF wan_mode_set
<1>10. CASE event.of # "WANMode" /\ Ignored /\ UNCHANGED <<setup, status>>
  BY <1>8, <1>10
<1>11. CASE /\ event.of # "WANMode"
            /\ ~Ignored
            /\ Toggled(wan_mode_intf_enable(intf, Before(event), FALSE, refused),
                       wan_mode_intf_enable(intf, intf, TRUE, refused), refused)
  <2>. DEFINE disable == wan_mode_intf_enable(intf, Before(event), FALSE, refused)
              enable == wan_mode_intf_enable(intf, intf, TRUE, refused)
              disabled == Written(setup, disable.scripts, refused)
  <2>. SUFFICES ASSUME status' = "Enabled", setup'.unsure = {}, Current'
                PROVE  setup'.value = Expected
    BY <1>4 DEF FollowsInv
  <2>1. /\ disable.ok /\ enable.ok
        /\ setup' = Written(disabled, enable.scripts, refused)
    BY <1>11 DEF Toggled
  <2>2. DOMAIN Tail(events) = {}
    BY <1>5, <1>6, <1>11
  <2>3. Queued(intf', events') = {}
    BY <1>1, <2>2 DEF Queued
  <2>4. status # "Disabled"
    BY <1>11 DEF Ignored, StatusInv, Shown, event
  <2>5. On(setup) \subseteq Switched(intf, intf) \cup Leftover(intf, event)
    <3>1. Queued(intf, events) \subseteq Leftover(intf, event) \cup Queued(intf', events')
      BY <1>1, Handled DEF StateType, event
    <3>. QED
      BY <1>11, <2>3, <2>4, <3>1 DEF OnInv
  <2>6. On(disabled) \subseteq On(setup) \ Switched(intf, Before(event))
    BY Off DEF StateType
  <2>7. Leftover(intf, event) \subseteq Switched(intf, Before(event))
    BY <1>2, <1>11, LeftoverBefore DEF StateType
  <2>8. DOMAIN disabled.value = Params
    BY WrittenType DEF StateType
  <2>. HIDE DEF disable, enable, disabled
  <2>9. On(disabled) \subseteq Switched(intf, intf)
    BY <2>5, <2>6, <2>7
  <2>10. Written(disabled, enable.scripts, refused).unsure = {}
    BY <2>1
  <2>11. Written(disabled, enable.scripts, refused).value = Expected
    BY <2>1, <2>8, <2>9, <2>10, SureTurn DEF enable
  <2>. QED
    BY <2>1, <2>11
<1>. QED
  BY <1>3, <1>9, <1>10, <1>11 DEF ip_mode_toggled

LEMMA FollowsStep ==
    ASSUME Disturbances = {}, LeftInv, FollowsInv, [Next]_vars
    PROVE  FollowsInv'
<1>. USE DEF LeftInv
<1>1. ASSUME NEW version, NEW mode, set_intf_ip_mode(version, mode)
      PROVE  FollowsInv'
  <2>. DEFINE event == [of |-> IF version = 4 THEN "IPv4Mode" ELSE "IPv6Mode",
                        from |-> intf[IF version = 4 THEN "IPv4Mode" ELSE "IPv6Mode"]]
  <2>1. /\ status = "Disabled" \/ ~Ignored
        /\ events' = Append(events, event)
        /\ UNCHANGED <<OperationMode, listed, status, setup>>
    BY <1>1 DEF set_intf_ip_mode
  <2>2. CASE status = "Disabled"
    BY <2>1, <2>2 DEF FollowsInv
  <2>3. CASE ~Ignored
    <3>1. events \in Seq(ModeEvents \cup ListEvents) /\ Len(events) \in Nat
      BY QueueShape DEF StateType, QueueType
    <3>2. /\ Len(events) + 1 \in DOMAIN events'
          /\ events'[Len(events) + 1] = event
      <4>. DEFINE S == ModeEvents \cup ListEvents \cup {event}
      <4>1. events \in Seq(S) /\ event \in S
        BY <3>1, SeqMonotonic
      <4>. HIDE DEF S, event
      <4>2. /\ DOMAIN Append(events, event) = 1 .. (Len(events) + 1)
            /\ Append(events, event)[Len(events) + 1] = event
        BY <4>1, AppendShape
      <4>. QED
        BY <2>1, <3>1, <4>2
    <3>3. event.of # "WANMode"
      OBVIOUS
    <3>4. ~Ignored'
      BY <2>1, <2>3 DEF Ignored
    <3>. HIDE DEF event
    <3>. QED
      BY <3>2, <3>3, <3>4 DEF FollowsInv, Current
  <2>. QED
    BY <2>1, <2>2, <2>3
<1>2. ASSUME MaySwitch, UNCHANGED <<intf, status, setup>>
      PROVE  FollowsInv'
  <2>1. Current
    BY <1>2, EmptyQueue DEF Current
  <2>2. Expected' = Expected
    BY <1>2 DEF Expected
  <2>. QED
    BY <1>2, <2>1, <2>2 DEF FollowsInv
<1>3. ASSUME NEW where, _setWANMode(where)
      PROVE  FollowsInv'
  BY <1>2, <1>3 DEF _setWANMode
<1>4. ASSUME NEW mode, WriteOperationMode(mode)
      PROVE  FollowsInv'
  BY <1>2, <1>4 DEF WriteOperationMode
<1>5. ASSUME NEW where, autosensing_set_wan_mode(where)
      PROVE  FollowsInv'
  <2>1. MaySwitch /\ intf' = intf
    BY <1>5 DEF autosensing_set_wan_mode
  <2>2. PICK refused : wan_mode_set(listed, where, refused)
    BY <1>5 DEF autosensing_set_wan_mode
  <2>3. Shown(events) = listed
    BY <2>1, EmptyQueue DEF Shown
  <2>4. CASE UNCHANGED <<status, setup>>
    BY <1>2, <2>1, <2>4
  <2>5. CASE listed = "no" /\ wan_mode_enable(TRUE, refused)
    BY <2>1, <2>3, <2>5, SureEnabled
  <2>6. CASE wan_mode_enable(FALSE, refused)
    <3>1. status' = "Disabled"
      BY <2>6 DEF wan_mode_enable
    <3>. QED
      BY <3>1 DEF FollowsInv
  <2>. QED
    BY <2>2, <2>4, <2>5, <2>6 DEF wan_mode_set
<1>6. ASSUME HandleEvent
      PROVE  FollowsInv'
  BY <1>6, FollowsAfterEvent
<1>7. CASE UNCHANGED vars
  BY <1>7 DEF vars, FollowsInv, Current, Ignored, Expected
<1>. QED
  BY <1>1, <1>3, <1>4, <1>5, <1>6, <1>7 DEF Next

(***************************************************************************)
(* The interface follows its modes (FollowsModes): whatever changes of IP  *)
(* modes and of WANMode came before, and whichever writes were refused,    *)
(* once their events are handled, Status says Enabled and every last write *)
(* had its effect, the other components hold exactly what enabling the     *)
(* current modes from nothing sets.  The order of the writes in the        *)
(* handlers makes it so: a parameter that takes several values is written  *)
(* before the settings that may be refused, and where DS-Lite and PPP have *)
(* it otherwise, the same handler ends with a write that no other one      *)
(* makes: were it not performed, its parameter would be left unsure.       *)
(***************************************************************************)
THEOREM InterfaceFollowsItsModes ==
    ASSUME Disturbances = {}, BridgedModes
    PROVE  Spec => []FollowsModes
<1>. DEFINE Inv == LeftInv /\ FollowsInv
<1>1. Init => Inv
  <2>1. Init => FollowsInv
    BY DEF Init, FollowsInv
  <2>. QED
    BY <2>1, LeftInit
<1>2. Inv /\ [Next]_vars => Inv'
  <2>1. LeftInv /\ [Next]_vars => LeftInv'
    BY StateStep, QueueStep, OnStep DEF LeftInv
  <2>. QED
    BY <2>1, FollowsStep
<1>3. Inv => FollowsModes
  <2>1. SUFFICES ASSUME Inv, Settled, status = "Enabled", setup.unsure = {}
                 PROVE  setup.value = Expected
    BY DEF FollowsModes
  <2>2. Current
    BY <2>1 DEF Current, Settled
  <2>. QED
    BY <2>1, <2>2 DEF FollowsInv
<1>. QED
  BY <1>1, <1>2, <1>3, PTL DEF Spec
===============================================================================
