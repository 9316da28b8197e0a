---------------------------- MODULE SetupProofs ----------------------------
(***************************************************************************)
(* Proofs about ServiceSetup and StackEnv.                                 *)
(***************************************************************************)
EXTENDS ServiceSetup, StackEnv, SequenceTheorems, FiniteSetTheorems, TLAPS

USE InstanceNamesAssumption, MaxInstancesAssumption

-----------------------------------------------------------------------------
(* Sequences                                                               *)

LEMMA SeqOfFcn ==
  ASSUME NEW n \in Nat, NEW S, NEW f \in [1..n -> S]
  PROVE  f \in Seq(S) /\ Len(f) = n
  <1>1. f \in Seq(S)
    BY SeqDef
  <1> QED
    BY <1>1, LenProperties

LEMMA Tuples ==
  ASSUME NEW S, NEW x \in S, NEW y \in S, NEW z \in S
  PROVE  /\ <<x>> \in Seq(S) /\ Len(<<x>>) = 1 /\ <<x>>[1] = x
         /\ <<x, y>> \in Seq(S) /\ Len(<<x, y>>) = 2 /\ <<x, y>>[1] = x
         /\ <<x, y, z>> \in Seq(S) /\ Len(<<x, y, z>>) = 3
  OBVIOUS

Cat(s, t) == s \o t

LEMMA CatIs ==
  ASSUME NEW S, NEW s \in Seq(S), NEW t \in Seq(S)
  PROVE  /\ Cat(s, t) \in Seq(S) /\ Len(s) \in Nat /\ Len(t) \in Nat
         /\ Len(Cat(s, t)) = Len(s) + Len(t)
         /\ \A k \in 1..Len(Cat(s, t)) : Cat(s, t)[k] = IF k <= Len(s) THEN s[k] ELSE t[k - Len(s)]
  BY ConcatProperties, LenProperties DEF Cat

Words ==
    Kinds \cup {"X", "HTTP", "_", "DSN", "ADDR", "URL", "BROKERS", "BASE_URL", "ENDPOINT", "REGION",
                "ACCESS_KEY_ID", "SECRET_ACCESS_KEY"}

(* (Lengths and elements apart: the provers take them best that way.)      *)
LEMMA FourPartsLength ==
  ASSUME NEW a \in Seq(Words), NEW e \in Seq(Words), NEW b \in Seq(Words), NEW f \in Seq(Words),
         Len(a) = 2, Len(b) = 1
  PROVE  Len(Cat(Cat(Cat(a, e), b), f)) = Len(e) + 3 + Len(f)
  <1>1. /\ Cat(a, e) \in Seq(Words)
        /\ Len(e) \in Nat /\ Len(f) \in Nat /\ Len(Cat(a, e)) = Len(a) + Len(e)
    BY CatIs
  <1>2. PICK ae \in Seq(Words) : ae = Cat(a, e)
    BY <1>1
  <1>3. /\ Cat(ae, b) \in Seq(Words) /\ Len(Cat(ae, b)) = Len(ae) + Len(b)
    BY CatIs
  <1>4. PICK aeb \in Seq(Words) : aeb = Cat(ae, b)
    BY <1>3
  <1>5. Len(Cat(aeb, f)) = Len(aeb) + Len(f)
    BY CatIs
  <1> QED
    BY <1>1, <1>2, <1>3, <1>4, <1>5

LEMMA FourParts ==
  ASSUME NEW a \in Seq(Words), NEW e \in Seq(Words), NEW b \in Seq(Words), NEW f \in Seq(Words),
         Len(a) = 2, Len(b) = 1
  PROVE  LET v == Cat(Cat(Cat(a, e), b), f) IN
         /\ v[1] = a[1]
         /\ \A k \in 1..Len(e) : v[2 + k] = e[k]
         /\ v[Len(e) + 3] = b[1]
         /\ \A k \in (Len(e) + 4)..(Len(e) + 3 + Len(f)) : v[k] = f[k - (Len(e) + 3)]
  <1>1. PICK n \in Nat : n = Len(e)
    BY LenProperties
  <1>11. PICK ae : ae = Cat(a, e)
    OBVIOUS
  <1>12. PICK aeb : aeb = Cat(ae, b)
    OBVIOUS
  <1>13. PICK v : v = Cat(aeb, f)
    OBVIOUS
  <1>14. /\ ae \in Seq(Words) /\ Len(ae) = 2 + n
        /\ \A k \in 1..(2 + n) : ae[k] = IF k <= 2 THEN a[k] ELSE e[k - 2]
    <2>1. Cat(a, e) \in Seq(Words) /\ Len(Cat(a, e)) = Len(a) + Len(e)
      BY <1>1, CatIs
    <2>2. \A k \in 1..Len(Cat(a, e)) : Cat(a, e)[k] = IF k <= Len(a) THEN a[k] ELSE e[k - Len(a)]
      BY <1>1, CatIs
    <2>3. ae \in Seq(Words) /\ Len(ae) = 2 + n
      BY <1>1, <1>11, <2>1
    <2>4. \A k \in 1..(2 + n) : ae[k] = IF k <= 2 THEN a[k] ELSE e[k - 2]
      BY <1>1, <1>11, <2>2, <2>1
    <2> QED
      BY <2>3, <2>4
  <1>15. /\ aeb \in Seq(Words) /\ Len(aeb) = n + 3
        /\ \A k \in 1..(n + 3) : aeb[k] = IF k <= 2 + n THEN ae[k] ELSE b[k - (2 + n)]
    <2>1. Cat(ae, b) \in Seq(Words) /\ Len(Cat(ae, b)) = Len(ae) + Len(b)
      BY <1>1, <1>14, CatIs
    <2>2. \A k \in 1..Len(Cat(ae, b)) : Cat(ae, b)[k] = IF k <= Len(ae) THEN ae[k] ELSE b[k - Len(ae)]
      BY <1>1, <1>14, CatIs
    <2>3. aeb \in Seq(Words) /\ Len(aeb) = n + 3
      BY <1>1, <1>12, <1>14, <2>1
    <2>4. \A k \in 1..(n + 3) : aeb[k] = IF k <= 2 + n THEN ae[k] ELSE b[k - (2 + n)]
      BY <1>1, <1>12, <1>14, <2>2, <2>1
    <2> QED
      BY <2>3, <2>4
  <1>16. /\ v \in Seq(Words) /\ Len(f) \in Nat /\ Len(v) = n + 3 + Len(f)
        /\ \A k \in 1..(n + 3 + Len(f)) : v[k] = IF k <= n + 3 THEN aeb[k] ELSE f[k - (n + 3)]
    <2>1. Cat(aeb, f) \in Seq(Words) /\ Len(f) \in Nat /\ Len(Cat(aeb, f)) = Len(aeb) + Len(f)
      BY <1>1, <1>15, CatIs
    <2>2. \A k \in 1..Len(Cat(aeb, f)) : Cat(aeb, f)[k] = IF k <= Len(aeb) THEN aeb[k] ELSE f[k - Len(aeb)]
      BY <1>1, <1>15, CatIs
    <2>3. v \in Seq(Words) /\ Len(f) \in Nat /\ Len(v) = n + 3 + Len(f)
      BY <1>1, <1>13, <1>15, <2>1
    <2>4. \A k \in 1..(n + 3 + Len(f)) : v[k] = IF k <= n + 3 THEN aeb[k] ELSE f[k - (n + 3)]
      BY <1>1, <1>13, <1>15, <2>2, <2>1
    <2> QED
      BY <2>3, <2>4
  <1>17. v[1] = a[1] /\ v[2] = a[2]
    BY <1>1, <1>14, <1>15, <1>16
  <1>18. v[n + 3] = b[1]
    <2>1. n + 3 \in 1..(n + 3) /\ n + 3 \in 1..(n + 3 + Len(f)) /\ ~(n + 3 <= 2 + n)
      BY <1>16
    <2>2. v[n + 3] = aeb[n + 3]
      BY <1>16, <2>1
    <2>3. aeb[n + 3] = b[(n + 3) - (2 + n)]
      BY <1>15, <2>1
    <2>4. (n + 3) - (2 + n) = 1
      OBVIOUS
    <2> QED
      BY <2>2, <2>3, <2>4
  <1>19. \A k \in 1..n : v[2 + k] = e[k]
    BY <1>1, <1>14, <1>15, <1>16
  <1>20. \A k \in (n + 4)..(n + 3 + Len(f)) : v[k] = f[k - (n + 3)]
    BY <1>1, <1>16
  <1> QED
    BY <1>1, <1>11, <1>12, <1>13, <1>17, <1>18, <1>19, <1>20

-----------------------------------------------------------------------------
(* Names of variables                                                      *)

LEMMA FragmentIs ==
  ASSUME NEW n \in InstanceNames
  PROVE  /\ n \in Seq(Tokens)
         /\ EnvFragment(n) \in Seq({"X", "HTTP", "_"})
         /\ Len(EnvFragment(n)) = Len(n)
         /\ \A k \in 1..Len(n) :
               EnvFragment(n)[k] = CASE n[k] = "x" -> "X" [] n[k] = "http" -> "HTTP" [] OTHER -> "_"
  <1>1. n \in Seq(Tokens) /\ DOMAIN n = 1..Len(n) /\ Len(n) \in Nat
    OBVIOUS
  <1> DEFINE Of(k) == CASE n[k] = "x" -> "X" [] n[k] = "http" -> "HTTP" [] OTHER -> "_"
  <1>2. \A k \in 1..Len(n) : Of(k) \in {"X", "HTTP", "_"}
    OBVIOUS
  <1>3. EnvFragment(n) = [k \in 1..Len(n) |-> Of(k)]
    BY <1>1 DEF EnvFragment
  <1> HIDE DEF Of
  <1>4. EnvFragment(n) \in [1..Len(n) -> {"X", "HTTP", "_"}]
    BY <1>2, <1>3
  <1>5. EnvFragment(n) \in Seq({"X", "HTTP", "_"}) /\ Len(EnvFragment(n)) = Len(n)
    BY <1>1, <1>4, SeqOfFcn
  <1>6. \A k \in 1..Len(n) : EnvFragment(n)[k] = Of(k)
    BY <1>3
  <1> QED
    BY <1>1, <1>5, <1>6 DEF Of

(* Names whose fragments agree differ by dash and underscore alone.        *)
LEMMA FragmentTells ==
  ASSUME NEW n \in InstanceNames, NEW m \in InstanceNames, NEW k \in 1..Len(n), NEW l \in 1..Len(m),
         EnvFragment(n)[k] = EnvFragment(m)[l]
  PROVE  n[k] = m[l] \/ {n[k], m[l]} \subseteq {"-", "_"}
  <1>1. n \in Seq(Tokens) /\ m \in Seq(Tokens)
    BY FragmentIs
  <1>2. n[k] \in Tokens
    BY <1>1, ElementOfSeq
  <1>3. m[l] \in Tokens
    BY <1>1, ElementOfSeq
  <1>4. EnvFragment(n)[k] = CASE n[k] = "x" -> "X" [] n[k] = "http" -> "HTTP" [] OTHER -> "_"
    BY FragmentIs
  <1>5. EnvFragment(m)[l] = CASE m[l] = "x" -> "X" [] m[l] = "http" -> "HTTP" [] OTHER -> "_"
    BY FragmentIs
  <1>6. \A u, v \in Tokens :
            (CASE u = "x" -> "X" [] u = "http" -> "HTTP" [] OTHER -> "_")
                = (CASE v = "x" -> "X" [] v = "http" -> "HTTP" [] OTHER -> "_")
            => u = v \/ {u, v} \subseteq {"-", "_"}
    BY DEF Tokens
  <1> QED
    BY <1>2, <1>3, <1>4, <1>5, <1>6

LEMMA FieldIs ==
  ASSUME NEW i \in Instances, NEW f \in Fields(i.kind)
  PROVE  f \in Seq(Words) /\ Len(f) \in {1, 3} /\ i.kind \in Words
  <1>1. i.kind \in Kinds
    BY DEF Instances
  <1>2. f = <<"HTTP", "_", "DSN">> \/ \E x \in Words : f = <<x>>
    BY <1>1 DEF Fields, Kinds, Words
  <1>3. f \in Seq(Words) /\ Len(f) \in {1, 3}
    <2>1. CASE f = <<"HTTP", "_", "DSN">>
      <3>1. "HTTP" \in Words /\ "_" \in Words /\ "DSN" \in Words
        BY DEF Words
      <3> QED
        BY <2>1, <3>1, Tuples
    <2>2. ASSUME NEW x \in Words, f = <<x>>
          PROVE  f \in Seq(Words) /\ Len(f) \in {1, 3}
      BY <2>2, Tuples
    <2> QED
      BY <1>2, <2>1, <2>2
  <1> QED
    BY <1>1, <1>3 DEF Words

(* A variable, position by position.                                       *)
LEMMA VariableIs ==
  ASSUME NEW i \in Instances, NEW f \in Fields(i.kind)
  PROVE  /\ i.name \in Seq(Tokens) /\ Len(i.name) \in Nat
         /\ Len(Variable(i, f)) = Len(i.name) + 3 + Len(f)
         /\ Variable(i, f)[1] = i.kind
         /\ \A k \in 1..Len(i.name) : Variable(i, f)[2 + k] = EnvFragment(i.name)[k]
         /\ Variable(i, f)[Len(i.name) + 3] = "_"
         /\ \A k \in (Len(i.name) + 4)..(Len(i.name) + 3 + Len(f)) :
                Variable(i, f)[k] = f[k - (Len(i.name) + 3)]
  <1>1. i.name \in InstanceNames
    BY DEF Instances
  <1>2. f \in Seq(Words) /\ i.kind \in Words
    BY FieldIs
  <1>3. PICK e : e = EnvFragment(i.name)
    OBVIOUS
  <1>4. i.name \in Seq(Tokens) /\ Len(i.name) \in Nat /\ e \in Seq(Words) /\ Len(e) = Len(i.name)
    <2>1. e \in Seq({"X", "HTTP", "_"}) /\ Len(e) = Len(i.name) /\ i.name \in Seq(Tokens)
      BY <1>1, <1>3, FragmentIs
    <2>2. {"X", "HTTP", "_"} \subseteq Words
      BY DEF Words
    <2>3. e \in Seq(Words)
      BY <2>1, <2>2, SeqMonotonic
    <2>4. Len(i.name) \in Nat
      BY <2>1, LenProperties
    <2> QED
      BY <2>1, <2>3, <2>4
  <1>5. PICK a : a = <<i.kind, "_">>
    OBVIOUS
  <1>6. PICK b : b = <<"_">>
    OBVIOUS
  <1>7. a \in Seq(Words) /\ Len(a) = 2 /\ a[1] = i.kind
    <2>1. "_" \in Words
      BY DEF Words
    <2> QED
      BY <2>1, <1>2, <1>5, Tuples
  <1>8. b \in Seq(Words) /\ Len(b) = 1 /\ b[1] = "_"
    <2>1. "_" \in Words
      BY DEF Words
    <2> QED
      BY <2>1, <1>6, Tuples
  <1>9. Variable(i, f) = Cat(Cat(Cat(a, e), b), f)
    BY <1>3, <1>5, <1>6, Zenon DEF Variable, Cat
  <1>10. PICK aa \in Seq(Words) : aa = a
    BY <1>7
  <1>11. PICK ee \in Seq(Words) : ee = e
    BY <1>4
  <1>12. PICK bb \in Seq(Words) : bb = b
    BY <1>8
  <1>13. PICK ff \in Seq(Words) : ff = f
    BY <1>2
  <1>14. Len(aa) = 2 /\ Len(bb) = 1
    BY <1>7, <1>8, <1>10, <1>12
  <1>21. Len(ee) = Len(i.name)
    BY <1>4, <1>11
  <1> DEFINE v == Cat(Cat(Cat(aa, ee), bb), ff)
  <1>15. Len(v) = Len(ee) + 3 + Len(ff)
    BY <1>14, FourPartsLength
  <1>20. v[1] = aa[1]
    BY <1>14, FourParts
  <1>16. \A k \in 1..Len(ee) : v[2 + k] = ee[k]
    BY <1>14, FourParts
  <1>17. v[Len(ee) + 3] = bb[1]
    BY <1>14, FourParts
  <1>18. \A k \in (Len(ee) + 4)..(Len(ee) + 3 + Len(ff)) : v[k] = ff[k - (Len(ee) + 3)]
    BY <1>14, FourParts
  <1>19. Variable(i, f) = v
    BY <1>9, <1>10, <1>11, <1>12, <1>13
  <1> HIDE DEF v
  <1> QED
    BY <1>3, <1>4, <1>7, <1>8, <1>10, <1>11, <1>12, <1>13, <1>14, <1>15, <1>16, <1>17, <1>18, <1>19, <1>20, <1>21

LEMMA FieldsTell ==
  ASSUME NEW kind \in Kinds, NEW f \in Fields(kind), NEW g \in Fields(kind)
  PROVE  /\ Len(f) = Len(g) /\ f[1] = g[1] => f = g
         /\ Len(f) = 1 /\ Len(g) = 3 =>
               kind = "CLICKHOUSE" /\ f = <<"DSN">> /\ g = <<"HTTP", "_", "DSN">>
  <1>1. \/ kind = "CLICKHOUSE" /\ f \in {<<"DSN">>, <<"HTTP", "_", "DSN">>}
        \/ kind # "CLICKHOUSE" /\ \E x \in Words : f = <<x>>
    BY DEF Fields, Kinds, Words
  <1>2. \/ kind = "CLICKHOUSE" /\ g \in {<<"DSN">>, <<"HTTP", "_", "DSN">>}
        \/ kind # "CLICKHOUSE" /\ \E x \in Words : g = <<x>>
    BY DEF Fields, Kinds, Words
  <1>4. CASE kind = "CLICKHOUSE"
    <2>1. CASE f = <<"DSN">> /\ g = <<"DSN">>
      BY <2>1
    <2>2. CASE f = <<"DSN">> /\ g = <<"HTTP", "_", "DSN">>
      BY <1>4, <2>2
    <2>3. CASE f = <<"HTTP", "_", "DSN">> /\ g = <<"DSN">>
      <3>1. Len(f) = 3
        BY <2>3
      <3>2. Len(g) = 1
        BY <2>3
      <3> QED
        BY <3>1, <3>2
    <2>4. CASE f = <<"HTTP", "_", "DSN">> /\ g = <<"HTTP", "_", "DSN">>
      <3>1. f = g
        BY <2>4
      <3>2. Len(f) = 3
        BY <2>4
      <3> QED
        BY <3>1, <3>2
    <2> QED
      BY <1>1, <1>2, <1>4, <2>1, <2>2, <2>3, <2>4
  <1>5. CASE kind # "CLICKHOUSE"
    <2>1. PICK x : f = <<x>>
      BY <1>1, <1>5
    <2>2. PICK y : g = <<y>>
      BY <1>2, <1>5
    <2>3. f[1] = x /\ g[1] = y /\ Len(g) = 1
      BY <2>1, <2>2
    <2> QED
      BY <2>1, <2>2, <2>3
  <1> QED
    BY <1>4, <1>5

LEMMA NameIs ==
  ASSUME NEW i \in Instances
  PROVE  /\ i.name \in InstanceNames /\ i.name \in Seq(Tokens) /\ Len(i.name) \in Nat
         /\ DOMAIN i.name = 1..Len(i.name)
  <1>1. i.name \in InstanceNames /\ i.name \in Seq(Tokens)
    BY DEF Instances
  <1> QED
    BY <1>1, LenProperties

LEMMA VariableLength ==
  ASSUME NEW i \in Instances, NEW f \in Fields(i.kind)
  PROVE  Len(Variable(i, f)) = Len(i.name) + 3 + Len(f)
  BY VariableIs

(* The name of a ClickHouse of which one variable is named like another's  *)
(* longer one.                                                             *)
LEMMA HTTPNames ==
  ASSUME NEW i \in Instances, NEW j \in Instances, NEW f \in Fields(i.kind), NEW g \in Fields(j.kind),
         Variable(i, f) = Variable(j, g)
  PROVE  Len(f) = 1 /\ Len(g) = 3 /\ g[1] = "HTTP" => Same(i.name, j.name \o <<"-", "http">>)
  <1>1. ASSUME Len(f) = 1, Len(g) = 3, g[1] = "HTTP"
        PROVE  Same(i.name, j.name \o <<"-", "http">>)
    <2>3. PICK n \in Nat : n = Len(i.name)
      BY NameIs
    <2>4. PICK m \in Nat : m = Len(j.name)
      BY NameIs
    <2>5. n = m + 2
      <3>1. Len(Variable(i, f)) = Len(i.name) + 3 + Len(f)
        BY VariableLength
      <3>2. Len(Variable(j, g)) = Len(j.name) + 3 + Len(g)
        BY VariableLength
      <3> QED
        BY <1>1, <2>3, <2>4, <3>1, <3>2
    <2> DEFINE v == Variable(i, f)
    <2>6. \A k \in 1..n : v[2 + k] = EnvFragment(i.name)[k]
      BY <2>3, VariableIs
    <2>7. \A k \in 1..m : v[2 + k] = EnvFragment(j.name)[k]
      BY <2>4, VariableIs
    <2>8. v[m + 3] = "_"
      BY <2>4, VariableIs
    <2>9. v[m + 4] = "HTTP"
      <3>1. \A k \in (Len(j.name) + 4)..(Len(j.name) + 3 + Len(g)) :
                Variable(j, g)[k] = g[k - (Len(j.name) + 3)]
        BY VariableIs
      <3>2. m + 4 \in (m + 4)..(m + 3 + 3) /\ m + 4 - (m + 3) = 1
        OBVIOUS
      <3> QED
        BY <1>1, <2>4, <3>1, <3>2
    <2> HIDE DEF v
    <2>10. i.name \in InstanceNames /\ j.name \in InstanceNames
      BY NameIs
    <2>11. \A k \in 1..n : i.name[k] \in Tokens /\
              EnvFragment(i.name)[k] =
                  CASE i.name[k] = "x" -> "X" [] i.name[k] = "http" -> "HTTP" [] OTHER -> "_"
      <3>1. \A k \in 1..n : i.name[k] \in Tokens
        BY <2>3, NameIs, ElementOfSeq
      <3> QED
        BY <3>1, <2>3, <2>10, FragmentIs
    <2>12. i.name[m + 1] \in {"-", "_"}
      <3>1. m + 1 \in 1..n /\ 2 + (m + 1) = m + 3
        BY <2>5
      <3>2. EnvFragment(i.name)[m + 1] = "_" /\ i.name[m + 1] \in Tokens
        BY <3>1, <2>6, <2>8, <2>11
      <3> QED
        BY <3>1, <3>2, <2>11 DEF Tokens
    <2>13. i.name[m + 2] = "http"
      <3>1. m + 2 \in 1..n /\ 2 + (m + 2) = m + 4
        BY <2>5
      <3>2. EnvFragment(i.name)[m + 2] = "HTTP" /\ i.name[m + 2] \in Tokens
        BY <3>1, <2>6, <2>9, <2>11
      <3> QED
        BY <3>1, <3>2, <2>11 DEF Tokens
    <2>14. \A k \in 1..m : i.name[k] = j.name[k] \/ {i.name[k], j.name[k]} \subseteq {"-", "_"}
      <3> TAKE k \in 1..m
      <3>1. k \in 1..n
        BY <2>5
      <3>2. EnvFragment(i.name)[k] = EnvFragment(j.name)[k]
        BY <3>1, <2>6, <2>7
      <3>3. k \in 1..Len(i.name) /\ k \in 1..Len(j.name)
        BY <3>1, <2>3, <2>4
      <3> QED
        BY <2>10, <3>2, <3>3, FragmentTells
    <2> DEFINE w == j.name \o <<"-", "http">>
    <2>15. Len(w) = n /\ \A k \in 1..n : w[k] = IF k <= m THEN j.name[k] ELSE <<"-", "http">>[k - m]
      <3>1. j.name \in Seq(Tokens) /\ <<"-", "http">> \in Seq(Tokens) /\ Len(<<"-", "http">>) = 2
        <4>1. j.name \in Seq(Tokens) /\ "-" \in Tokens /\ "http" \in Tokens
          BY NameIs DEF Tokens
        <4> QED
          BY <4>1, Tuples
      <3>2. Len(Cat(j.name, <<"-", "http">>)) = Len(j.name) + Len(<<"-", "http">>)
        BY <3>1, CatIs
      <3>3. \A k \in 1..Len(Cat(j.name, <<"-", "http">>)) : Cat(j.name, <<"-", "http">>)[k] =
                IF k <= Len(j.name) THEN j.name[k] ELSE <<"-", "http">>[k - Len(j.name)]
        BY <3>1, CatIs
      <3>4. Cat(j.name, <<"-", "http">>) = w
        BY DEF Cat
      <3> HIDE DEF w
      <3>5. Len(w) = m + 2
        BY <3>1, <3>2, <3>4, <2>4
      <3> QED
        BY <3>3, <3>4, <3>5, <2>4, <2>5
    <2> HIDE DEF w
    <2>16. w[m + 1] = "-" /\ w[m + 2] = "http"
      <3>1. m + 1 \in 1..n /\ m + 2 \in 1..n /\ ~(m + 1 <= m) /\ ~(m + 2 <= m) /\ m + 1 - m = 1 /\ m + 2 - m = 2
        BY <2>5
      <3> QED
        BY <3>1, <2>15
    <2>17. \A k \in 1..n : i.name[k] = w[k] \/ {i.name[k], w[k]} \subseteq {"-", "_"}
      <3> TAKE k \in 1..n
      <3>1. CASE k <= m
        <4>1. k \in 1..m
          BY <3>1
        <4>2. w[k] = j.name[k]
          BY <3>1, <2>15
        <4> QED
          BY <4>1, <4>2, <2>14
      <3>2. CASE k = m + 1
        BY <3>2, <2>12, <2>16
      <3>3. CASE k = m + 2
        BY <3>3, <2>13, <2>16
      <3>4. k <= m \/ k = m + 1 \/ k = m + 2
        BY <2>5
      <3> QED
        BY <3>1, <3>2, <3>3, <3>4
    <2>18. Same(i.name, w)
      BY <2>3, <2>15, <2>17, NameIs DEF Same
    <2> QED
      BY <2>18 DEF w
  <1> QED
    BY <1>1

(* Which variables two instances share: the reason is the one of `Shared`. *)
LEMMA SharedIf ==
  ASSUME NEW i \in Instances, NEW j \in Instances, NEW f \in Fields(i.kind), NEW g \in Fields(j.kind),
         Variable(i, f) = Variable(j, g)
  PROVE  /\ i.kind = j.kind
         /\ f = g => Same(i.name, j.name)
         /\ f # g =>
               /\ i.kind = "CLICKHOUSE"
               /\ f = <<"DSN">> => Same(i.name, j.name \o <<"-", "http">>)
               /\ f # <<"DSN">> => Same(j.name, i.name \o <<"-", "http">>)
  <1>1. i.kind = j.kind /\ i.kind \in Kinds /\ g \in Fields(i.kind)
    <2>1. Variable(i, f)[1] = i.kind /\ Variable(j, g)[1] = j.kind
      BY VariableIs
    <2> QED
      BY <2>1 DEF Instances
  <1>2. PICK n \in Nat : n = Len(i.name)
    BY NameIs
  <1>3. PICK m \in Nat : m = Len(j.name)
    BY NameIs
  <1>4. PICK p \in {1, 3} : p = Len(f)
    BY FieldIs
  <1>5. PICK q \in {1, 3} : q = Len(g)
    BY FieldIs
  <1>6. n + 3 + p = m + 3 + q
    <2>1. Len(Variable(i, f)) = Len(i.name) + 3 + Len(f)
      BY VariableLength
    <2>2. Len(Variable(j, g)) = Len(j.name) + 3 + Len(g)
      BY VariableLength
    <2> QED
      BY <1>2, <1>3, <1>4, <1>5, <2>1, <2>2
  <1>7. CASE p = q
    <2>1. n = m
      BY <1>6, <1>7
    <2>2. f[1] = g[1]
      <3>1. Variable(i, f)[n + 4] = f[1]
        <4>1. n + 4 \in (n + 4)..(n + 3 + p) /\ n + 4 - (n + 3) = 1
          OBVIOUS
        <4>2. \A k \in (Len(i.name) + 4)..(Len(i.name) + 3 + Len(f)) :
                Variable(i, f)[k] = f[k - (Len(i.name) + 3)]
          BY VariableIs
        <4> QED
          BY <4>1, <4>2, <1>2, <1>4
      <3>2. Variable(j, g)[n + 4] = g[1]
        <4>1. n + 4 \in (n + 4)..(n + 3 + q) /\ n + 4 - (n + 3) = 1
          OBVIOUS
        <4>2. \A k \in (Len(j.name) + 4)..(Len(j.name) + 3 + Len(g)) :
                Variable(j, g)[k] = g[k - (Len(j.name) + 3)]
          BY VariableIs
        <4> QED
          BY <4>1, <4>2, <2>1, <1>3, <1>5
      <3> QED
        BY <3>1, <3>2
    <2>3. f = g
      BY <1>1, <1>4, <1>5, <1>7, <2>2, FieldsTell
    <2>4. ASSUME NEW k \in 1..n
          PROVE  i.name[k] = j.name[k] \/ {i.name[k], j.name[k]} \subseteq {"-", "_"}
      <3>1. EnvFragment(i.name)[k] = Variable(i, f)[2 + k]
        BY <1>2, VariableIs
      <3>2. EnvFragment(j.name)[k] = Variable(j, g)[2 + k]
        BY <1>3, <2>1, VariableIs
      <3>3. i.name \in InstanceNames /\ j.name \in InstanceNames
        BY NameIs
      <3>4. k \in 1..Len(i.name) /\ k \in 1..Len(j.name)
        BY <1>2, <1>3, <2>1
      <3>5. EnvFragment(i.name)[k] = EnvFragment(j.name)[k]
        BY <3>1, <3>2
      <3> QED
        BY <3>3, <3>4, <3>5, FragmentTells
    <2>5. DOMAIN i.name = 1..Len(i.name)
      BY NameIs
    <2> QED
      BY <1>1, <1>2, <1>3, <2>1, <2>3, <2>4, <2>5 DEF Same
  <1>8. CASE p = 1 /\ q = 3
    <2>1. i.kind = "CLICKHOUSE" /\ f = <<"DSN">> /\ g = <<"HTTP", "_", "DSN">> /\ f # g
      BY <1>1, <1>4, <1>5, <1>8, FieldsTell
    <2> QED
      BY <1>1, <2>1, HTTPNames
  <1>9. CASE p = 3 /\ q = 1
    <2>1. i.kind = "CLICKHOUSE" /\ g = <<"DSN">> /\ f = <<"HTTP", "_", "DSN">> /\ f # g
      BY <1>1, <1>4, <1>5, <1>9, FieldsTell
    <2> QED
      BY <1>1, <2>1, HTTPNames
  <1> QED
    BY <1>7, <1>8, <1>9

(* An instance shares no variable with itself.                             *)
LEMMA OnesOwnVariables ==
  ASSUME NEW i \in Instances, NEW f \in Fields(i.kind), NEW g \in Fields(i.kind),
         Variable(i, f) = Variable(i, g)
  PROVE  f = g
  <1>1. Len(Cat(i.name, <<"-", "http">>)) = Len(i.name) + 2
    <2>1. "-" \in Tokens /\ "http" \in Tokens /\ i.name \in Seq(Tokens)
      BY NameIs DEF Tokens
    <2>2. <<"-", "http">> \in Seq(Tokens) /\ Len(<<"-", "http">>) = 2
      BY <2>1, Tuples
    <2>3. Len(Cat(i.name, <<"-", "http">>)) = Len(i.name) + Len(<<"-", "http">>)
      BY <2>1, <2>2, CatIs
    <2> QED
      BY <2>2, <2>3
  <1>2. Len(i.name) # Len(i.name \o <<"-", "http">>)
    BY <1>1, NameIs DEF Cat
  <1>3. ~Same(i.name, i.name \o <<"-", "http">>)
    BY <1>2 DEF Same
  <1> QED
    BY <1>3, SharedIf

(* So a variable is another instance's only if `Shared` says so.           *)
LEMMA SharedVariables ==
  ASSUME instances \subseteq Instances, NEW i \in instances, NEW f \in Fields(i.kind),
         NEW j \in instances, NEW g \in Fields(j.kind),
         Variable(i, f) = Variable(j, g), ~Shared(i, f)
  PROVE  i = j /\ f = g
  <1>1. CASE i = j
    BY <1>1, OnesOwnVariables
  <1>2. CASE i # j
    <2>1. /\ i.kind = j.kind
          /\ f = g => Same(i.name, j.name)
          /\ f # g =>
               /\ i.kind = "CLICKHOUSE"
               /\ f = <<"DSN">> => Same(i.name, j.name \o <<"-", "http">>)
               /\ f # <<"DSN">> => Same(j.name, i.name \o <<"-", "http">>)
      BY SharedIf
    <2> QED
      BY <1>2, <2>1, Zenon DEF Shared
  <1> QED
    BY <1>1, <1>2

-----------------------------------------------------------------------------
(* StackEnv                                                                *)

OfItsOwn(value, v, stacks) ==
    \E s \in stacks, i \in instances : \E f \in Fields(i.kind) :
        Variable(i, f) = v /\ value = Value(s, i, f)

(* The inductive invariant: the options are given once; the Config of a    *)
(* stack is that of its options; its exported variables are those of the   *)
(* instances it has visited, each with the value of an instance that has   *)
(* it; and the environment holds what the last to apply exported.          *)
EnvIInv ==
    /\ instances \subseteq Instances /\ Cardinality(instances) <= MaxInstances
    /\ applied \in [Stacks -> {"no", "starting", "exporting", "exported", "yes"}]
    /\ unexported \in [Stacks -> SUBSET instances]
    /\ exported = [s \in Stacks |-> exported[s]]
    /\ config = [s \in Stacks |->
                    IF applied[s] \in {"exporting", "exported", "yes"} THEN buildAppTestConfig(s) ELSE <<>>]
    /\ instances = {} => \A s \in Stacks : applied[s] = "no"
    /\ \A s \in Stacks :
          /\ applied[s] \in {"exported", "yes"} => unexported[s] = {}
          /\ applied[s] \in {"exporting", "exported", "yes"} =>
                \A i \in instances \ unexported[s] : \A f \in Fields(i.kind) :
                    Variable(i, f) \in DOMAIN exported[s]
          /\ \A v \in DOMAIN exported[s] : OfItsOwn(exported[s][v], v, {s})
    /\ last \subseteq {s \in Stacks : applied[s] = "yes"}
    /\ last # {} => \A i \in instances : \A f \in Fields(i.kind) : Variable(i, f) \in DOMAIN env
    /\ \A v \in DOMAIN env : OfItsOwn(env[v], v, last)

LEMMA EmptyMap == DOMAIN <<>> = {} /\ Range(<<>>) = {}
  BY DEF Range

LEMMA OverIs ==
  ASSUME NEW new, NEW old
  PROVE  /\ DOMAIN Over(new, old) = DOMAIN new \cup DOMAIN old
         /\ \A k \in DOMAIN Over(new, old) : Over(new, old)[k] = IF k \in DOMAIN new THEN new[k] ELSE old[k]
  BY DEF Over

LEMMA AddsIs ==
  ASSUME NEW s \in Stacks, NEW i \in Instances
  PROVE  /\ DOMAIN Adds(s, i) = Variables(i)
         /\ \A v \in DOMAIN Adds(s, i) : \E f \in Fields(i.kind) :
                Variable(i, f) = v /\ Adds(s, i)[v] = Value(s, i, f)
  <1>1. DOMAIN Adds(s, i) = Variables(i)
    BY DEF Adds
  <1>2. ASSUME NEW v \in Variables(i)
        PROVE  \E f \in Fields(i.kind) : Variable(i, f) = v /\ Adds(s, i)[v] = Value(s, i, f)
    <2>1. \E f \in Fields(i.kind) : Variable(i, f) = v
      BY DEF Variables
    <2> DEFINE g == CHOOSE f \in Fields(i.kind) : Variable(i, f) = v
    <2>2. g \in Fields(i.kind) /\ Variable(i, g) = v
      BY <2>1
    <2>3. Adds(s, i)[v] = Value(s, i, g)
      BY DEF Adds
    <2> QED
      BY <2>2, <2>3
  <1> QED
    BY <1>1, <1>2

LEMMA EnvInitInv == EnvInit => EnvIInv
  <1> SUFFICES ASSUME EnvInit
               PROVE  EnvIInv
    OBVIOUS
  <1>1. Cardinality(instances) <= MaxInstances
    BY FS_EmptySet DEF EnvInit
  <1> QED
    BY <1>1, EmptyMap DEF EnvInit, EnvIInv

LEMMA GiveOptionsInv == ASSUME EnvIInv, GiveOptions PROVE EnvIInv'
  <1>1. PICK n \in 1..MaxInstances : instances' \in kSubset(n, Instances)
    BY DEF GiveOptions
  <1>2. /\ instances' \subseteq Instances /\ Cardinality(instances') = n
        /\ instances = {} /\ applied' = [s \in Stacks |-> "starting"]
        /\ UNCHANGED <<config, unexported, exported, env, last>>
    BY <1>1 DEF kSubset, GiveOptions, exportVars
  <1>3. Cardinality(instances') <= MaxInstances /\ instances' # {}
    <2>1. Cardinality(instances') \in 1..MaxInstances
      BY <1>1, <1>2
    <2>2. \A c \in 1..MaxInstances : c # 0 /\ c <= MaxInstances
      OBVIOUS
    <2>3. Cardinality({}) = 0
      BY FS_EmptySet
    <2> QED
      BY <2>1, <2>2, <2>3
  <1>4. \A s \in Stacks : applied[s] = "no" /\ unexported[s] = {} /\ DOMAIN exported[s] = {}
    BY <1>2 DEF EnvIInv, OfItsOwn
  <1>5. DOMAIN env = {}
    BY <1>2 DEF EnvIInv, OfItsOwn
  <1>6. last = {}
    BY <1>4 DEF EnvIInv
  <1>7. config' = [s \in Stacks |->
            IF applied'[s] \in {"exporting", "exported", "yes"} THEN buildAppTestConfig(s)' ELSE <<>>]
    BY <1>2, <1>4 DEF EnvIInv
  <1> QED
    BY <1>2, <1>3, <1>4, <1>5, <1>6, <1>7 DEF EnvIInv

LEMMA StartStackInv == ASSUME EnvIInv, NEW s \in Stacks, StartStack(s) PROVE EnvIInv'
  <1>1. /\ applied[s] = "starting"
        /\ applied' = [applied EXCEPT ![s] = "exporting"]
        /\ unexported' = [unexported EXCEPT ![s] = instances]
        /\ config' = [config EXCEPT ![s] = buildAppTestConfig(s)]
        /\ UNCHANGED <<instances, exported, env, last>>
    BY DEF StartStack
  <1>2. \A t \in Stacks : buildAppTestConfig(t)' = buildAppTestConfig(t)
    BY <1>1 DEF buildAppTestConfig, Resources
  <1>3. \A value, v, stacks : OfItsOwn(value, v, stacks)' = OfItsOwn(value, v, stacks)
    BY <1>1 DEF OfItsOwn
  <1>4. /\ applied' \in [Stacks -> {"no", "starting", "exporting", "exported", "yes"}]
        /\ unexported' \in [Stacks -> SUBSET instances']
        /\ applied'[s] = "exporting" /\ unexported'[s] = instances
        /\ \A t \in Stacks \ {s} : applied'[t] = applied[t] /\ unexported'[t] = unexported[t]
    BY <1>1 DEF EnvIInv
  <1>5. config' = [t \in Stacks |->
            IF applied'[t] \in {"exporting", "exported", "yes"} THEN buildAppTestConfig(t)' ELSE <<>>]
    BY <1>1, <1>2, <1>4 DEF EnvIInv
  <1>6. \A t \in Stacks :
          /\ applied'[t] \in {"exported", "yes"} => unexported'[t] = {}
          /\ applied'[t] \in {"exporting", "exported", "yes"} =>
                \A i \in instances \ unexported'[t] : \A f \in Fields(i.kind) :
                    Variable(i, f) \in DOMAIN exported[t]
    BY <1>4 DEF EnvIInv
  <1>7. last \subseteq {t \in Stacks : applied'[t] = "yes"}
    BY <1>1, <1>4 DEF EnvIInv
  <1>8. instances # {}
    BY <1>1 DEF EnvIInv
  <1> QED
    BY <1>1, <1>3, <1>4, <1>5, <1>6, <1>7, <1>8 DEF EnvIInv

LEMMA ExportEnvInv == ASSUME EnvIInv, NEW s \in Stacks, NEW i \in instances, ExportEnv(s, i) PROVE EnvIInv'
  <1>1. /\ applied[s] = "exporting" /\ i \in unexported[s]
        /\ exported' = [exported EXCEPT ![s] = Over(Adds(s, i), exported[s])]
        /\ unexported' = [unexported EXCEPT ![s] = unexported[s] \ {i}]
        /\ applied' = IF unexported[s] = {i} THEN [applied EXCEPT ![s] = "exported"] ELSE applied
        /\ UNCHANGED <<instances, config, env, last>>
    BY DEF ExportEnv
  <1>2. i \in Instances /\ s \in Stacks
    BY DEF EnvIInv
  <1>3. \A t \in Stacks : buildAppTestConfig(t)' = buildAppTestConfig(t)
    BY <1>1 DEF buildAppTestConfig, Resources
  <1>4. \A value, v, stacks : OfItsOwn(value, v, stacks)' = OfItsOwn(value, v, stacks)
    BY <1>1 DEF OfItsOwn
  <1>5. /\ applied' \in [Stacks -> {"no", "starting", "exporting", "exported", "yes"}]
        /\ unexported' \in [Stacks -> SUBSET instances']
        /\ exported' = [t \in Stacks |-> exported'[t]]
        /\ applied'[s] \in {"exporting", "exported"} /\ unexported'[s] = unexported[s] \ {i}
        /\ applied'[s] = "exported" => unexported[s] = {i}
        /\ exported'[s] = Over(Adds(s, i), exported[s])
        /\ \A t \in Stacks \ {s} :
              applied'[t] = applied[t] /\ unexported'[t] = unexported[t] /\ exported'[t] = exported[t]
    BY <1>1 DEF EnvIInv
  <1>6. config' = [t \in Stacks |->
            IF applied'[t] \in {"exporting", "exported", "yes"} THEN buildAppTestConfig(t)' ELSE <<>>]
    BY <1>1, <1>3, <1>5 DEF EnvIInv
  <1>7. DOMAIN exported'[s] = Variables(i) \cup DOMAIN exported[s]
    <2>1. DOMAIN Over(Adds(s, i), exported[s]) = DOMAIN Adds(s, i) \cup DOMAIN exported[s]
      BY OverIs
    <2>2. DOMAIN Adds(s, i) = Variables(i)
      BY <1>2, AddsIs
    <2> QED
      BY <2>1, <2>2, <1>5
  <1>8. \A v \in DOMAIN exported'[s] : OfItsOwn(exported'[s][v], v, {s})
    <2> TAKE v \in DOMAIN exported'[s]
    <2>1. exported'[s][v] = IF v \in Variables(i) THEN Adds(s, i)[v] ELSE exported[s][v]
      <3>1. Over(Adds(s, i), exported[s])[v] =
                IF v \in DOMAIN Adds(s, i) THEN Adds(s, i)[v] ELSE exported[s][v]
        BY <1>5 DEF Over
      <3>2. DOMAIN Adds(s, i) = Variables(i)
        BY <1>2, AddsIs
      <3> QED
        BY <3>1, <3>2, <1>5
    <2>2. CASE v \in Variables(i)
      BY <1>2, <2>1, <2>2, AddsIs DEF OfItsOwn
    <2>3. CASE v \notin Variables(i)
      BY <1>7, <2>1, <2>3 DEF EnvIInv
    <2> QED
      BY <2>2, <2>3
  <1>9. \A t \in Stacks :
          /\ applied'[t] \in {"exported", "yes"} => unexported'[t] = {}
          /\ applied'[t] \in {"exporting", "exported", "yes"} =>
                \A j \in instances \ unexported'[t] : \A f \in Fields(j.kind) :
                    Variable(j, f) \in DOMAIN exported'[t]
    <2>1. \A f \in Fields(i.kind) : Variable(i, f) \in Variables(i)
      BY DEF Variables
    <2> QED
      BY <1>1, <1>5, <1>7, <2>1 DEF EnvIInv
  <1>10. last \subseteq {t \in Stacks : applied'[t] = "yes"}
    BY <1>1, <1>5 DEF EnvIInv
  <1>11. \A t \in Stacks : \A v \in DOMAIN exported'[t] : OfItsOwn(exported'[t][v], v, {t})
    BY <1>5, <1>8 DEF EnvIInv
  <1> QED
    BY <1>1, <1>4, <1>5, <1>6, <1>9, <1>10, <1>11 DEF EnvIInv

LEMMA ApplyEnvInv == ASSUME EnvIInv, NEW s \in Stacks, ApplyEnv(s) PROVE EnvIInv'
  <1>1. /\ applied[s] = "exported"
        /\ env' = Over(exported[s], env)
        /\ applied' = [applied EXCEPT ![s] = "yes"]
        /\ last' = {s}
        /\ UNCHANGED <<instances, config, unexported, exported>>
    BY DEF ApplyEnv, exportVars
  <1>2. \A t \in Stacks : buildAppTestConfig(t)' = buildAppTestConfig(t)
    BY <1>1 DEF buildAppTestConfig, Resources
  <1>3. \A value, v, stacks : OfItsOwn(value, v, stacks)' = OfItsOwn(value, v, stacks)
    BY <1>1 DEF OfItsOwn
  <1>4. /\ applied' \in [Stacks -> {"no", "starting", "exporting", "exported", "yes"}]
        /\ applied'[s] = "yes" /\ \A t \in Stacks \ {s} : applied'[t] = applied[t]
        /\ instances # {}
    BY <1>1 DEF EnvIInv
  <1>5. config' = [t \in Stacks |->
            IF applied'[t] \in {"exporting", "exported", "yes"} THEN buildAppTestConfig(t)' ELSE <<>>]
    BY <1>1, <1>2, <1>4 DEF EnvIInv
  <1>6. \A i \in instances : \A f \in Fields(i.kind) : Variable(i, f) \in DOMAIN exported[s]
    BY <1>1 DEF EnvIInv
  <1>7. DOMAIN env \subseteq DOMAIN exported[s]
    BY <1>6 DEF EnvIInv, OfItsOwn
  <1>8. /\ DOMAIN env' = DOMAIN exported[s]
        /\ \A v \in DOMAIN env' : env'[v] = exported[s][v]
    BY <1>1, <1>7, OverIs
  <1>9. \A v \in DOMAIN env' : OfItsOwn(env'[v], v, {s})
    BY <1>8 DEF EnvIInv
  <1> QED
    BY <1>1, <1>3, <1>4, <1>5, <1>6, <1>8, <1>9 DEF EnvIInv

LEMMA ApplyEnvTogetherInv == ASSUME EnvIInv, ApplyEnvTogether PROVE EnvIInv'
  <1>1. PICK latest \in [DOMAIN exported[1] -> Stacks] :
          env' = Over([v \in DOMAIN exported[1] |-> exported[latest[v]][v]], env)
    BY DEF ApplyEnvTogether
  <1>2. /\ \A s \in Stacks : applied[s] = "exported"
        /\ applied' = [s \in Stacks |-> "yes"]
        /\ last' = Stacks
        /\ UNCHANGED <<instances, config, unexported, exported>>
    BY DEF ApplyEnvTogether, exportVars
  <1>3. \A t \in Stacks : buildAppTestConfig(t)' = buildAppTestConfig(t)
    BY <1>2 DEF buildAppTestConfig, Resources
  <1>4. \A value, v, stacks : OfItsOwn(value, v, stacks)' = OfItsOwn(value, v, stacks)
    BY <1>2 DEF OfItsOwn
  <1>5. config' = [t \in Stacks |->
            IF applied'[t] \in {"exporting", "exported", "yes"} THEN buildAppTestConfig(t)' ELSE <<>>]
    BY <1>2, <1>3 DEF EnvIInv
  <1>6. \A s \in Stacks : \A i \in instances : \A f \in Fields(i.kind) : Variable(i, f) \in DOMAIN exported[s]
    BY <1>2 DEF EnvIInv
  <1>7. DOMAIN env \subseteq DOMAIN exported[1] /\ 1 \in Stacks
    BY <1>6 DEF EnvIInv, OfItsOwn, Stacks
  <1> DEFINE written == [v \in DOMAIN exported[1] |-> exported[latest[v]][v]]
  <1>8. DOMAIN written = DOMAIN exported[1] /\ \A v \in DOMAIN exported[1] : written[v] = exported[latest[v]][v]
    OBVIOUS
  <1> HIDE DEF written
  <1>9. /\ DOMAIN env' = DOMAIN exported[1]
        /\ \A v \in DOMAIN env' : env'[v] = exported[latest[v]][v]
    <2>1. env' = Over(written, env)
      BY <1>1 DEF written
    <2>2. DOMAIN Over(written, env) = DOMAIN exported[1]
      <3>1. DOMAIN Over(written, env) = DOMAIN written \cup DOMAIN env
        BY OverIs
      <3> QED
        BY <3>1, <1>7, <1>8
    <2>3. \A v \in DOMAIN exported[1] : Over(written, env)[v] = written[v]
      BY <1>8 DEF Over
    <2> QED
      BY <2>1, <2>2, <2>3, <1>8
  <1>10. \A v \in DOMAIN env' : OfItsOwn(env'[v], v, Stacks)
    <2> TAKE v \in DOMAIN env'
    <2>1. v \in DOMAIN exported[1] /\ latest[v] \in Stacks /\ env'[v] = exported[latest[v]][v]
      BY <1>9
    <2>2. v \in DOMAIN exported[latest[v]]
      BY <1>6, <1>7, <2>1 DEF EnvIInv, OfItsOwn
    <2>3. OfItsOwn(exported[latest[v]][v], v, {latest[v]})
      BY <2>1, <2>2 DEF EnvIInv
    <2> QED
      BY <2>1, <2>3 DEF OfItsOwn
  <1>11. instances # {} /\ last' \subseteq {s \in Stacks : applied'[s] = "yes"}
    BY <1>2, <1>7 DEF EnvIInv
  <1> QED
    BY <1>2, <1>4, <1>5, <1>6, <1>7, <1>9, <1>10, <1>11 DEF EnvIInv

(* The invariant holds throughout.                                         *)
THEOREM EnvInvariance == EnvSpec => []EnvIInv
  <1>1. ASSUME EnvIInv, [EnvNext]_envVars
        PROVE  EnvIInv'
    <2>1. CASE GiveOptions
      BY <1>1, <2>1, GiveOptionsInv
    <2>2. ASSUME NEW s \in Stacks, StartStack(s)
          PROVE  EnvIInv'
      BY <1>1, <2>2, StartStackInv
    <2>3. ASSUME NEW s \in Stacks, ApplyEnv(s)
          PROVE  EnvIInv'
      BY <1>1, <2>3, ApplyEnvInv
    <2>4. ASSUME NEW s \in Stacks, NEW i \in instances, ExportEnv(s, i)
          PROVE  EnvIInv'
      BY <1>1, <2>4, ExportEnvInv
    <2>5. CASE ApplyEnvTogether
      BY <1>1, <2>5, ApplyEnvTogetherInv
    <2>6. CASE UNCHANGED envVars
      <3>1. UNCHANGED <<instances, config, unexported, exported, applied, env, last>>
        BY <2>6 DEF envVars, exportVars
      <3>2. \A t \in Stacks : buildAppTestConfig(t)' = buildAppTestConfig(t)
        BY <3>1 DEF buildAppTestConfig, Resources
      <3>3. \A value, v, stacks : OfItsOwn(value, v, stacks)' = OfItsOwn(value, v, stacks)
        BY <3>1 DEF OfItsOwn
      <3>4. config' = [t \in Stacks |->
                IF applied'[t] \in {"exporting", "exported", "yes"} THEN buildAppTestConfig(t)' ELSE <<>>]
        BY <1>1, <3>1, <3>2 DEF EnvIInv
      <3> QED
        BY <1>1, <3>1, <3>3, <3>4 DEF EnvIInv
    <2> QED
      BY <1>1, <2>1, <2>2, <2>3, <2>4, <2>5, <2>6 DEF EnvNext
  <1> QED
    BY <1>1, EnvInitInv, PTL DEF EnvSpec

LEMMA ValueIsConnection ==
  ASSUME NEW s \in Stacks, NEW i \in Instances, NEW f \in Fields(i.kind)
  PROVE  Value(s, i, f) \in Connections
  <1> DEFINE Of(t, j) == {Value(t, j, g) : g \in Fields(j.kind)}
  <1>1. Value(s, i, f) \in Of(s, i)
    OBVIOUS
  <1>2. Connections = UNION {Of(t, j) : t \in Stacks, j \in Instances}
    BY DEF Connections
  <1> HIDE DEF Of
  <1> QED
    BY <1>1, <1>2

(* A Config has each field of each resource under its own key, and no      *)
(* other.                                                                  *)
LEMMA ConfigIs ==
  ASSUME NEW s \in Stacks, instances \subseteq Instances
  PROVE  /\ \A i \in instances : \A f \in Fields(i.kind) :
               /\ ConfigKey(i, f) \in DOMAIN buildAppTestConfig(s)
               /\ buildAppTestConfig(s)[ConfigKey(i, f)] = Value(s, i, f)
         /\ \A k \in DOMAIN buildAppTestConfig(s) : \E i \in instances : \E f \in Fields(i.kind) :
               k = ConfigKey(i, f)
  <1>1. ASSUME NEW i \in instances, NEW f \in Fields(i.kind)
        PROVE  /\ ConfigKey(i, f) \in DOMAIN buildAppTestConfig(s)
               /\ buildAppTestConfig(s)[ConfigKey(i, f)] = Value(s, i, f)
    <2> DEFINE k == ConfigKey(i, f)
               r == CHOOSE r \in Resources : ConfigKey(r[1], r[2]) = k
    <2>1. <<i, f>> \in Resources
      BY DEF Resources
    <2>2. r \in Resources /\ ConfigKey(r[1], r[2]) = k
      BY <2>1
    <2>3. PICK j \in instances : \E g \in Fields(j.kind) : r = <<j, g>>
      BY <2>2 DEF Resources
    <2> PICK g \in Fields(j.kind) : r = <<j, g>>
      BY <2>3
    <2>4. j.kind = i.kind /\ j.name = i.name /\ g = f
      BY <2>2, <2>3 DEF ConfigKey
    <2>5. j = i
      BY <2>4 DEF Instances
    <2>6. k \in DOMAIN buildAppTestConfig(s) /\ buildAppTestConfig(s)[k] = Value(s, r[1], r[2])
      BY <2>1 DEF buildAppTestConfig
    <2> HIDE DEF r
    <2>7. r[1] = j /\ r[2] = g
      OBVIOUS
    <2> QED
      BY <2>4, <2>5, <2>6, <2>7
  <1>2. ASSUME NEW k \in DOMAIN buildAppTestConfig(s)
        PROVE  \E i \in instances : \E f \in Fields(i.kind) : k = ConfigKey(i, f)
    BY <1>2 DEF buildAppTestConfig, Resources
  <1> QED
    BY <1>1, <1>2

(* Wherever a test reads its connections, they are its own.                *)
THEOREM OnesOwnConnections == EnvSpec => []ConnectionsAreOnesOwn
  <1>1. ASSUME EnvIInv
        PROVE  ConnectionsAreOnesOwn
    <2>1. ASSUME NEW s \in Stacks, applied[s] \in {"exporting", "exported", "yes"},
                 NEW i \in Instances, NEW f \in Fields(i.kind)
          PROVE  PostgresDSN(s, i, f) = IF i \in instances THEN Value(s, i, f) ELSE Nothing
      <3>1. config[s] = buildAppTestConfig(s) /\ instances \subseteq Instances
        BY <1>1, <2>1 DEF EnvIInv
      <3>2. CASE i \in instances
        BY <3>1, <3>2, ConfigIs DEF PostgresDSN
      <3>3. CASE i \notin instances
        <4>1. ASSUME ConfigKey(i, f) \in DOMAIN config[s]
              PROVE  FALSE
          <5>1. PICK j \in instances : \E g \in Fields(j.kind) : ConfigKey(i, f) = ConfigKey(j, g)
            BY <3>1, <4>1, ConfigIs
          <5>2. i.kind = j.kind /\ i.name = j.name
            BY <5>1 DEF ConfigKey
          <5> QED
            BY <3>1, <3>3, <5>2 DEF Instances
        <4> QED
          BY <3>3, <4>1 DEF PostgresDSN
      <3> QED
        BY <3>2, <3>3
    <2>2. ASSUME last # {}, NEW i \in instances, NEW f \in Fields(i.kind)
          PROVE  /\ Variable(i, f) \in DOMAIN env
                 /\ env[Variable(i, f)].stack \in last
                 /\ ~Shared(i, f) => \E s \in last : env[Variable(i, f)] = Value(s, i, f)
      <3>1. Variable(i, f) \in DOMAIN env /\ instances \subseteq Instances
        BY <1>1, <2>2 DEF EnvIInv
      <3>2. OfItsOwn(env[Variable(i, f)], Variable(i, f), last)
        BY <1>1, <3>1 DEF EnvIInv
      <3>3. PICK s \in last, j \in instances : \E g \in Fields(j.kind) :
                Variable(j, g) = Variable(i, f) /\ env[Variable(i, f)] = Value(s, j, g)
        BY <3>2 DEF OfItsOwn
      <3> PICK g \in Fields(j.kind) :
                Variable(j, g) = Variable(i, f) /\ env[Variable(i, f)] = Value(s, j, g)
        BY <3>3
      <3>4. env[Variable(i, f)].stack \in last
        BY <3>3 DEF Value
      <3>5. ~Shared(i, f) => j = i /\ g = f
        BY <3>1, <3>3, SharedVariables
      <3> QED
        BY <3>1, <3>3, <3>4, <3>5
    <2> QED
      BY <2>1, <2>2 DEF ConnectionsAreOnesOwn
  <1> QED
    BY <1>1, EnvInvariance, PTL

(* The types of the state, and that a stack is one of few instances.       *)
THEOREM EnvTypeCorrect == EnvSpec => []EnvTypeOK
  <1>1. ASSUME EnvIInv
        PROVE  EnvTypeOK
    <2>1. ASSUME NEW value, NEW v, NEW stacks \in SUBSET Stacks, OfItsOwn(value, v, stacks)
          PROVE  value \in Connections
      BY <1>1, <2>1, ValueIsConnection DEF OfItsOwn, EnvIInv
    <2>2. ASSUME NEW s \in Stacks
          PROVE  unexported[s] \subseteq instances /\ Range(exported[s]) \subseteq Connections
      <3>1. unexported[s] \subseteq instances
        BY <1>1 DEF EnvIInv
      <3>2. ASSUME NEW v \in DOMAIN exported[s]
            PROVE  exported[s][v] \in Connections
        <4>1. OfItsOwn(exported[s][v], v, {s}) /\ {s} \in SUBSET Stacks
          BY <1>1 DEF EnvIInv
        <4> QED
          BY <4>1, <2>1
      <3> QED
        BY <3>1, <3>2 DEF Range
    <2>3. ASSUME NEW s \in Stacks
          PROVE  Range(config[s]) \subseteq Connections
      <3>1. config[s] = buildAppTestConfig(s) \/ config[s] = <<>>
        BY <1>1 DEF EnvIInv
      <3>2. ASSUME NEW k \in DOMAIN buildAppTestConfig(s)
            PROVE  buildAppTestConfig(s)[k] \in Connections
        BY <1>1, <3>2, ConfigIs, ValueIsConnection DEF EnvIInv
      <3> QED
        BY <3>1, <3>2, EmptyMap DEF Range
    <2>4. last \subseteq Stacks
      BY <1>1 DEF EnvIInv
    <2>5. Range(env) \subseteq Connections
      BY <1>1, <2>1, <2>4 DEF EnvIInv, Range
    <2> QED
      BY <1>1, <2>2, <2>3, <2>4, <2>5 DEF EnvIInv, EnvTypeOK
  <1> QED
    BY <1>1, EnvInvariance, PTL

-----------------------------------------------------------------------------
(* ServiceSetup                                                            *)

USE MaxBaseNameAssumption, MaxGivenAssumption

Pieces(s) ==
    CASE s \in FromPaths -> Items
      [] s = "mockserver" -> {Body(e) : e \in Expectations}
      [] s = "kafka" -> {TopicSpec(t) : t \in Topics}
      [] OTHER -> Tables

Typed ==
    /\ SetupTypeOK /\ Len(given) <= MaxGiven
    /\ work \in Seq(Pieces(service)) /\ effects \in Seq(Pieces(service))

(* The files that come before the position the walk is at.                 *)
Passed(item) == item.at <= looked \/ (item.at = looked + 1 /\ item.name <= entry)

Walked ==
    /\ entry > 0 => looked < Len(given) /\ given[looked + 1].is = "dir"
    /\ \A i \in DOMAIN work : work[i] \in Wanted /\ Passed(work[i])
    /\ \A i, j \in DOMAIN work : i < j => Earlier(work[i], work[j])
    /\ \A item \in Wanted : Passed(item) => Among(item, work)
    /\ strictPath => \A i \in 1..looked : given[i].is # "missing"

InTurn == \A i \in DOMAIN effects : effects[i] = work[i]

Standing ==
    /\ stand = "idle" =>
          /\ looked = 0 /\ entry = 0 /\ work = <<>> /\ effects = <<>> /\ container = "none" /\ ~copied
          /\ inbox = [p \in Places |-> NoItem]
    /\ stand \in {"expanding", "starting"} => ~copied
    /\ stand = "expanding" \/ (stand = "starting" /\ service # "wiremock") => effects = <<>>
    /\ stand = "expanding" => service \in FromPaths
    /\ stand = "applying" => service # "wiremock"
    /\ copied => service = "localstack"
    /\ service \in FromPaths /\ stand \in {"applying", "done"} => looked = Len(given)
    /\ service = "wiremock" /\ stand = "starting" => looked = Len(given)
    /\ service = "wiremock" /\ container = "running" => stand = "done"
    /\ copied /\ stand = "applying" =>
          Len(effects) < Len(work) /\ inbox[PlaceOf(NextPiece)] = NextPiece
    /\ service = "truncate" => effects = <<>> \/ Len(effects) = Len(work)
    /\ service # "kafka" /\ stand = "done" => Len(effects) = Len(work)

ToldTopics ==
    /\ \A i \in DOMAIN effects : Among(effects[i], work)
    /\ stand # "done" \/ \A i \in DOMAIN work :
          work[i].exists \/ \E j \in DOMAIN effects : effects[j].topic = work[i].topic

SetupIInv ==
    /\ Typed
    /\ Standing
    /\ service \in FromPaths => Walked
    /\ service \notin FromPaths => work = FirstWork(service, given)
    /\ service # "kafka" => InTurn
    /\ service = "kafka" => ToldTopics
    /\ service = "wiremock" => FilesInPlace

-----------------------------------------------------------------------------
LEMMA NextOf ==
  ASSUME NEW S, NEW w \in Seq(S), NEW e \in Seq(S), Len(e) < Len(w), NEW x \in S,
         \A i \in DOMAIN e : e[i] = w[i], x = w[Len(e) + 1]
  PROVE  /\ e \o <<x>> \in Seq(S) /\ Len(e \o <<x>>) = Len(e) + 1
         /\ \A i \in DOMAIN (e \o <<x>>) : (e \o <<x>>)[i] = w[i]
  <1>1. e \o <<x>> = Append(e, x)
    OBVIOUS
  <1>2. /\ Append(e, x) \in Seq(S) /\ Len(Append(e, x)) = Len(e) + 1
        /\ \A i \in 1..Len(e) : Append(e, x)[i] = e[i]
        /\ Append(e, x)[Len(e) + 1] = x
    BY AppendProperties
  <1>3. DOMAIN Append(e, x) = 1..(Len(e) + 1) /\ DOMAIN e = 1..Len(e) /\ Len(e) \in Nat
    BY <1>2, LenProperties
  <1>4. \A i \in DOMAIN Append(e, x) : Append(e, x)[i] = w[i]
    BY <1>2, <1>3
  <1> QED
    BY <1>1, <1>2, <1>4

LEMMA PathIs ==
  ASSUME NEW s \in FromPaths, NEW path \in Givens(s)
  PROVE  /\ path.is \in {"missing", "denied", "file", "dir"}
         /\ path.is = "file" => path.base \in BaseNames
  BY DEF FromPaths, Givens, Paths

LEMMA FirstWorkIs ==
  ASSUME NEW s \in Services, NEW g \in Seq(Givens(s))
  PROVE  /\ FirstWork(s, g) \in Seq(Pieces(s))
         /\ s \notin FromPaths => /\ Len(FirstWork(s, g)) = Len(g)
                                  /\ \A i \in DOMAIN g : FirstWork(s, g)[i] = Complete(s, g[i])
  <1>1. DOMAIN g = 1..Len(g) /\ Len(g) \in Nat /\ \A i \in DOMAIN g : g[i] \in Givens(s)
    BY LenProperties, ElementOfSeq
  <1>2. CASE s \notin FromPaths
    <2>1. ASSUME NEW i \in DOMAIN g
          PROVE  Complete(s, g[i]) \in Pieces(s)
      <3>1. CASE s = "mockserver"
        <4>1. Givens(s) = Expectations
          BY <3>1 DEF Givens
        <4>2. Pieces(s) = {Body(e) : e \in Expectations}
          BY <3>1 DEF Pieces, FromPaths
        <4> QED
          BY <1>1, <3>1, <4>1, <4>2 DEF Complete
      <3>2. CASE s = "kafka"
        <4>1. Givens(s) = Topics
          BY <3>2 DEF Givens
        <4>2. Pieces(s) = {TopicSpec(t) : t \in Topics}
          BY <3>2 DEF Pieces, FromPaths
        <4> QED
          BY <1>1, <3>2, <4>1, <4>2 DEF Complete
      <3>3. CASE s \in {"drop", "truncate"}
        BY <1>1, <3>3 DEF Givens, Pieces, FromPaths, Complete
      <3> QED
        BY <1>2, <3>1, <3>2, <3>3 DEF Services, FromPaths
    <2>2. FirstWork(s, g) = [i \in 1..Len(g) |-> Complete(s, g[i])]
      BY <1>1, <1>2 DEF FirstWork
    <2>3. [i \in 1..Len(g) |-> Complete(s, g[i])] \in Seq(Pieces(s))
      BY <1>1, <2>1
    <2> QED
      BY <1>1, <2>2, <2>3, LenProperties
  <1>3. CASE s \in FromPaths
    BY <1>3 DEF FirstWork
  <1> QED
    BY <1>2, <1>3

(* What every step but Configure and ExpandPath leaves alone.              *)
LEMMA PlanKept ==
  ASSUME SetupIInv, UNCHANGED <<givenVars, pathVars, work>>
  PROVE  /\ Pieces(service)' = Pieces(service)
         /\ (service \in FromPaths => Walked)'
         /\ (service \notin FromPaths => work = FirstWork(service, given))'
         /\ \A item : PlaceOf(item)' = PlaceOf(item)
  <1>1. /\ service' = service /\ given' = given /\ strictPath' = strictPath
        /\ looked' = looked /\ entry' = entry /\ work' = work
    BY DEF givenVars, pathVars
  <1>2. Wanted' = Wanted
    BY <1>1 DEF Wanted, Visible
  <1>3. Walked' = Walked
    BY <1>1, <1>2 DEF Walked, Passed
  <1>4. \A item : PlaceOf(item)' = PlaceOf(item)
    BY <1>1 DEF PlaceOf
  <1> QED
    BY <1>1, <1>3, <1>4 DEF SetupIInv

(* Files that are given go to a place of the container.                    *)
LEMMA PlaceIs ==
  ASSUME SetupIInv, service \in FromPaths, NEW item \in Wanted
  PROVE  PlaceOf(item) \in Places /\ item \in Items
  <1>1. given \in Seq(Givens(service)) /\ item.at \in DOMAIN given /\ item \in Items
    BY DEF SetupIInv, Typed, SetupTypeOK, Wanted
  <1>2. given[item.at] \in Givens(service) /\ item.name \in BaseNames
    BY <1>1, LenProperties, ElementOfSeq DEF Items
  <1>3. given[item.at].for \in {"mappings", "files", "scripts"}
    BY <1>2 DEF FromPaths, Givens, Paths
  <1> QED
    BY <1>1, <1>2, <1>3 DEF PlaceOf, Places

(* While nothing is copied and the plan is kept, nothing is moved.         *)
LEMMA PlacesKept ==
  ASSUME SetupIInv, UNCHANGED <<givenVars, pathVars, work, effects, inbox>>
  PROVE  (service = "wiremock" => FilesInPlace)'
  <1>1. service' = service /\ effects' = effects /\ inbox' = inbox /\ \A item : PlaceOf(item)' = PlaceOf(item)
    BY PlanKept DEF givenVars
  <1>2. FilesInPlace' = FilesInPlace
    BY <1>1 DEF FilesInPlace, Among
  <1> QED
    BY <1>1, <1>2 DEF SetupIInv

LEMMA SetupInitInv == SetupInit => SetupIInv
  <1> SUFFICES ASSUME SetupInit PROVE SetupIInv
    OBVIOUS
  <1>1. FirstWork(service, given) = <<>>
    BY DEF SetupInit, FirstWork
  <1>2. Typed
    <2>1. /\ given \in Seq(Givens(service)) /\ Len(given) = 0
          /\ work \in Seq(Pieces(service)) /\ Len(work) = 0
          /\ effects \in Seq(Pieces(service)) /\ Len(effects) = 0
      BY DEF SetupInit
    <2>2. inbox \in Boxes
      BY DEF SetupInit, Boxes
    <2>3. looked \in 0..Len(given) /\ entry \in 0..MaxBaseName
      BY <2>1 DEF SetupInit
    <2>4. /\ service \in Services /\ service \notin FromPaths
          /\ stand \in {"idle"} /\ container \in {"none"}
      BY DEF SetupInit, Services, FromPaths
    <2>5. strictPath \in BOOLEAN /\ copied \in BOOLEAN
      BY DEF SetupInit
    <2> QED
      BY <2>1, <2>2, <2>3, <2>4, <2>5 DEF Typed, SetupTypeOK
  <1>3. Standing /\ ToldTopics
    BY DEF SetupInit, Standing, ToldTopics, FromPaths
  <1> QED
    BY <1>1, <1>2, <1>3 DEF SetupInit, SetupIInv, FromPaths

LEMMA ConfigureInv == ASSUME SetupIInv, Configure PROVE SetupIInv'
  <1>1. PICK s \in Services, n \in 0..MaxGiven : \E g \in [1..n -> Givens(s)] :
            service' = s /\ given' = g /\ stand' = FirstStand(s) /\ work' = FirstWork(s, g)
    BY DEF Configure
  <1> PICK g \in [1..n -> Givens(s)] :
            service' = s /\ given' = g /\ stand' = FirstStand(s) /\ work' = FirstWork(s, g)
    BY <1>1
  <1>2. /\ looked' = 0 /\ entry' = 0 /\ effects' = <<>> /\ container' = "none" /\ copied' = FALSE
        /\ inbox' = inbox /\ strictPath' \in BOOLEAN
    BY DEF Configure, SetupIInv, Standing, Typed, SetupTypeOK, pathVars, boxVars
  <1>3. g \in Seq(Givens(s)) /\ n \in Nat
    BY SeqOfFcn
  <1>4. /\ Len(given') \in Nat /\ Len(effects') = 0 /\ Len(work') \in Nat
        /\ work' \in Seq(Pieces(s)) /\ effects' \in Seq(Pieces(s))
        /\ s \in FromPaths => work' = <<>>
    BY <1>1, <1>2, <1>3, FirstWorkIs, LenProperties DEF FirstWork
  <1>5. FirstStand(s) \in {"expanding", "starting", "applying"} /\ (FirstStand(s) = "applying" => s # "wiremock")
        /\ (s \in FromPaths => FirstStand(s) # "applying") /\ (s = "wiremock" => FirstStand(s) # "starting")
        /\ (FirstStand(s) = "expanding" => s \in FromPaths)
    BY DEF FirstStand, FromPaths
  <1>6. Typed'
    <2>1. s \in FromPaths => Pieces(s) = Items
      BY DEF Pieces, FromPaths
    <2>2. inbox' \in Boxes /\ copied' \in BOOLEAN
      BY <1>2 DEF SetupIInv, Typed, SetupTypeOK
    <2>3. stand' \in {"idle", "expanding", "starting", "applying", "done", "failed"}
      BY <1>1, <1>5
    <2>4. /\ looked' \in 0..Len(given') /\ entry' \in 0..MaxBaseName /\ Len(effects') <= Len(work')
          /\ Len(given') <= MaxGiven
      BY <1>1, <1>2, <1>3, <1>4, SeqOfFcn
    <2> QED
      BY <1>1, <1>2, <1>3, <1>4, <2>1, <2>2, <2>3, <2>4 DEF Typed, SetupTypeOK
  <1>7. Standing'
    BY <1>1, <1>2, <1>4, <1>5 DEF Standing, FromPaths
  <1>10. FilesInPlace'
    <2>1. inbox = [p \in Places |-> NoItem]
      BY DEF Configure, SetupIInv, Standing
    <2> QED
      BY <1>2, <2>1 DEF FilesInPlace
  <1>8. s \in FromPaths => Walked'
    BY <1>1, <1>2, <1>4 DEF Walked, Passed, Wanted, Items, BaseNames
  <1>9. InTurn' /\ (service = "kafka" => ToldTopics)'
    BY <1>1, <1>2, <1>5 DEF InTurn, ToldTopics
  <1> QED
    BY <1>1, <1>6, <1>7, <1>8, <1>9, <1>10 DEF SetupIInv

LEMMA ExpandPathInv == ASSUME SetupIInv, ExpandPath PROVE SetupIInv'
  <1> DEFINE path == given[looked + 1]
  <1>1. /\ service' = service /\ given' = given /\ strictPath' = strictPath
        /\ container' = container /\ inbox' = inbox /\ copied' = copied /\ effects' = effects
        /\ stand = "expanding" /\ looked < Len(given)
    BY DEF ExpandPath, givenVars, boxVars
  <1>2. /\ service \in FromPaths /\ effects = <<>> /\ ~copied /\ Pieces(service) = Items
        /\ looked \in Nat /\ entry \in Nat /\ entry <= MaxBaseName /\ Len(given) \in Nat /\ Len(given) <= MaxGiven
        /\ work \in Seq(Items) /\ Len(work) \in Nat /\ DOMAIN work = 1..Len(work)
        /\ effects \in Seq(Items) /\ Len(effects) = 0
        /\ given \in Seq(Givens(service)) /\ DOMAIN given = 1..Len(given)
    <2>1. service \in FromPaths /\ effects = <<>> /\ ~copied
      BY <1>1 DEF SetupIInv, Standing
    <2>2. Pieces(service) = Items
      BY <2>1 DEF Pieces, FromPaths
    <2> QED
      BY <2>1, <2>2, LenProperties DEF SetupIInv, Typed, SetupTypeOK
  <1>3. Wanted' = Wanted
    BY <1>1 DEF Wanted, Visible
  <1>4. path \in Givens(service) /\ looked + 1 \in DOMAIN given
    BY <1>1, <1>2, ElementOfSeq
  <1>5. Walked
    BY <1>2 DEF SetupIInv
  (* What is left to show is where the walk stands.                        *)
  <1>6. ASSUME stand' \in {"failed", "expanding"}, Walked', work' \in Seq(Items),
               looked' \in 0..Len(given), entry' \in 0..MaxBaseName
        PROVE  SetupIInv'
    <2>1. Len(work') \in Nat
      BY <1>6, LenProperties
    <2>2. Typed'
      BY <1>1, <1>2, <1>6, <2>1 DEF SetupIInv, Typed, SetupTypeOK
    <2>3. Standing'
      BY <1>1, <1>2, <1>6 DEF SetupIInv, Standing, FromPaths
    <2>4. InTurn' /\ service # "kafka"
      BY <1>1, <1>2 DEF InTurn, FromPaths
    <2>5. (service = "wiremock" => FilesInPlace)'
      <3>1. FilesInPlace' = FilesInPlace
        BY <1>1 DEF FilesInPlace, PlaceOf, Among
      <3> QED
        BY <1>1, <3>1 DEF SetupIInv
    <2> QED
      BY <1>1, <1>2, <1>6, <2>2, <2>3, <2>4, <2>5 DEF SetupIInv
  <1>7. CASE MayFail(path) /\ stand' = "failed" /\ UNCHANGED <<pathVars, work>>
    <2>1. Walked'
      BY <1>1, <1>3, <1>5, <1>7 DEF Walked, Passed, pathVars
    <2> QED
      BY <1>1, <1>2, <1>6, <1>7, <2>1 DEF pathVars
  <1> DEFINE InOrder ==
        /\ \A i \in DOMAIN work : work[i] \in Wanted /\ Passed(work[i])
        /\ \A i, j \in DOMAIN work : i < j => Earlier(work[i], work[j])
        /\ \A item \in Wanted : Passed(item) => Among(item, work)
  (* A file that is found comes after those before, and none is left out.  *)
  <1>8. ASSUME NEW item \in Items, work' = Append(work, item),
               item \in Wanted, item.at = looked + 1, item.name > entry, Passed(item)',
               \A x \in Wanted : Passed(x) => Passed(x)',
               \A x \in Wanted : Passed(x)' => Passed(x) \/ x = item
        PROVE  work' \in Seq(Items) /\ InOrder'
    <2>1. /\ work' \in Seq(Items) /\ DOMAIN work' = 1..(Len(work) + 1)
          /\ \A i \in DOMAIN work : work'[i] = work[i]
          /\ work'[Len(work) + 1] = item
      BY <1>2, <1>8, AppendProperties, LenProperties
    <2>2. \A i \in DOMAIN work' : i \in DOMAIN work \/ i = Len(work) + 1
      BY <1>2, <2>1
    <2>3. (\A i \in DOMAIN work : work[i] \in Wanted /\ Passed(work[i]))'
      BY <1>3, <1>5, <1>8, <2>1, <2>2 DEF Walked
    <2>4. ASSUME NEW i \in DOMAIN work', NEW j \in DOMAIN work', i < j
          PROVE  Earlier(work'[i], work'[j])
      <3>1. i \in DOMAIN work
        BY <1>2, <2>1, <2>2, <2>4
      <3>2. CASE j \in DOMAIN work
        BY <1>5, <2>1, <2>4, <3>1, <3>2 DEF Walked
      <3>3. CASE j = Len(work) + 1
        <4>1. Passed(work[i]) /\ work[i] \in Items
          BY <1>5, <3>1 DEF Walked, Wanted
        <4>2. Earlier(work[i], item)
          BY <1>2, <1>8, <4>1 DEF Passed, Earlier, Items, BaseNames
        <4> QED
          BY <2>1, <3>1, <3>3, <4>2
      <3> QED
        BY <2>2, <3>2, <3>3
    <2>5. ASSUME NEW x \in Wanted, Passed(x)'
          PROVE  \E i \in DOMAIN work' : work'[i] = x
      <3>1. Passed(x) \/ x = item
        BY <1>8, <2>5
      <3>2. CASE Passed(x)
        <4>1. PICK i \in DOMAIN work : work[i] = x
          BY <1>5, <3>2 DEF Walked, Among
        <4> QED
          BY <1>2, <2>1, <4>1
      <3>3. CASE x = item
        BY <1>2, <2>1, <3>3
      <3> QED
        BY <3>1, <3>2, <3>3
    <2> QED
      BY <1>3, <2>1, <2>3, <2>4, <2>5 DEF Among
  <1>9. ASSUME work' = work, \A x \in Wanted : Passed(x)' <=> Passed(x)
        PROVE  work' \in Seq(Items) /\ InOrder'
    BY <1>2, <1>3, <1>5, <1>9 DEF Walked
  <1>10. CASE ReadEntry(path)
    <2> PICK item : item = FileAt(looked + 1, entry + 1)
      OBVIOUS
    <2>1. /\ path.is = "dir" /\ entry < MaxBaseName /\ entry' = entry + 1 /\ looked' = looked
          /\ stand' = stand
          /\ path.holds[entry + 1] \in Taken => work' = Append(work, item)
          /\ path.holds[entry + 1] \notin Taken => work' = work
      BY <1>10 DEF ReadEntry
    <2>2. item \in Items /\ item.at = looked + 1 /\ item.name = entry + 1
      BY <1>2, <1>4, <2>1 DEF FileAt, Items, BaseNames
    <2>3. item \in Wanted <=> path.holds[entry + 1] \in Taken
      BY <1>2, <1>4, <2>1, <2>2 DEF Wanted, Visible, Taken, FromPaths
    <2>4. \A x \in Wanted : Passed(x)' <=> Passed(x) \/ x = item
      <3> SUFFICES ASSUME NEW x \in Wanted PROVE Passed(x)' <=> Passed(x) \/ x = item
        OBVIOUS
      <3>1. x = item <=> x.at = looked + 1 /\ x.name = entry + 1
        BY DEF Wanted, Items, FileAt
      <3>2. x.at \in Nat /\ x.name \in Nat
        BY DEF Wanted, Items, BaseNames
      <3> QED
        BY <1>2, <2>1, <3>1, <3>2 DEF Passed
    <2>5. ~Passed(item) /\ Passed(item)'
      BY <1>2, <2>1, <2>2 DEF Passed
    <2> HIDE DEF InOrder
    <2>6. work' \in Seq(Items) /\ InOrder'
      <3>1. CASE path.holds[entry + 1] \in Taken
        BY <1>2, <1>8, <2>1, <2>2, <2>3, <2>4, <2>5, <3>1
      <3>2. CASE path.holds[entry + 1] \notin Taken
        BY <1>9, <2>1, <2>3, <2>4, <3>2
      <3> QED
        BY <3>1, <3>2
    <2>7. Walked'
      <3> USE DEF InOrder
      <3>1. entry' > 0 => looked' < Len(given') /\ given'[looked' + 1].is = "dir"
        BY <1>1, <2>1
      <3>2. strictPath' => \A i \in 1..looked' : given'[i].is # "missing"
        BY <1>1, <1>5, <2>1 DEF Walked
      <3> QED
        BY <2>6, <3>1, <3>2 DEF Walked
    <2> QED
      BY <1>1, <1>2, <1>6, <2>1, <2>6, <2>7
  <1>11. CASE NextPath(path)
    <2> PICK item : item = FileAt(looked + 1, path.base)
      OBVIOUS
    <2>1. /\ ~Refused(path) /\ (path.is = "dir" => entry = MaxBaseName)
          /\ looked' = looked + 1 /\ entry' = 0 /\ stand' = stand
          /\ path.is = "file" => work' = Append(work, item)
          /\ path.is # "file" => work' = work
      BY <1>11 DEF NextPath
    <2>2. path.is \in {"missing", "denied", "file", "dir"} /\ (path.is = "file" => path.base \in BaseNames)
      BY <1>2, <1>4, PathIs
    <2>3. path.is # "dir" => entry = 0
      BY <1>2, <1>5 DEF Walked
    <2>4. \A x \in Wanted : x.at \in Nat /\ x.name \in 1..MaxBaseName
      BY DEF Wanted, Items, BaseNames
    <2>5. \A x \in Wanted : Passed(x)' <=> Passed(x) \/ x.at = looked + 1
      BY <1>2, <2>1, <2>4 DEF Passed
    <2>6. \A x \in Wanted : x.at = looked + 1 => Visible(path, x.name)
      BY DEF Wanted
    <2> HIDE DEF InOrder
    <2>7. work' \in Seq(Items) /\ InOrder'
      <3>1. CASE path.is = "file"
        <4>1. item \in Items /\ item.at = looked + 1 /\ item.name = path.base
          BY <1>2, <1>4, <2>2, <3>1 DEF FileAt, Items
        <4>2. item \in Wanted /\ item.name > entry
          BY <1>4, <2>2, <2>3, <3>1, <4>1 DEF Wanted, Visible, BaseNames
        <4>3. \A x \in Wanted : x.at = looked + 1 => x = item
          BY <2>6, <3>1 DEF Visible, FileAt, Wanted, Items
        <4> QED
          BY <1>8, <2>1, <2>5, <3>1, <4>1, <4>2, <4>3
      <3>2. CASE path.is # "file"
        <4>1. \A x \in Wanted : x.at = looked + 1 => Passed(x)
          <5> SUFFICES ASSUME NEW x \in Wanted, x.at = looked + 1 PROVE Passed(x)
            OBVIOUS
          <5>1. path.is = "dir"
            BY <2>6, <3>2 DEF Visible
          <5> QED
            BY <2>1, <2>4, <5>1 DEF Passed
        <4> QED
          BY <1>9, <2>1, <2>5, <3>2, <4>1
      <3> QED
        BY <3>1, <3>2
    <2>8. Walked'
      <3> USE DEF InOrder
      <3>1. strictPath' => \A i \in 1..looked' : given'[i].is # "missing"
        <4>1. strictPath => path.is # "missing"
          BY <2>1 DEF Refused
        <4>2. \A i \in 1..looked' : i \in 1..looked \/ i = looked + 1
          BY <1>2, <2>1
        <4> QED
          BY <1>1, <1>5, <4>1, <4>2 DEF Walked
      <3> QED
        BY <2>1, <2>7, <3>1 DEF Walked
    <2> QED
      BY <1>1, <1>2, <1>6, <2>1, <2>7, <2>8
  <1> QED
    BY <1>7, <1>10, <1>11 DEF ExpandPath

(* The other steps follow the plan; of the effects, this is to be shown.   *)
EffectsHold ==
    /\ effects \in Seq(Pieces(service)) /\ Len(effects) <= Len(work)
    /\ service # "kafka" => InTurn
    /\ service = "kafka" => \A i \in DOMAIN effects : Among(effects[i], work)
    /\ service = "truncate" => effects = <<>> \/ Len(effects) = Len(work)

LEMMA EffectsKept ==
  ASSUME SetupIInv, UNCHANGED <<givenVars, pathVars, work, effects>>
  PROVE  EffectsHold /\ EffectsHold'
  <1>1. EffectsHold
    BY DEF SetupIInv, Typed, SetupTypeOK, Standing, ToldTopics, EffectsHold
  <1>2. EffectsHold' = EffectsHold
    BY PlanKept DEF EffectsHold, InTurn, Among, givenVars
  <1> QED
    BY <1>1, <1>2

LEMMA FollowsPlan ==
  ASSUME SetupIInv, UNCHANGED <<givenVars, pathVars, work>>, EffectsHold', Standing',
         stand' \in {"idle", "expanding", "starting", "applying", "done", "failed"},
         container' \in {"none", "dropped", "running"},
         inbox' \in Boxes, copied' \in BOOLEAN,
         (service = "kafka" => ToldTopics)', (service = "wiremock" => FilesInPlace)'
  PROVE  SetupIInv'
  <1>1. /\ service' = service /\ given' = given /\ strictPath' = strictPath
        /\ looked' = looked /\ entry' = entry /\ work' = work /\ Pieces(service)' = Pieces(service)
    BY PlanKept DEF givenVars, pathVars
  <1>2. service \in FromPaths => Pieces(service) = Items
    BY DEF Pieces, FromPaths
  <1>3. Typed'
    BY <1>1, <1>2 DEF Typed, SetupTypeOK, SetupIInv, EffectsHold
  <1> QED
    BY <1>3, PlanKept DEF SetupIInv, EffectsHold

LEMMA FailsInv ==
  ASSUME SetupIInv, NEW c \in {"none", "dropped", "running"}, Fails(c), EffectsHold',
         c = "running" => service # "wiremock", service = "wiremock" => UNCHANGED effects
  PROVE  SetupIInv'
  <1>1. /\ UNCHANGED <<givenVars, pathVars, work>> /\ stand' = "failed" /\ container' = c
        /\ inbox' = inbox /\ copied' = copied /\ service' = service
    BY DEF Fails, givenVars
  <1>2. inbox \in Boxes /\ copied \in BOOLEAN
    BY DEF SetupIInv, Typed, SetupTypeOK
  <1>3. Standing'
    BY <1>1 DEF Standing, EffectsHold, SetupIInv
  <1>4. (service = "kafka" => ToldTopics)'
    BY <1>1 DEF ToldTopics, EffectsHold
  <1>5. (service = "wiremock" => FilesInPlace)'
    BY <1>1, PlacesKept
  <1> QED
    BY <1>1, <1>2, <1>3, <1>4, <1>5, FollowsPlan

LEMMA ExpandedInv == ASSUME SetupIInv, Expanded PROVE SetupIInv'
  <1>1. /\ UNCHANGED <<givenVars, pathVars, work, effects>> /\ stand = "expanding" /\ looked = Len(given)
        /\ stand' = IF service = "wiremock" THEN "starting" ELSE "applying"
        /\ service' = service /\ given' = given /\ looked' = looked /\ container' = container
        /\ inbox' = inbox /\ copied' = copied /\ effects' = effects /\ work' = work
    BY DEF Expanded, givenVars, boxVars, pathVars
  <1>2. service \in FromPaths /\ effects = <<>> /\ ~copied /\ service # "kafka"
    BY <1>1 DEF SetupIInv, Standing, FromPaths
  <1>3. Standing'
    BY <1>1, <1>2 DEF Standing, SetupIInv
  <1> QED
    BY <1>1, <1>2, <1>3, EffectsKept, PlacesKept, FollowsPlan DEF SetupIInv, Typed, SetupTypeOK

LEMMA NextPieceIs ==
  ASSUME SetupIInv, Len(effects) < Len(work)
  PROVE  /\ NextPiece \in Pieces(service) /\ Len(effects) \in Nat
         /\ service = "localstack" => NextPiece \in Items /\ NextPiece.name \in BaseNames
  <1>1. work \in Seq(Pieces(service)) /\ Len(work) \in Nat /\ Len(effects) \in Nat
    BY LenProperties DEF SetupIInv, Typed
  <1>2. NextPiece \in Pieces(service)
    BY <1>1, ElementOfSeq DEF NextPiece
  <1>3. service = "localstack" => Pieces(service) = Items
    BY DEF Pieces, FromPaths
  <1> QED
    BY <1>1, <1>2, <1>3 DEF Items

LEMMA GoesNext ==
  ASSUME SetupIInv, Len(effects) < Len(work), Goes(<<NextPiece>>),
         UNCHANGED <<givenVars, pathVars, work>>, service \notin {"kafka", "truncate"}
  PROVE  EffectsHold' /\ Len(effects') = Len(effects) + 1
  <1>1. PICK x \in Pieces(service) : x = NextPiece
    BY NextPieceIs
  <1>2. /\ work \in Seq(Pieces(service)) /\ effects \in Seq(Pieces(service)) /\ InTurn
        /\ Len(work) \in Nat /\ Len(effects) \in Nat
    BY LenProperties DEF SetupIInv, Typed
  <1>3. /\ effects \o <<x>> \in Seq(Pieces(service)) /\ Len(effects \o <<x>>) = Len(effects) + 1
        /\ \A i \in DOMAIN (effects \o <<x>>) : (effects \o <<x>>)[i] = work[i]
    BY <1>1, <1>2, NextOf DEF NextPiece, InTurn
  <1>4. effects' = effects \o <<x>>
    BY <1>1 DEF Goes
  <1>5. /\ effects' \in Seq(Pieces(service)) /\ Len(effects') = Len(effects) + 1
        /\ \A i \in DOMAIN effects' : effects'[i] = work[i]
    BY <1>3, <1>4
  <1>6. Pieces(service)' = Pieces(service) /\ service' = service /\ work' = work
    BY PlanKept DEF givenVars
  <1> QED
    BY <1>2, <1>5, <1>6 DEF EffectsHold, InTurn

(* The next file is of those given, comes after all that were copied, and  *)
(* goes to a place of its own or overwrites one of them.                   *)
LEMMA NextFile ==
  ASSUME SetupIInv, service \in FromPaths, Len(effects) < Len(work)
  PROVE  /\ NextPiece \in Wanted /\ PlaceOf(NextPiece) \in Places /\ NextPiece \in Items
         /\ \A i \in DOMAIN effects : effects[i] \in Wanted /\ Earlier(effects[i], NextPiece)
  <1>1. /\ work \in Seq(Pieces(service)) /\ Len(work) \in Nat /\ DOMAIN work = 1..Len(work)
        /\ effects \in Seq(Pieces(service)) /\ Len(effects) \in Nat /\ DOMAIN effects = 1..Len(effects)
        /\ Walked /\ InTurn
    BY LenProperties DEF SetupIInv, Typed, FromPaths
  <1>2. Len(effects) + 1 \in DOMAIN work
    BY <1>1
  <1>3. NextPiece \in Wanted
    BY <1>1, <1>2 DEF NextPiece, Walked
  <1>4. ASSUME NEW i \in DOMAIN effects
        PROVE  effects[i] \in Wanted /\ Earlier(effects[i], NextPiece)
    <2>1. i \in DOMAIN work /\ i < Len(effects) + 1 /\ effects[i] = work[i]
      BY <1>1 DEF InTurn
    <2> QED
      BY <1>1, <1>2, <2>1 DEF NextPiece, Walked
  <1> QED
    BY <1>3, <1>4, PlaceIs

LEMMA CopyFileInv == ASSUME SetupIInv, CopyFile PROVE SetupIInv'
  <1>1. /\ stand = "starting" /\ service = "wiremock" /\ Len(effects) < Len(work)
        /\ Put(NextPiece) /\ Goes(<<NextPiece>>)
        /\ UNCHANGED <<givenVars, pathVars, work>> /\ stand' = stand /\ container' = container /\ copied' = copied
        /\ service' = service /\ given' = given /\ looked' = looked /\ work' = work
    BY DEF CopyFile, givenVars, pathVars
  <1>2. EffectsHold' /\ Len(effects') = Len(effects) + 1
    BY <1>1, GoesNext
  <1>3. service \in FromPaths
    BY <1>1 DEF FromPaths
  <1>4. PICK x \in Items : /\ x = NextPiece /\ x \in Wanted /\ PlaceOf(x) \in Places
                          /\ \A i \in DOMAIN effects : effects[i] \in Wanted /\ Earlier(effects[i], x)
    BY <1>1, <1>3, NextFile
  <1>5. PICK place \in Places : place = PlaceOf(x)
    BY <1>4
  <1>6. inbox' = [inbox EXCEPT ![place] = x] /\ inbox \in [Places -> Items \cup {NoItem}]
    BY <1>1, <1>4, <1>5 DEF Put, SetupIInv, Typed, SetupTypeOK, Boxes
  <1>7. inbox' \in [Places -> Items \cup {NoItem}] /\ inbox'[place] = x /\ \A p \in Places : p # place => inbox'[p] = inbox[p]
    BY <1>6
  <1>8. /\ DOMAIN effects = 1..Len(effects) /\ DOMAIN effects' = 1..(Len(effects) + 1) /\ Len(effects) \in Nat
        /\ \A i \in DOMAIN effects : effects'[i] = effects[i]
        /\ effects'[Len(effects) + 1] = x
    <2>1. effects \in Seq(Pieces(service)) /\ effects' = Append(effects, x)
      BY <1>1, <1>4 DEF Goes, SetupIInv, Typed
    <2>2. x \in Pieces(service)
      <3>1. Pieces(service) = Items
        BY <1>1 DEF Pieces, FromPaths
      <3> QED
        BY <3>1
    <2> QED
      BY <2>1, <2>2, AppendProperties, LenProperties
  <1>9. FilesInPlace
    BY <1>1 DEF SetupIInv
  <1>10. \A item : PlaceOf(item)' = PlaceOf(item)
    BY <1>1, PlanKept
  <1>11. ASSUME NEW p \in Places, inbox'[p] # NoItem
         PROVE  Among(inbox'[p], effects') /\ PlaceOf(inbox'[p]) = p
    <2>1. CASE p = place
      BY <1>5, <1>7, <1>8, <2>1 DEF Among
    <2>2. CASE p # place
      <3>1. inbox'[p] = inbox[p]
        BY <1>7, <2>2
      <3>2. Among(inbox[p], effects) /\ PlaceOf(inbox[p]) = p
        BY <1>9, <1>11, <3>1 DEF FilesInPlace
      <3> QED
        BY <1>8, <3>1, <3>2 DEF Among
    <2> QED
      BY <2>1, <2>2
  <1>12. ASSUME NEW i \in DOMAIN effects'
         PROVE  inbox'[PlaceOf(effects'[i])] = effects'[i] \/ Earlier(effects'[i], inbox'[PlaceOf(effects'[i])])
    <2>1. CASE i = Len(effects) + 1
      BY <1>5, <1>7, <1>8, <2>1
    <2>2. CASE i \in DOMAIN effects
      <3>1. effects'[i] = effects[i] /\ effects[i] \in Wanted /\ Earlier(effects[i], x)
        BY <1>4, <1>8, <2>2
      <3>2. PlaceOf(effects[i]) \in Places
        BY <1>3, <3>1, PlaceIs
      <3>3. inbox[PlaceOf(effects[i])] = effects[i] \/ Earlier(effects[i], inbox[PlaceOf(effects[i])])
        BY <1>9, <2>2 DEF FilesInPlace
      <3> QED
        BY <1>7, <3>1, <3>2, <3>3
    <2> QED
      BY <1>8, <2>1, <2>2
  <1>13. FilesInPlace'
    <2>1. \A p \in Places : inbox'[p] # NoItem => Among(inbox'[p], effects') /\ PlaceOf(inbox'[p]) = p
      BY <1>11
    <2>2. \A i \in DOMAIN effects' :
             inbox'[PlaceOf(effects'[i])] = effects'[i] \/ Earlier(effects'[i], inbox'[PlaceOf(effects'[i])])
      BY <1>12
    <2>3. \A q, p : (PlaceOf(q)' = p) <=> (PlaceOf(q) = p)
      BY <1>10
    <2> QED
      BY <1>10, <2>1, <2>2 DEF FilesInPlace, Among, Earlier
  <1>14. Standing'
    BY <1>1, <1>2, <1>3 DEF Standing, SetupIInv
  <1>15. /\ stand \in {"starting"} /\ container \in {"none", "dropped", "running"} /\ copied \in BOOLEAN
         /\ service' # "kafka"
    BY <1>1 DEF SetupIInv, Typed, SetupTypeOK
  <1> QED
    BY <1>1, <1>2, <1>7, <1>13, <1>14, <1>15, FollowsPlan DEF Boxes

LEMMA StartingOneInv == ASSUME SetupIInv, StartingOne PROVE SetupIInv'
  <1>1. ASSUME NEW s, StartFails(s)
        PROVE  SetupIInv'
    <2>1. UNCHANGED <<givenVars, pathVars, work, effects>> /\ (Fails("none") \/ Fails("dropped"))
      BY <1>1 DEF StartFails, Fails
    <2> QED
      BY <2>1, EffectsKept, FailsInv
  <1>2. ASSUME NEW s, NEW next, Starts(s, next)
        PROVE  /\ UNCHANGED <<givenVars, pathVars, work>>
               /\ stand = "starting" /\ service = s /\ container' = "running" /\ stand' = next
               /\ service' = service /\ given' = given /\ looked' = looked /\ work' = work
               /\ inbox' = inbox /\ copied' = copied /\ ~copied
               /\ s # "wiremock" => effects = <<>>
               /\ inbox' \in Boxes /\ copied' \in BOOLEAN
    BY <1>2 DEF Starts, givenVars, pathVars, SetupIInv, Standing, Typed, SetupTypeOK
  <1>3. ASSUME NEW s \in {"mockserver", "localstack"}, NEW next \in {"applying", "expanding"},
               Starts(s, next), UNCHANGED effects, next = "expanding" => s = "localstack",
               s = "localstack" => next = "expanding"
        PROVE  SetupIInv'
    <2>1. EffectsHold'
      BY <1>2, <1>3, EffectsKept
    <2>2. Standing'
      BY <1>2, <1>3 DEF Standing, FromPaths
    <2>3. service' # "wiremock"
      BY <1>2, <1>3
    <2>4. service' # "kafka"
      BY <1>2, <1>3
    <2> QED
      BY <1>2, <1>3, <2>1, <2>2, <2>3, <2>4, FollowsPlan
  <1>4. CASE Starts("wiremock", "done") /\ Len(effects) = Len(work) /\ UNCHANGED effects
    <2>1. EffectsHold' /\ effects' = effects
      BY <1>2, <1>4, EffectsKept
    <2>2. looked = Len(given)
      BY <1>2, <1>4 DEF SetupIInv, Standing
    <2>3. Standing'
      BY <1>2, <1>4, <2>1, <2>2 DEF Standing
    <2>4. (service = "wiremock" => FilesInPlace)'
      BY <1>2, <1>4, PlacesKept
    <2> QED
      BY <1>2, <1>4, <2>1, <2>3, <2>4, FollowsPlan
  <1> QED
    BY <1>1, <1>3, <1>4, CopyFileInv DEF StartingOne, startOneMockServer, startOneLocalStack, startOneWireMock

LEMMA CopyScriptInv == ASSUME SetupIInv, CopyScript PROVE SetupIInv'
  <1>1. /\ stand = "applying" /\ service = "localstack" /\ Len(effects) < Len(work) /\ effects' = effects
    BY DEF CopyScript
  <1>2. CASE /\ Put(NextPiece)
             /\ copied' = TRUE
             /\ UNCHANGED <<givenVars, stand, pathVars, work, container>>
    <2>1. PICK x \in Items : x = NextPiece /\ PlaceOf(x) \in Places
      BY <1>1, NextFile DEF FromPaths
    <2>2. inbox \in Boxes
      BY DEF SetupIInv, Typed, SetupTypeOK
    <2>3. inbox' = [inbox EXCEPT ![PlaceOf(x)] = x]
      BY <1>2, <2>1 DEF Put
    <2>4. inbox' \in Boxes /\ inbox'[PlaceOf(x)] = x
      BY <2>1, <2>2, <2>3 DEF Boxes
    <2>5. /\ work' = work /\ stand' = stand /\ service' = service /\ given' = given /\ looked' = looked
          /\ container' = container /\ NextPiece' = x /\ PlaceOf(NextPiece)' = PlaceOf(x)
      BY <1>1, <1>2, <2>1, PlanKept DEF givenVars, pathVars, NextPiece, PlaceOf
    <2>6. Standing'
      BY <1>1, <1>2, <2>1, <2>4, <2>5 DEF Standing, FromPaths, SetupIInv
    <2>7. stand \in {"applying"} /\ container \in {"none", "dropped", "running"}
      BY <1>1 DEF SetupIInv, Typed, SetupTypeOK
    <2> QED
      BY <1>1, <1>2, <2>4, <2>5, <2>6, <2>7, EffectsKept, FollowsPlan
  <1>3. CASE Fails(container)
    <2>1. UNCHANGED <<givenVars, pathVars, work, effects>> /\ container \in {"none", "dropped", "running"}
      BY <1>1, <1>3 DEF Fails, SetupIInv, Typed, SetupTypeOK
    <2> QED
      BY <1>1, <1>3, <2>1, EffectsKept, FailsInv
  <1> QED
    BY <1>2, <1>3 DEF CopyScript

LEMMA GoesOn ==
  ASSUME SetupIInv, stand = "applying", service \notin {"kafka", "wiremock"}, EffectsHold', copied' = FALSE,
         UNCHANGED <<givenVars, stand, pathVars, work, container, inbox>>
  PROVE  SetupIInv'
  <1>1. /\ work' = work /\ stand' = stand /\ service' = service /\ given' = given /\ looked' = looked
        /\ container' = container /\ inbox' = inbox
    BY DEF givenVars, pathVars
  <1>2. Standing'
    BY <1>1 DEF Standing, EffectsHold, SetupIInv
  <1>3. /\ stand \in {"applying"} /\ container \in {"none", "dropped", "running"}
        /\ inbox \in Boxes
    BY DEF SetupIInv, Typed, SetupTypeOK
  <1> QED
    BY <1>1, <1>2, <1>3, FollowsPlan

(* A piece of work is done, or not, or is done and fails all the same.     *)
LEMMA PieceInv ==
  ASSUME SetupIInv, stand = "applying", service \notin {"kafka", "wiremock"},
         NEW did, Goes(did) /\ UNCHANGED <<givenVars, pathVars, work>> => EffectsHold',
         \/ Goes(did) /\ UNCHANGED <<givenVars, stand, pathVars, work, container, inbox>> /\ copied' = FALSE
         \/ UNCHANGED effects /\ Fails(container)
         \/ Goes(did) /\ Fails(container)
  PROVE  SetupIInv'
  <1>1. container \in {"none", "dropped", "running"}
    BY DEF SetupIInv, Typed, SetupTypeOK
  <1>2. ASSUME Fails(container)
        PROVE  UNCHANGED <<givenVars, pathVars, work>>
    BY <1>2 DEF Fails
  <1>3. CASE UNCHANGED effects /\ Fails(container)
    <2>1. EffectsHold'
      BY <1>2, <1>3, EffectsKept
    <2> QED
      BY <1>1, <1>3, <2>1, FailsInv
  <1>4. CASE Goes(did) /\ Fails(container)
    BY <1>1, <1>2, <1>4, FailsInv
  <1>5. CASE Goes(did) /\ UNCHANGED <<givenVars, stand, pathVars, work, container, inbox>> /\ copied' = FALSE
    BY <1>5, GoesOn
  <1> QED
    BY <1>3, <1>4, <1>5

LEMMA ExecScriptInv == ASSUME SetupIInv, ExecScript PROVE SetupIInv'
  <1>1. stand = "applying" /\ service = "localstack" /\ copied
    BY DEF ExecScript
  <1>2. Len(effects) < Len(work) /\ inbox[PlaceOf(NextPiece)] = NextPiece
    BY <1>1 DEF SetupIInv, Standing
  <1>3. \/ Goes(<<NextPiece>>) /\ UNCHANGED <<givenVars, stand, pathVars, work, container, inbox>> /\ copied' = FALSE
        \/ UNCHANGED effects /\ Fails(container)
        \/ Goes(<<NextPiece>>) /\ Fails(container)
    BY <1>2 DEF ExecScript
  <1>4. Goes(<<NextPiece>>) /\ UNCHANGED <<givenVars, pathVars, work>> => EffectsHold'
    BY <1>1, <1>2, GoesNext
  <1> QED
    BY <1>1, <1>3, <1>4, PieceInv

LEMMA ApplyInv ==
  ASSUME SetupIInv, NEW did, NEW s \in {"mockserver", "drop", "truncate"}, Apply(did, {s}),
         did = IF s = "truncate" THEN work ELSE <<NextPiece>>
  PROVE  SetupIInv'
  <1>1. stand = "applying" /\ service = s /\ Len(effects) < Len(work) /\ ~copied
    BY DEF Apply, SetupIInv, Standing
  <1>2. \/ Goes(did) /\ UNCHANGED <<givenVars, stand, pathVars, work, container, inbox>> /\ copied' = FALSE
        \/ UNCHANGED effects /\ Fails(container)
        \/ Goes(did) /\ Fails(container)
    BY <1>1 DEF Apply, boxVars
  <1>3. ASSUME Goes(did), UNCHANGED <<givenVars, pathVars, work>>
        PROVE  EffectsHold'
    <2>1. CASE s # "truncate"
      BY <1>1, <1>3, <2>1, GoesNext
    <2>2. CASE s = "truncate"
      <3>1. work \in Seq(Pieces(service)) /\ Len(work) \in Nat /\ Len(effects) \in Nat /\ effects = <<>>
        BY <1>1, <2>2, LenProperties DEF SetupIInv, Typed, Standing
      <3>2. effects' = work
        BY <1>3, <2>2, <3>1 DEF Goes
      <3>3. Pieces(service)' = Pieces(service) /\ service' = service /\ work' = work
        BY <1>3, PlanKept DEF givenVars
      <3> QED
        BY <1>1, <2>2, <3>1, <3>2, <3>3 DEF EffectsHold, InTurn
    <2> QED
      BY <2>1, <2>2
  <1> QED
    BY <1>1, <1>2, <1>3, PieceInv

LEMMA CreateKafkaTopicsInv == ASSUME SetupIInv, CreateKafkaTopics PROVE SetupIInv'
  <1>1. stand = "applying" /\ service = "kafka"
    BY DEF CreateKafkaTopics
  <1>2. PICK n \in 0..Len(work) : \E born \in [1..n -> DOMAIN work] :
            /\ effects' = [k \in 1..n |-> work[born[k]]]
            /\ \/ /\ \A i \in DOMAIN work : work[i].exists \/ \E k \in 1..n : work[born[k]].topic = work[i].topic
                  /\ stand' = "done"
                  /\ UNCHANGED <<givenVars, pathVars, work, boxVars>>
               \/ Fails(container)
    BY DEF CreateKafkaTopics
  <1> PICK born \in [1..n -> DOMAIN work] :
            /\ effects' = [k \in 1..n |-> work[born[k]]]
            /\ \/ /\ \A i \in DOMAIN work : work[i].exists \/ \E k \in 1..n : work[born[k]].topic = work[i].topic
                  /\ stand' = "done"
                  /\ UNCHANGED <<givenVars, pathVars, work, boxVars>>
               \/ Fails(container)
    BY <1>2
  <1>3. UNCHANGED <<givenVars, pathVars, work>>
    BY DEF Fails
  <1>4. /\ Pieces(service)' = Pieces(service) /\ service' = service /\ work' = work
        /\ given' = given /\ looked' = looked
    BY <1>3, PlanKept DEF givenVars, pathVars
  <1>5. work \in Seq(Pieces(service)) /\ Len(work) \in Nat /\ DOMAIN work = 1..Len(work)
    BY LenProperties DEF SetupIInv, Typed
  <1>6. n \in Nat /\ [k \in 1..n |-> work[born[k]]] \in [1..n -> Pieces(service)]
    BY <1>5, ElementOfSeq
  <1>7. effects' \in Seq(Pieces(service)) /\ Len(effects') = n /\ DOMAIN effects' = 1..n
    BY <1>6, SeqOfFcn, LenProperties
  <1>8. \A k \in 1..n : effects'[k] = work[born[k]]
    OBVIOUS
  <1>9. EffectsHold'
    BY <1>1, <1>4, <1>7, <1>8 DEF EffectsHold, Among
  <1>10. CASE Fails(container)
    BY <1>1, <1>9, <1>10, FailsInv DEF SetupIInv, Typed, SetupTypeOK
  <1>11. CASE /\ \A i \in DOMAIN work : work[i].exists \/ \E k \in 1..n : work[born[k]].topic = work[i].topic
              /\ stand' = "done" /\ UNCHANGED boxVars
    <2>1. ToldTopics'
      BY <1>4, <1>7, <1>8, <1>9, <1>11, <1>1 DEF ToldTopics, EffectsHold
    <2>2. /\ inbox' \in Boxes /\ copied' \in BOOLEAN
          /\ container' \in {"none", "dropped", "running"} /\ ~copied'
      BY <1>1, <1>11 DEF SetupIInv, Typed, SetupTypeOK, boxVars, Standing
    <2>3. Standing'
      BY <1>1, <1>4, <1>11, <2>2 DEF Standing, FromPaths
    <2> QED
      BY <1>1, <1>3, <1>4, <1>9, <1>11, <2>1, <2>2, <2>3, FollowsPlan
  <1> QED
    BY <1>10, <1>11

LEMMA FinishedInv == ASSUME SetupIInv, Finished PROVE SetupIInv'
  <1>1. /\ stand = "applying" /\ service # "kafka" /\ Len(effects) = Len(work) /\ ~copied
        /\ stand' = "done" /\ UNCHANGED <<givenVars, pathVars, work, effects>>
        /\ container' = container /\ inbox' = inbox /\ copied' = copied /\ effects' = effects
        /\ service' = service /\ given' = given /\ looked' = looked /\ work' = work
    BY DEF Finished, boxVars, givenVars, pathVars
  <1>2. Standing'
    BY <1>1 DEF Standing, SetupIInv
  <1> QED
    BY <1>1, <1>2, EffectsKept, PlacesKept, FollowsPlan DEF SetupIInv, Typed, SetupTypeOK

(* The inductive invariant: what is to be done is what the walk has found, *)
(* and what was done is a first part of it.                                *)
THEOREM SetupInvariance == SetupSpec => []SetupIInv
  <1>1. ASSUME SetupIInv, [SetupNext]_setupVars
        PROVE  SetupIInv'
    <2>1. CASE Configure
      BY <1>1, <2>1, ConfigureInv
    <2>2. CASE ExpandPath \/ Expanded
      BY <1>1, <2>2, ExpandPathInv, ExpandedInv
    <2>3. CASE StartingOne
      BY <1>1, <2>3, StartingOneInv
    <2>4. CASE CopyScript \/ ExecScript
      BY <1>1, <2>4, CopyScriptInv, ExecScriptInv
    <2>5. CASE postMockServerExpectation \/ DropClickHouseTables \/ TruncatePostgres
      BY <1>1, <2>5, ApplyInv DEF postMockServerExpectation, DropClickHouseTables, TruncatePostgres
    <2>6. CASE CreateKafkaTopics \/ Finished
      BY <1>1, <2>6, CreateKafkaTopicsInv, FinishedInv
    <2>7. CASE UNCHANGED setupVars
      <3>1. /\ UNCHANGED <<givenVars, pathVars, work, effects>> /\ UNCHANGED <<stand, container, inbox, copied>>
            /\ service' = service /\ given' = given /\ looked' = looked /\ work' = work
        BY <2>7 DEF setupVars, givenVars, pathVars, boxVars
      <3>2. Standing' /\ (service = "kafka" => ToldTopics)'
        <4>1. stand' = stand /\ entry' = entry /\ container' = container /\ inbox' = inbox /\ copied' = copied
              /\ effects' = effects
          BY <2>7 DEF setupVars, givenVars, pathVars, boxVars
        <4>2. Standing' = Standing
          BY <3>1, <4>1 DEF Standing, NextPiece, PlaceOf
        <4>3. ToldTopics' = ToldTopics
          BY <3>1, <4>1 DEF ToldTopics, Among
        <4> QED
          BY <1>1, <3>1, <4>2, <4>3 DEF SetupIInv
      <3> QED
        BY <1>1, <3>1, <3>2, EffectsKept, PlacesKept, FollowsPlan DEF SetupIInv, Typed, SetupTypeOK
    <2> QED
      BY <1>1, <2>1, <2>2, <2>3, <2>4, <2>5, <2>6, <2>7 DEF SetupNext, Working
  <1> QED
    BY <1>1, SetupInitInv, PTL DEF SetupSpec

THEOREM SetupTypeCorrect == SetupSpec => []SetupTypeOK
  <1>1. SetupIInv => SetupTypeOK
    BY DEF SetupIInv, Typed
  <1> QED
    BY <1>1, SetupInvariance, PTL

LEMMA FilesInTurn == ASSUME SetupIInv, service \in FromPaths PROVE FilesTakeTurns
  <1>1. /\ Walked /\ InTurn /\ work \in Seq(Pieces(service)) /\ effects \in Seq(Pieces(service))
        /\ Len(effects) <= Len(work) /\ looked \in Nat /\ entry \in Nat
    BY DEF SetupIInv, Typed, SetupTypeOK, FromPaths
  <1>2. /\ DOMAIN work = 1..Len(work) /\ DOMAIN effects = 1..Len(effects)
        /\ Len(work) \in Nat /\ Len(effects) \in Nat
    BY <1>1, LenProperties
  <1>3. \A i \in DOMAIN effects : i \in DOMAIN work /\ effects[i] = work[i]
    BY <1>1, <1>2 DEF InTurn
  <1>4. ASSUME NEW item \in Wanted, NEW i \in DOMAIN effects, Earlier(item, effects[i])
        PROVE  Among(item, effects)
    <2>1. effects[i] \in Wanted /\ Passed(effects[i])
      BY <1>1, <1>3 DEF Walked
    <2>2. \A x \in Wanted : x.at \in Nat /\ x.name \in Nat
      BY DEF Wanted, Items, BaseNames
    <2>3. Passed(item)
      BY <1>1, <1>4, <2>1, <2>2 DEF Passed, Earlier
    <2>4. PICK j \in DOMAIN work : work[j] = item
      BY <1>1, <2>3 DEF Walked, Among
    <2>5. ~(i < j) /\ i # j
      BY <1>1, <1>3, <1>4, <2>1, <2>2, <2>4 DEF Walked, Earlier
    <2> QED
      BY <1>2, <1>3, <2>4, <2>5 DEF Among
  <1> QED
    BY <1>1, <1>3, <1>4 DEF FilesTakeTurns, Walked

(* Whatever is set up, what was done is an initial part of what was given, *)
(* and a call that ends well has done all.                                 *)
THEOREM DoneAsGiven == SetupSpec => []SetupIsAsGiven
  <1>1. ASSUME SetupIInv
        PROVE  SetupIsAsGiven
    <2>1. /\ work \in Seq(Pieces(service)) /\ effects \in Seq(Pieces(service)) /\ given \in Seq(Givens(service))
          /\ DOMAIN work = 1..Len(work) /\ DOMAIN effects = 1..Len(effects) /\ DOMAIN given = 1..Len(given)
          /\ Len(work) \in Nat /\ Len(effects) \in Nat /\ Len(given) \in Nat /\ Len(effects) <= Len(work)
          /\ service \in Services
      BY <1>1, LenProperties DEF SetupIInv, Typed, SetupTypeOK
    <2>2. service \notin FromPaths =>
            /\ Len(work) = Len(given)
            /\ \A i \in DOMAIN given : work[i] = Complete(service, given[i])
      BY <1>1, <2>1, FirstWorkIs DEF SetupIInv
    <2>3. ASSUME service \in {"mockserver", "drop", "truncate"}, NEW i \in DOMAIN effects
          PROVE  effects[i] = Complete(service, given[i])
      <3>1. service \notin FromPaths /\ InTurn
        BY <1>1, <2>3 DEF SetupIInv, FromPaths
      <3>2. i \in DOMAIN given /\ i \in DOMAIN effects
        BY <2>1, <2>2, <2>3, <3>1
      <3> QED
        BY <2>2, <3>1, <3>2 DEF InTurn
    <2>4. ASSUME stand = "done", service \in FromPaths
          PROVE  /\ \A item \in Wanted : Among(item, effects)
                 /\ strictPath => \A i \in DOMAIN given : given[i].is # "missing"
      <3>1. Walked /\ InTurn /\ looked = Len(given) /\ Len(effects) = Len(work)
        BY <1>1, <2>4 DEF SetupIInv, Standing, FromPaths
      <3>2. \A item \in Wanted : Passed(item)
        BY <2>1, <3>1 DEF Wanted, Passed
      <3> QED
        BY <2>1, <3>1, <3>2 DEF Walked, InTurn, Among
    <2>5. ASSUME stand = "done", service = "kafka", NEW i \in DOMAIN given
          PROVE  given[i].exists \/ \E j \in DOMAIN effects :
                    effects[j].topic = given[i].topic /\ effects[j].partitions >= 1
      <3>1. work[i] = TopicSpec(given[i]) /\ i \in DOMAIN work
        BY <2>1, <2>2, <2>5 DEF FromPaths, Complete
      <3>2. given[i] \in Topics
        BY <2>1, <2>5, ElementOfSeq DEF Givens
      <3>3. /\ TopicSpec(given[i]).exists = given[i].exists
            /\ TopicSpec(given[i]).topic = given[i].topic
            /\ TopicSpec(given[i]).partitions >= 1
        BY <3>2 DEF TopicSpec, Topics
      <3>4. work[i].exists \/ \E j \in DOMAIN effects : effects[j].topic = work[i].topic
        BY <1>1, <2>5, <3>1 DEF SetupIInv, ToldTopics
      <3>5. ASSUME NEW j \in DOMAIN effects
            PROVE  effects[j].partitions >= 1
        <4>1. effects[j] \in Pieces("kafka")
          BY <2>1, <2>5, ElementOfSeq
        <4>2. PICK t \in Topics : effects[j] = TopicSpec(t)
          BY <4>1 DEF Pieces, FromPaths
        <4> QED
          BY <4>2 DEF TopicSpec, Topics
      <3> QED
        BY <3>1, <3>3, <3>4, <3>5
    <2>6. ASSUME stand = "done", service \notin FromPaths, service # "kafka"
          PROVE  Len(effects) = Len(given)
      BY <1>1, <2>2, <2>6 DEF SetupIInv, Standing
    <2>7. service = "wiremock" /\ container = "running" => stand = "done"
      BY <1>1 DEF SetupIInv, Standing
    <2>8. stand = "done" =>
            CASE service \in FromPaths ->
                      /\ \A item \in Wanted : Among(item, effects)
                      /\ strictPath => \A i \in DOMAIN given : given[i].is # "missing"
              [] service = "kafka" ->
                      \A i \in DOMAIN given : given[i].exists \/ \E j \in DOMAIN effects :
                          effects[j].topic = given[i].topic /\ effects[j].partitions >= 1
              [] OTHER -> Len(effects) = Len(given)
      BY <2>4, <2>5, <2>6 DEF FromPaths
    <2> QED
      BY <1>1, <2>3, <2>7, <2>8, FilesInTurn DEF SetupIsAsGiven, SetupIInv
  <1> QED
    BY <1>1, SetupInvariance, PTL

=============================================================================
