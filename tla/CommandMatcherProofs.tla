------------------------ MODULE CommandMatcherProofs ------------------------
(***************************************************************************)
(* Proofs about how vtysh finds the command of a line.                     *)
(*                                                                         *)
(* For any table of commands: the command that runs is one the line is an  *)
(* instance of, and completing a word does not change what the line means. *)
(*                                                                         *)
(* For any table that keeps to TableAssumption: a line that has its        *)
(* keywords in full runs the command it was meant for, "?" tells what may  *)
(* be typed and when Enter runs a command, and a line that was entered     *)
(* with its choices and addresses in full is found again when the file is  *)
(* loaded.                                                                 *)
(***************************************************************************)
EXTENDS CommandMatcher, NatBounds, FiniteSetTheorems

----------------------------------------------------------------------------
(* Addresses.                                                              *)

\* What each verdict of the scanner says about the numbers around the dot.
LEMMA Verdicts ==
  ASSUME NEW f \in Seq(Int), NEW i \in DOMAIN f
  PROVE  /\ Verdict(f, i) \in {NoMatch, PartlyMatch, Going}
         /\ Verdict(f, i) = PartlyMatch => i < Len(f) /\ i <= 3 /\ f[i + 1] = Empty /\ i + 1 = Len(f)
         /\ Verdict(f, i) = Going => /\ f[i] <= 255
                                     /\ i < Len(f) => i <= 3 /\ f[i + 1] # Empty
BY DEF Verdict, NoMatch, PartlyMatch, Going, Empty

\* The numbers an address may have.
LEMMA UpToFour == \A n \in Nat : n >= 1 /\ n <= 4 => n \in 1 .. 4
OBVIOUS

\* cmd_ipv4_match accepts nothing but addresses, and beginnings of them.
LEMMA MatchedAddress ==
  ASSUME NEW f \in Seq(Int), f # <<>>, NEW exact \in BOOLEAN,
         CmdIpv4Match(f) \in (IF exact THEN {ExactMatch} ELSE {PartlyMatch, ExactMatch})
  PROVE  LooksLike(f, exact)
<1> DEFINE stops == {i \in DOMAIN f : Verdict(f, i) # Going}
<1>1. Len(f) \in Nat \ {0} /\ DOMAIN f = 1 .. Len(f) /\ \A i \in DOMAIN f : f[i] \in Int
  OBVIOUS
<1>2. CASE stops = {}
  <2>1. \A i \in DOMAIN f : f[i] <= 255 /\ (i < Len(f) => i <= 3 /\ f[i + 1] # Empty)
    BY <1>2, Verdicts
  <2>2. Len(f) <= 4
    <3>1. SUFFICES ASSUME Len(f) > 4 PROVE FALSE
      BY <1>1
    <3>2. 4 \in DOMAIN f /\ 4 < Len(f)
      BY <1>1, <3>1
    <3> QED
      BY <2>1, <3>2
  <2>3. \A i \in DOMAIN f : f[i] = Empty => i = 1
    <3>1. SUFFICES ASSUME NEW i \in DOMAIN f, f[i] = Empty, i # 1 PROVE FALSE
      OBVIOUS
    <3>2. i - 1 \in DOMAIN f /\ i - 1 < Len(f) /\ (i - 1) + 1 = i
      BY <1>1, <3>1
    <3> QED
      BY <2>1, <3>1, <3>2
  <2>4. exact => Len(f) = 4
    <3>1. SUFFICES ASSUME exact, Len(f) < 4 PROVE FALSE
      BY <1>1, <2>2
    <3>2. CmdIpv4Match(f) = PartlyMatch
      BY <1>2, <3>1 DEF CmdIpv4Match
    <3> QED
      BY <3>1, <3>2 DEF PartlyMatch, ExactMatch
  <2>5. Len(f) \in (IF exact THEN {4} ELSE 1 .. 4)
    <3>1. Len(f) \in Nat /\ Len(f) >= 1 /\ Len(f) <= 4 /\ (exact => Len(f) \in {4})
      BY <1>1, <2>2, <2>4
    <3> QED
      BY <3>1, UpToFour, Zenon
  <2>6. \A i \in DOMAIN f : ~(f[i] > 255)
    BY <1>1, <2>1
  <2> QED
    BY <2>3, <2>5, <2>6 DEF LooksLike
<1>3. CASE stops # {}
  <2> DEFINE m == Min(stops)
  <2>1. m \in stops /\ \A i \in stops : m <= i
    <3>1. stops \subseteq Nat
      BY <1>1
    <3>2. \E x \in stops : \A y \in stops : x <= y
      BY <1>3, <3>1, NatLeast
    <3> QED
      BY <3>2, Zenon DEF Min
  <2>2. CmdIpv4Match(f) = Verdict(f, m)
    BY <1>3 DEF CmdIpv4Match
  <2> HIDE DEF m
  <2>3. m \in DOMAIN f /\ Verdict(f, m) # Going
    BY <2>1
  <2>4. Verdict(f, m) = PartlyMatch /\ ~exact
    BY <2>2, <2>3, Verdicts DEF PartlyMatch, ExactMatch, NoMatch, Going
  <2>5. m < Len(f) /\ m <= 3 /\ f[m + 1] = Empty /\ m + 1 = Len(f)
    BY <2>3, <2>4, Verdicts
  <2>6. \A i \in DOMAIN f : i < m => f[i] <= 255 /\ f[i + 1] # Empty
    <3>1. SUFFICES ASSUME NEW i \in DOMAIN f, i < m PROVE f[i] <= 255 /\ f[i + 1] # Empty
      OBVIOUS
    <3>2. i \notin stops
      BY <1>1, <2>1, <2>3, <3>1
    <3>3. Verdict(f, i) = Going /\ i < Len(f)
      BY <1>1, <2>3, <2>5, <3>1, <3>2
    <3> QED
      BY <3>3, Verdicts
  <2>7. \A i \in DOMAIN f : f[i] = Empty => i = 1 \/ i = Len(f)
    <3>1. SUFFICES ASSUME NEW i \in DOMAIN f, f[i] = Empty, i # 1, i # Len(f) PROVE FALSE
      OBVIOUS
    <3>2. i - 1 \in DOMAIN f /\ i - 1 < m /\ (i - 1) + 1 = i
      BY <1>1, <2>3, <2>5, <3>1
    <3> QED
      BY <2>6, <3>1, <3>2
  <2>8. \A i \in DOMAIN f : f[i] > 255 => i + 1 = Len(f) /\ f[i + 1] = Empty
    <3>1. SUFFICES ASSUME NEW i \in DOMAIN f, f[i] > 255 PROVE i = m
      BY <2>5
    <3>2. ~(i < m)
      BY <1>1, <2>6, <3>1
    <3>3. i # Len(f)
      BY <2>5, <3>1 DEF Empty
    <3> QED
      BY <1>1, <2>3, <2>5, <3>2, <3>3
  <2>9. Len(f) \in 1 .. 4
    <3>1. Len(f) \in Nat /\ Len(f) >= 1 /\ Len(f) <= 4
      BY <1>1, <2>3, <2>5
    <3> QED
      BY <3>1, UpToFour, Zenon
  <2>10. Len(f) \in (IF exact THEN {4} ELSE 1 .. 4)
    BY <2>4, <2>9, Zenon
  <2> QED
    BY <2>4, <2>7, <2>8, <2>10 DEF LooksLike
<1> QED
  BY <1>2, <1>3

----------------------------------------------------------------------------
(* One word.                                                               *)

\* What each kind of match says about the word.
LEMMA MatchTypes ==
  ASSUME NEW d, NEW w, NEW exact \in BOOLEAN
  PROVE  /\ MatchType(d, w, exact) \in 0 .. 4
         /\ MatchType(d, w, exact) = Ipv4Match => d = Address /\ IsAddress(w, exact)
         /\ MatchType(d, w, exact) = PartlyMatch => ~exact /\ IsKeyword(d) /\ d # w /\ d \in KeywordsOf(w)
         /\ MatchType(d, w, exact) = ExtendMatch => d \in {Variable, Option}
         /\ MatchType(d, w, exact) = ExactMatch => IsKeyword(d) /\ d = w
         /\ IsKeyword(d) /\ d = w => MatchType(d, w, exact) = ExactMatch
         /\ ~exact /\ IsKeyword(d) /\ d # w /\ d \in KeywordsOf(w) => MatchType(d, w, exact) = PartlyMatch
BY DEF MatchType, NoMatch, ExtendMatch, Ipv4Match, PartlyMatch, ExactMatch, IsKeyword, NotKeywords,
       Variable, Option, Address

\* A match is of its own kind.
LEMMA MatchAgrees ==
  ASSUME NEW d, NEW w, NEW exact \in BOOLEAN, NEW t, t = MatchType(d, w, exact), t # NoMatch
  PROVE  Agrees(d, w, t)
<1>1. t \in 0 .. 4
  BY MatchTypes
<1>2. CASE t = ExactMatch
  <2>1. IsKeyword(d) /\ d = w
    BY <1>2, MatchTypes
  <2> QED
    BY <1>2, <2>1 DEF Agrees, ExactMatch, PartlyMatch, Ipv4Match, ExtendMatch, NoMatch
<1>3. CASE t = PartlyMatch
  <2>1. IsKeyword(d) /\ d \in KeywordsOf(w)
    BY <1>3, MatchTypes
  <2> QED
    BY <1>3, <2>1 DEF Agrees, ExactMatch, PartlyMatch, Ipv4Match, ExtendMatch, NoMatch
<1>4. CASE t = Ipv4Match
  <2>1. d = Address
    BY <1>4, MatchTypes
  <2> QED
    BY <1>4, <2>1 DEF Agrees, ExactMatch, PartlyMatch, Ipv4Match, ExtendMatch, NoMatch
<1>5. CASE t = ExtendMatch
  <2>1. d \in {Variable, Option}
    BY <1>5, MatchTypes
  <2>2. ~IsKeyword(d)
    BY <2>1 DEF IsKeyword, NotKeywords
  <2> QED
    BY <1>5, <2>2 DEF Agrees, ExactMatch, PartlyMatch, Ipv4Match, ExtendMatch, NoMatch
<1> QED
  BY <1>1, <1>2, <1>3, <1>4, <1>5 DEF ExactMatch, PartlyMatch, Ipv4Match, ExtendMatch, NoMatch

\* The best match is the greatest of those there are.
LEMMA BestMatches ==
  ASSUME NEW cand, NEW i, NEW w, NEW exact \in BOOLEAN
  PROVE  LET best == BestMatch(cand, i, w, exact)
         IN  /\ best \in 0 .. 4
             /\ best # NoMatch => \E c \in cand : \E d \in Place(c, i) : MatchType(d, w, exact) = best
             /\ \A c \in cand : \A d \in Place(c, i) : MatchType(d, w, exact) <= best
<1> DEFINE types == {MatchType(d, w, exact) : d \in UNION {Place(c, i) : c \in cand}}
           all == {NoMatch} \cup types
<1>1. BestMatch(cand, i, w, exact) = Max(all)
  BY DEF BestMatch
<1>2. all \subseteq 0 .. 4 /\ all # {}
  BY MatchTypes DEF NoMatch
<1>3. \A c \in cand : \A d \in Place(c, i) : MatchType(d, w, exact) \in all
  OBVIOUS
<1>4. \A x \in all : x # NoMatch => \E c \in cand : \E d \in Place(c, i) : MatchType(d, w, exact) = x
  OBVIOUS
<1> HIDE DEF all
<1>5. Max(all) \in all /\ \A y \in all : y <= Max(all)
  <2>1. \E x \in all : \A y \in all : y <= x
    <3>1. all \subseteq Nat /\ 4 \in Nat /\ \A x \in all : x <= 4
      BY <1>2
    <3> QED
      BY <1>2, <3>1, NatGreatest
  <2>2. \E x \in all : \A y \in all : x >= y
    BY <1>2, <2>1
  <2>3. Max(all) \in all /\ \A y \in all : Max(all) >= y
    BY <2>2, Zenon DEF Max
  <2> QED
    BY <1>2, <2>3
<1> QED
  BY <1>1, <1>2, <1>3, <1>4, <1>5

\* A command that is left after a word has a place for it.
LEMMA KeptFits ==
  ASSUME NEW cand, NEW i, NEW w, NEW exact \in BOOLEAN,
         NEW c \in Keep(Filter(cand, i, w, exact), i, w, BestMatch(cand, i, w, exact))
  PROVE  c \in cand /\ \E d \in Place(c, i) : MayStandFor(w, d, exact)
<1> DEFINE best == BestMatch(cand, i, w, exact)
<1>1. PICK d \in Place(c, i) : Agrees(d, w, best)
  BY DEF Keep
<1>2. c \in cand /\ \E e \in Place(c, i) : MatchType(e, w, exact) # NoMatch
  BY DEF Keep, Filter
<1>3. /\ best \in 0 .. 4
      /\ best # NoMatch => \E x \in cand : \E e \in Place(x, i) : MatchType(e, w, exact) = best
      /\ \A e \in Place(c, i) : MatchType(e, w, exact) <= best
  BY <1>2, BestMatches
<1> HIDE DEF best
<1>4. CASE best = ExactMatch
  BY <1>1, <1>2, <1>4 DEF Agrees, MayStandFor, ExactMatch, PartlyMatch, Ipv4Match, ExtendMatch, NoMatch
<1>5. CASE best = PartlyMatch
  <2>1. ~exact
    BY <1>3, <1>5, MatchTypes DEF PartlyMatch, NoMatch
  <2> QED
    BY <1>1, <1>2, <1>5, <2>1 DEF Agrees, MayStandFor, ExactMatch, PartlyMatch, Ipv4Match, ExtendMatch, NoMatch
<1>6. CASE best = Ipv4Match
  <2>1. IsAddress(w, exact)
    BY <1>3, <1>6, MatchTypes DEF Ipv4Match, NoMatch
  <2>2. w \in DOMAIN Fields /\ LooksLike(Fields[w], exact)
    BY <2>1, MatchedAddress, MatcherAssumption DEF IsAddress
  <2>3. d = Address
    BY <1>1, <1>6 DEF Agrees, ExactMatch, PartlyMatch, Ipv4Match, ExtendMatch, NoMatch
  <2> QED
    BY <1>1, <1>2, <2>2, <2>3 DEF MayStandFor
<1>7. CASE best = ExtendMatch
  <2>1. PICK e \in Place(c, i) : MatchType(e, w, exact) # NoMatch
    BY <1>2
  <2>2. MatchType(e, w, exact) \in 0 .. 4 /\ MatchType(e, w, exact) <= 1
    BY <1>3, <1>7, MatchTypes DEF ExtendMatch
  <2>3. MatchType(e, w, exact) = ExtendMatch
    BY <2>1, <2>2 DEF ExtendMatch, NoMatch
  <2>4. e \in {Variable, Option}
    BY <2>3, MatchTypes
  <2> QED
    BY <1>2, <2>1, <2>4 DEF MayStandFor
<1>8. CASE best = NoMatch
  BY <1>1, <1>8 DEF Agrees, ExactMatch, PartlyMatch, Ipv4Match, ExtendMatch, NoMatch
<1> QED
  BY <1>3, <1>4, <1>5, <1>6, <1>7, <1>8 DEF ExactMatch, PartlyMatch, Ipv4Match, ExtendMatch, NoMatch

----------------------------------------------------------------------------
(* The loop.                                                               *)

\* Every word that may get into a line.
Typed == (Words \cup UNION {UNION {Table[c][i] : i \in DOMAIN Table[c]} : c \in Commands}) \ NotKeywords

\* The loop has seen the words of l, and each is an instance of its place in each
\* command that is left.
LoopInv(l, m, exact) ==
  /\ m \in [index : Nat, cand : SUBSET Commands, ambiguous : BOOLEAN]
  /\ ~m.ambiguous =>
       /\ m.index = Len(l)
       /\ \A c \in m.cand : /\ Len(l) <= Len(Table[c])
                            /\ \A i \in DOMAIN l : \E d \in Table[c][i] : MayStandFor(l[i], d, exact)

MatchInv == line \in Seq(Typed) /\ LoopInv(line, loose, FALSE) /\ LoopInv(line, strict, TRUE)

\* One turn of the loop, over one more word.
LEMMA StepKeeps ==
  ASSUME NEW l \in Seq(Typed), NEW w \in Typed, NEW m, NEW exact \in BOOLEAN, LoopInv(l, m, exact)
  PROVE  LoopInv(Append(l, w), Step(m, w, exact), exact)
<1>1. m \in [index : Nat, cand : SUBSET Commands, ambiguous : BOOLEAN]
  BY DEF LoopInv
<1>2. CASE m.ambiguous
  BY <1>1, <1>2 DEF Step, LoopInv
<1>3. CASE ~m.ambiguous
  <2> DEFINE i == m.index + 1
             type == BestMatch(m.cand, i, w, exact)
             left == Filter(m.cand, i, w, exact)
             kept == Keep(left, i, w, type)
             amb == IsAmbiguous(left, i, w, type)
  <2>1. Step(m, w, exact) = [index |-> i, cand |-> kept, ambiguous |-> amb]
    BY <1>3 DEF Step
  <2>2. \A c \in kept : c \in m.cand /\ \E d \in Place(c, i) : MayStandFor(w, d, exact)
    BY KeptFits
  <2>3. amb \in BOOLEAN
    BY DEF IsAmbiguous
  <2>4. i = Len(l) + 1 /\ i \in Nat /\ m.cand \subseteq Commands
    BY <1>1, <1>3 DEF LoopInv
  <2> HIDE DEF i, kept, amb
  <2>5. Step(m, w, exact) \in [index : Nat, cand : SUBSET Commands, ambiguous : BOOLEAN]
    BY <2>1, <2>2, <2>3, <2>4
  <2>6. ASSUME NEW c \in kept
        PROVE  /\ Len(Append(l, w)) <= Len(Table[c])
               /\ \A k \in DOMAIN Append(l, w) : \E d \in Table[c][k] : MayStandFor(Append(l, w)[k], d, exact)
    <3>1. c \in m.cand /\ c \in Commands /\ Len(Table[c]) \in Nat
      BY <2>2, <2>4, MatcherAssumption
    <3>2. i <= Len(Table[c]) /\ \E d \in Table[c][i] : MayStandFor(w, d, exact)
      BY <2>2 DEF Place
    <3>3. \A k \in DOMAIN l : \E d \in Table[c][k] : MayStandFor(l[k], d, exact)
      BY <1>3, <3>1 DEF LoopInv
    <3>4. /\ Len(Append(l, w)) = i
          /\ \A k \in DOMAIN Append(l, w) : \/ k = i /\ Append(l, w)[k] = w
                                            \/ k \in DOMAIN l /\ Append(l, w)[k] = l[k]
      BY <2>4
    <3> QED
      BY <3>1, <3>2, <3>3, <3>4
  <2>7. Len(Append(l, w)) = i
    BY <2>4
  <2> QED
    BY <2>1, <2>5, <2>6, <2>7 DEF LoopInv
<1> QED
  BY <1>1, <1>2, <1>3

\* cmd_cmdsize is a number.
LEMMA CmdsizeType ==
  ASSUME NEW c \in Commands PROVE Cmdsize(c) \in Int
<1> DEFINE options == {i \in DOMAIN Table[c] : Table[c][i] = {Option}}
<1>1. options \subseteq Nat /\ Len(Table[c]) \in Nat
  BY MatcherAssumption
<1>2. options # {} => Min(options) \in Nat
  <2>1. options # {} => \E x \in options : \A y \in options : x <= y
    BY <1>1, NatLeast
  <2>2. options # {} => Min(options) \in options
    BY <2>1, Zenon DEF Min
  <2> QED
    BY <1>1, <2>2
<1>3. Cmdsize(c) = IF options = {} THEN Len(Table[c]) ELSE Min(options) - 1
  BY DEF Cmdsize
<1> HIDE DEF options
<1> QED
  BY <1>1, <1>2, <1>3

\* The command that is found is one that is left and has all its words.
LEMMA ResultIsLeft ==
  ASSUME NEW l, NEW exact \in BOOLEAN, NEW m, LoopInv(l, m, exact), Result(m) \notin Failed
  PROVE  ~m.ambiguous /\ Result(m) \in m.cand /\ m.index >= Cmdsize(Result(m))
<1> DEFINE complete == {c \in m.cand : m.index >= Cmdsize(c)}
<1>1. m \in [index : Nat, cand : SUBSET Commands, ambiguous : BOOLEAN]
  BY DEF LoopInv
<1>2. IsFiniteSet(complete)
  <2>1. complete \subseteq Commands
    BY <1>1
  <2> QED
    BY <2>1, FS_Subset, MatcherAssumption
<1>3. Cardinality(complete) \in Nat /\ (Cardinality(complete) = 0 <=> complete = {})
  BY <1>2, FS_CardinalityType, FS_EmptySet
<1>4. Result(m) = CASE m.ambiguous \/ Cardinality(complete) > 1       -> "CMD_ERR_AMBIGUOUS"
                    [] ~m.ambiguous /\ m.cand = {}                    -> "CMD_ERR_NO_MATCH"
                    [] ~m.ambiguous /\ m.cand # {} /\ complete = {}   -> "CMD_ERR_INCOMPLETE"
                    [] ~m.ambiguous /\ Cardinality(complete) = 1      -> CHOOSE c \in complete : TRUE
  BY DEF Result
<1>5. complete # {} => (CHOOSE c \in complete : TRUE) \in complete
  OBVIOUS
<1>6. complete # {} => m.cand # {}
  OBVIOUS
<1>7. ASSUME NEW x, x \in complete PROVE x \in m.cand /\ m.index >= Cmdsize(x)
  BY <1>7
<1> HIDE DEF complete
<1>8. ~m.ambiguous /\ Cardinality(complete) = 1
  BY <1>3, <1>4, <1>6 DEF Failed
<1>9. Result(m) = CHOOSE c \in complete : TRUE
  BY <1>3, <1>4, <1>6, <1>8
<1> QED
  BY <1>3, <1>5, <1>7, <1>8, <1>9

\* So the line is an instance of it.
LEMMA ResultFits ==
  ASSUME NEW l \in Seq(Typed), NEW exact \in BOOLEAN, NEW m, LoopInv(l, m, exact), Result(m) \notin Failed
  PROVE  Fits(Result(m), l, exact)
<1>1. ~m.ambiguous /\ Result(m) \in m.cand /\ m.index >= Cmdsize(Result(m))
  BY ResultIsLeft
<1>2. Result(m) \in Commands /\ m.index = Len(l) /\ Len(l) <= Len(Table[Result(m)])
  BY <1>1 DEF LoopInv
<1>3. Cmdsize(Result(m)) \in Int /\ Len(Table[Result(m)]) \in Nat /\ Len(l) \in Nat
  BY <1>2, CmdsizeType, MatcherAssumption
<1>4. \A i \in DOMAIN l : \E d \in Table[Result(m)][i] : MayStandFor(l[i], d, exact)
  BY <1>1 DEF LoopInv
<1> QED
  BY <1>1, <1>2, <1>3, <1>4 DEF Fits

\* Before the first word every command is left.
LEMMA StartInv == <<>> \in Seq(Typed) /\ LoopInv(<<>>, Start, FALSE) /\ LoopInv(<<>>, Start, TRUE)
BY MatcherAssumption DEF LoopInv, Start

\* The words that may stand at a place are finitely many.
LEMMA PlacesFinite ==
  ASSUME NEW cand \in SUBSET Commands, NEW i \in Nat \ {0}
  PROVE  IsFiniteSet(UNION {Place(c, i) : c \in cand})
<1> DEFINE places == {Place(c, i) : c \in cand}
           f == [c \in cand |-> Place(c, i)]
<1>1. IsFiniteSet(cand)
  BY FS_Subset, MatcherAssumption
<1>2. f \in Surjection(cand, places)
  BY DEF Surjection
<1>3. IsFiniteSet(places)
  <2> HIDE DEF f, places
  <2> QED
    BY <1>1, <1>2, FS_Surjection
<1>4. ASSUME NEW c \in cand PROVE IsFiniteSet(Place(c, i))
  <2>1. CASE i <= Len(Table[c])
    <3>1. i \in DOMAIN Table[c]
      BY <2>1, MatcherAssumption
    <3> QED
      BY <2>1, <3>1, MatcherAssumption DEF Place
  <2>2. CASE ~(i <= Len(Table[c]))
    BY <2>2, FS_EmptySet DEF Place
  <2> QED
    BY <2>1, <2>2
<1>5. \A p \in places : IsFiniteSet(p)
  BY <1>4
<1> HIDE DEF places
<1>6. IsFiniteSet(UNION places)
  BY <1>3, <1>5, FS_UNION
<1> QED
  BY <1>6 DEF places

\* The keywords that Tab may complete w to.
Matched(m, w) == {d \in UNION {Place(c, m.index + 1) : c \in m.cand} : EntryFunction(w, d)}

\* Tab completes a word if and only if there is one keyword for it, one of the table.
LEMMA CompletedIsTyped ==
  ASSUME MatchInv, NEW w, CompleteCommand(loose, w).status = "CMD_COMPLETE_FULL_MATCH"
  PROVE  /\ ~loose.ambiguous /\ CompleteCommand(loose, w).words = Matched(loose, w)
         /\ \E d : Matched(loose, w) = {d}
         /\ Matched(loose, w) \subseteq Typed
<1> DEFINE matched == Matched(loose, w)
           places == UNION {Place(c, loose.index + 1) : c \in loose.cand}
           longer == w # Nothing /\ Begins[Lcd(matched)] # Begins[w]
<1>1. loose.index + 1 \in Nat \ {0} /\ loose.cand \in SUBSET Commands
  BY DEF MatchInv, LoopInv
<1>2. IsFiniteSet(places)
  <2> HIDE DEF places
  <2>1. places = UNION {Place(c, loose.index + 1) : c \in loose.cand}
    BY DEF places
  <2> QED
    BY <1>1, <2>1, PlacesFinite
<1>3. IsFiniteSet(matched)
  <2>1. matched \in SUBSET places
    BY DEF Matched
  <2> QED
    BY <1>2, <2>1, FS_Subset
<1>4. Cardinality(matched) \in Nat /\ (Cardinality(matched) = 0 <=> matched = {})
  BY <1>3, FS_CardinalityType, FS_EmptySet
<1>5. CompleteCommand(loose, w) =
        CASE loose.ambiguous -> [status |-> "CMD_ERR_AMBIGUOUS", words |-> {}]
          [] ~loose.ambiguous /\ matched = {} ->
               [status |-> IF w = Nothing THEN "CMD_ERR_NOTHING_TODO" ELSE "CMD_ERR_NO_MATCH", words |-> {}]
          [] ~loose.ambiguous /\ Cardinality(matched) = 1 -> [status |-> "CMD_COMPLETE_FULL_MATCH", words |-> matched]
          [] ~loose.ambiguous /\ Cardinality(matched) > 1 ->
               IF longer THEN [status |-> "CMD_COMPLETE_MATCH", words |-> {Lcd(matched)}]
                         ELSE [status |-> "CMD_COMPLETE_LIST_MATCH", words |-> matched]
  BY Zenon DEF CompleteCommand, Matched
<1> HIDE DEF matched, longer, places
<1>6. ~loose.ambiguous /\ Cardinality(matched) = 1 /\ CompleteCommand(loose, w).words = matched
  <2>1. matched = {} => Cardinality(matched) = 0
    BY <1>4
  <2>2. \/ loose.ambiguous \/ matched = {} \/ Cardinality(matched) = 1 \/ Cardinality(matched) > 1
    BY <1>4
  <2> QED
    BY <1>5, <2>1, <2>2
<1>7. \E d : matched = {d}
  BY <1>3, <1>6, FS_Singleton
<1>8. ASSUME NEW c \in loose.cand, NEW d \in Place(c, loose.index + 1), IsKeyword(d) PROVE d \in Typed
  <2>1. d \in Table[c][loose.index + 1] /\ loose.index + 1 <= Len(Table[c])
    BY DEF Place
  <2>2. loose.index + 1 \in DOMAIN Table[c] /\ c \in Commands
    BY <1>1, <2>1, MatcherAssumption
  <2> QED
    BY <1>8, <2>1, <2>2 DEF Typed, IsKeyword
<1>9. matched \subseteq Typed
  BY <1>8 DEF matched, Matched, EntryFunction
<1> QED
  BY <1>6, <1>7, <1>9 DEF matched

----------------------------------------------------------------------------
(* The theorems.                                                           *)

\* The loops start with all commands.
LEMMA MatchInit == Init => MatchInv
BY StartInv DEF Init, MatchInv

\* Typing, Tab, Enter and a reload keep the invariant of both loops.
LEMMA MatchStep == MatchInv /\ [Next]_vars => MatchInv'
<1> SUFFICES ASSUME MatchInv, [Next]_vars PROVE MatchInv'
  OBVIOUS
<1>1. ASSUME NEW w \in Typed, line' = Append(line, w), loose' = Step(loose, w, FALSE), strict' = Step(strict, w, TRUE)
      PROVE  MatchInv'
  <2>1. line \in Seq(Typed) /\ LoopInv(line, loose, FALSE) /\ LoopInv(line, strict, TRUE)
    BY DEF MatchInv
  <2>2. Append(line, w) \in Seq(Typed)
    BY <2>1
  <2>3. LoopInv(Append(line, w), Step(loose, w, FALSE), FALSE)
    BY <2>1, StepKeeps
  <2>4. LoopInv(Append(line, w), Step(strict, w, TRUE), TRUE)
    BY <2>1, StepKeeps
  <2> QED
    BY <1>1, <2>2, <2>3, <2>4 DEF MatchInv
<1>2. ASSUME NEW w \in NextWords, Type(w) PROVE MatchInv'
  <2>1. w \in Typed
    BY NamesAssumption DEF NextWords, Typed
  <2> QED
    BY <1>1, <1>2, <2>1 DEF Type
<1>3. ASSUME NEW w \in NextWords \cup {Nothing}, Tab(w) PROVE MatchInv'
  <2>1. PICK d \in CompleteCommand(loose, w).words :
          /\ CompleteCommand(loose, w).status = "CMD_COMPLETE_FULL_MATCH"
          /\ line' = Append(line, d) /\ loose' = Step(loose, d, FALSE) /\ strict' = Step(strict, d, TRUE)
    BY <1>3 DEF Tab
  <2>2. d \in Typed
    BY <2>1, CompletedIsTyped
  <2> QED
    BY <1>1, <2>1, <2>2
<1>4. CASE Enter
  <2>1. line' = <<>> /\ loose' = Start /\ strict' = Start
    BY <1>4 DEF Enter
  <2> QED
    BY <2>1, StartInv DEF MatchInv
<1>5. CASE UNCHANGED <<line, loose, strict>>
  BY <1>5 DEF MatchInv
<1> QED
  BY <1>2, <1>3, <1>4, <1>5 DEF Next, Reload, vars

\* Whatever is typed, completed or read, the command that runs is one the line is an
\* instance of, neither too short nor too long for it, whatever commands are installed
\* (cmd_execute_command, cmd_execute_command_strict and the filters of command.c).
THEOREM FittingCommandRuns == Spec => []RunsWhatFits
<1>1. MatchInv => RunsWhatFits
  BY ResultFits DEF MatchInv, RunsWhatFits
<1> QED
  BY <1>1, MatchInit, MatchStep, PTL DEF Spec

\* A keyword that is the only one for w selects the commands that w selects.
LEMMA CompletionSelects ==
  ASSUME NEW cand \in SUBSET Commands, NEW i \in Nat \ {0}, NEW w \in Words, NEW d,
         {e \in UNION {Place(c, i) : c \in cand} : EntryFunction(w, e)} = {d}
  PROVE  /\ Keep(Filter(cand, i, w, FALSE), i, w, BestMatch(cand, i, w, FALSE))
              = Keep(Filter(cand, i, d, FALSE), i, d, BestMatch(cand, i, d, FALSE))
         /\ IsAmbiguous(Filter(cand, i, w, FALSE), i, w, BestMatch(cand, i, w, FALSE))
              = IsAmbiguous(Filter(cand, i, d, FALSE), i, d, BestMatch(cand, i, d, FALSE))
<1> DEFINE chosen == {c \in cand : d \in Place(c, i)}
<1>1. /\ IsKeyword(d) /\ d \in KeywordsOf(w) /\ \E c \in cand : d \in Place(c, i)
      /\ \A c \in cand : \A e \in Place(c, i) : IsKeyword(e) /\ e \in KeywordsOf(w) => e = d
  <2>1. \A e : EntryFunction(w, e) <=> IsKeyword(e) /\ e \in KeywordsOf(w)
    BY BeginsAssumption DEF EntryFunction, Nothing
  <2>2. d \in {e \in UNION {Place(c, i) : c \in cand} : EntryFunction(w, e)}
    BY Zenon
  <2>3. ASSUME NEW c \in cand, NEW e \in Place(c, i), EntryFunction(w, e) PROVE e = d
    <3>1. e \in {x \in UNION {Place(y, i) : y \in cand} : EntryFunction(w, x)}
      BY <2>3
    <3> QED
      BY <3>1
  <2> QED
    BY <2>1, <2>2, <2>3
<1>2. CASE w = d
  BY <1>2
<1>3. CASE w # d
  <2>1. ASSUME NEW c \in cand, NEW e \in Place(c, i), IsKeyword(e), e = w PROVE FALSE
    <3>1. e \in Table[c][i] /\ i \in DOMAIN Table[c] /\ c \in Commands
      BY <2>1, MatcherAssumption DEF Place
    <3>2. e \in KeywordsOf(e)
      BY <2>1, <3>1, BeginsAssumption
    <3> QED
      BY <1>1, <1>3, <2>1, <3>2
  <2>2. BestMatch(cand, i, w, FALSE) = PartlyMatch
    <3> DEFINE best == BestMatch(cand, i, w, FALSE)
    <3>1. /\ best \in 0 .. 4
          /\ best # NoMatch => \E c \in cand : \E e \in Place(c, i) : MatchType(e, w, FALSE) = best
          /\ \A c \in cand : \A e \in Place(c, i) : MatchType(e, w, FALSE) <= best
      BY BestMatches
    <3>2. MatchType(d, w, FALSE) = PartlyMatch
      BY <1>1, <1>3, MatchTypes
    <3> HIDE DEF best
    <3>3. PartlyMatch <= best
      BY <1>1, <3>1, <3>2
    <3>4. best # ExactMatch
      <4>1. SUFFICES ASSUME best = ExactMatch PROVE FALSE
        OBVIOUS
      <4>2. ExactMatch # NoMatch
        BY DEF ExactMatch, NoMatch
      <4>3. PICK c \in cand : \E e \in Place(c, i) : MatchType(e, w, FALSE) = ExactMatch
        BY <3>1, <4>1, <4>2
      <4>4. PICK e \in Place(c, i) : MatchType(e, w, FALSE) = ExactMatch
        BY <4>3
      <4> QED
        BY <2>1, <4>4, MatchTypes
    <3>5. best = PartlyMatch
      BY <3>1, <3>3, <3>4 DEF PartlyMatch, ExactMatch
    <3> QED
      BY <3>5 DEF best
  <2>3. BestMatch(cand, i, d, FALSE) = ExactMatch
    <3> DEFINE best == BestMatch(cand, i, d, FALSE)
    <3>1. /\ best \in 0 .. 4
          /\ \A c \in cand : \A e \in Place(c, i) : MatchType(e, d, FALSE) <= best
      BY BestMatches
    <3>2. MatchType(d, d, FALSE) = ExactMatch
      BY <1>1, MatchTypes
    <3> HIDE DEF best
    <3>3. ExactMatch <= best
      BY <1>1, <3>1, <3>2
    <3>4. best = ExactMatch
      BY <3>1, <3>3 DEF ExactMatch
    <3> QED
      BY <3>4 DEF best
  <2>4. \A e : Agrees(e, w, PartlyMatch) <=> IsKeyword(e) /\ e \in KeywordsOf(w)
    BY DEF Agrees, ExactMatch, PartlyMatch, Ipv4Match, ExtendMatch, NoMatch
  <2>5. \A e : Agrees(e, d, ExactMatch) <=> IsKeyword(e) /\ e = d
    BY DEF Agrees, ExactMatch, PartlyMatch, Ipv4Match, ExtendMatch, NoMatch
  <2>6. chosen \subseteq Filter(cand, i, w, FALSE) /\ chosen \subseteq Filter(cand, i, d, FALSE)
    <3>1. MatchType(d, w, FALSE) = PartlyMatch /\ MatchType(d, d, FALSE) = ExactMatch
      BY <1>1, <1>3, MatchTypes
    <3>2. PartlyMatch # NoMatch /\ ExactMatch # NoMatch
      BY DEF PartlyMatch, ExactMatch, NoMatch
    <3> QED
      BY <3>1, <3>2 DEF Filter
  <2>7. Keep(Filter(cand, i, w, FALSE), i, w, PartlyMatch) = chosen
    BY <1>1, <2>4, <2>6 DEF Keep, Filter
  <2>8. Keep(Filter(cand, i, d, FALSE), i, d, ExactMatch) = chosen
    BY <1>1, <2>5, <2>6 DEF Keep, Filter
  <2>9. PartlyMatched(Filter(cand, i, w, FALSE), i, w) = {d}
    <3>1. \A c \in Filter(cand, i, w, FALSE) : \A e \in Place(c, i) : IsKeyword(e) /\ e \in KeywordsOf(w) => e = d
      BY <1>1 DEF Filter
    <3>2. \E c \in Filter(cand, i, w, FALSE) : d \in Place(c, i)
      BY <1>1, <2>6
    <3> QED
      BY <1>1, <3>1, <3>2 DEF PartlyMatched
  <2>10. IsAmbiguous(Filter(cand, i, w, FALSE), i, w, PartlyMatch) = FALSE
    <3>1. Cardinality({d}) = 1
      BY FS_Singleton
    <3> QED
      BY <2>9, <3>1, ~(1 > 1) DEF IsAmbiguous
  <2>11. IsAmbiguous(Filter(cand, i, d, FALSE), i, d, ExactMatch) = FALSE
    BY DEF IsAmbiguous, ExactMatch, PartlyMatch
  <2> QED
    BY <2>2, <2>3, <2>7, <2>8, <2>10, <2>11
<1> QED
  BY <1>2, <1>3

\* Tab and Enter read an abbreviation alike, whatever commands are installed, also where
\* a variable could stand (cmd_complete_command against cmd_filter_by_completion and
\* is_cmd_ambiguous).
THEOREM CompletionKeepsMeaning == Spec => []TabMeansTheSame
<1>1. MatchInv => TabMeansTheSame
  <2> SUFFICES ASSUME MatchInv, NEW w \in NextWords,
                      CompleteCommand(loose, w).status = "CMD_COMPLETE_FULL_MATCH",
                      NEW d \in CompleteCommand(loose, w).words
               PROVE  Step(loose, w, FALSE) = Step(loose, d, FALSE)
    BY DEF TabMeansTheSame
  <2>1. ~loose.ambiguous /\ Matched(loose, w) = {d}
    BY CompletedIsTyped
  <2>2. loose.index + 1 \in Nat \ {0} /\ loose.cand \in SUBSET Commands /\ w \in Words
    BY DEF MatchInv, LoopInv, NextWords
  <2>3. {e \in UNION {Place(c, loose.index + 1) : c \in loose.cand} : EntryFunction(w, e)} = {d}
    BY <2>1 DEF Matched
  <2> DEFINE i == loose.index + 1
  <2>4. /\ Keep(Filter(loose.cand, i, w, FALSE), i, w, BestMatch(loose.cand, i, w, FALSE))
             = Keep(Filter(loose.cand, i, d, FALSE), i, d, BestMatch(loose.cand, i, d, FALSE))
        /\ IsAmbiguous(Filter(loose.cand, i, w, FALSE), i, w, BestMatch(loose.cand, i, w, FALSE))
             = IsAmbiguous(Filter(loose.cand, i, d, FALSE), i, d, BestMatch(loose.cand, i, d, FALSE))
    BY <2>2, <2>3, CompletionSelects
  <2> QED
    BY <2>1, <2>4 DEF Step
<1> QED
  BY <1>1, MatchInit, MatchStep, PTL DEF Spec

----------------------------------------------------------------------------
(* Commands that one line can keep.                                        *)

\* Two commands that are left after a word have a place of one kind for it.
LEMMA KeptShared ==
  ASSUME NEW cand \in SUBSET Commands, NEW i \in Nat \ {0}, NEW w, NEW exact \in BOOLEAN,
         NEW left, left = Filter(cand, i, w, exact), NEW best, best = BestMatch(cand, i, w, exact),
         ~IsAmbiguous(left, i, w, best), NEW c \in Keep(left, i, w, best), NEW e \in Keep(left, i, w, best)
  PROVE  Shared(Place(c, i), Place(e, i))
<1>1. PICK d \in Place(c, i), f \in Place(e, i) : Agrees(d, w, best) /\ Agrees(f, w, best)
  BY DEF Keep
<1>2. c \in left /\ e \in left /\ left \subseteq cand
  BY DEF Keep, Filter
<1>3. /\ best \in 0 .. 4
      /\ \A x \in cand : \A y \in Place(x, i) : MatchType(y, w, exact) <= best
  BY BestMatches
<1>4. CASE best = ExactMatch
  <2>1. d = w /\ f = w
    BY <1>1, <1>4 DEF Agrees, ExactMatch, PartlyMatch, Ipv4Match, ExtendMatch, NoMatch
  <2> QED
    BY <1>1, <2>1 DEF Shared
<1>5. CASE best = PartlyMatch
  <2> DEFINE ds == PartlyMatched(left, i, w)
  <2>1. IsKeyword(d) /\ d \in KeywordsOf(w) /\ IsKeyword(f) /\ f \in KeywordsOf(w)
    BY <1>1, <1>5 DEF Agrees, ExactMatch, PartlyMatch, Ipv4Match, ExtendMatch, NoMatch
  <2>2. d \in ds /\ f \in ds
    BY <1>1, <1>2, <2>1 DEF PartlyMatched
  <2>3. IsFiniteSet(ds)
    <3>1. left \in SUBSET Commands
      BY <1>2
    <3>2. IsFiniteSet(UNION {Place(x, i) : x \in left})
      BY <3>1, PlacesFinite
    <3>3. ds \in SUBSET UNION {Place(x, i) : x \in left}
      BY DEF PartlyMatched
    <3> QED
      BY <3>2, <3>3, FS_Subset
  <2>4. ~(Cardinality(ds) > 1)
    BY <1>5 DEF IsAmbiguous
  <2> HIDE DEF ds
  <2>5. Cardinality(ds) = 1
    <3>1. Cardinality(ds) \in Nat /\ Cardinality(ds) # 0
      BY <2>2, <2>3, FS_CardinalityType, FS_EmptySet
    <3> QED
      BY <2>4, <3>1
  <2>6. d = f
    BY <2>2, <2>3, <2>5, FS_Singleton
  <2> QED
    BY <1>1, <2>6 DEF Shared
<1>6. CASE best = Ipv4Match
  <2>1. d = Address /\ f = Address
    BY <1>1, <1>6 DEF Agrees, ExactMatch, PartlyMatch, Ipv4Match, ExtendMatch, NoMatch
  <2> QED
    BY <1>1, <2>1 DEF Shared
<1>7. CASE best = ExtendMatch
  <2>1. ASSUME NEW x \in left PROVE Place(x, i) \cap Free # {}
    <3>1. PICK y \in Place(x, i) : MatchType(y, w, exact) # NoMatch
      BY DEF Filter
    <3>2. MatchType(y, w, exact) \in 0 .. 4 /\ MatchType(y, w, exact) <= 1
      BY <1>2, <1>3, <1>7, MatchTypes DEF ExtendMatch
    <3>3. MatchType(y, w, exact) = ExtendMatch
      BY <3>1, <3>2 DEF ExtendMatch, NoMatch
    <3>4. y \in Free
      BY <3>3, MatchTypes DEF Free
    <3> QED
      BY <3>4
  <2> QED
    BY <1>2, <2>1 DEF Shared
<1>8. CASE best = NoMatch
  BY <1>1, <1>8 DEF Agrees, ExactMatch, PartlyMatch, Ipv4Match, ExtendMatch, NoMatch
<1> QED
  BY <1>3, <1>4, <1>5, <1>6, <1>7, <1>8 DEF ExactMatch, PartlyMatch, Ipv4Match, ExtendMatch, NoMatch

\* cmd_ipv4_match accepts every address that is complete.
LEMMA AddressMatches ==
  ASSUME NEW w \in DOMAIN Fields, LooksLike(Fields[w], TRUE), NEW exact \in BOOLEAN
  PROVE  IsAddress(w, exact)
<1> DEFINE f == Fields[w]
<1>1. f \in Seq(Int)
  BY MatcherAssumption
<1>2. /\ Len(f) = 4 /\ DOMAIN f = 1 .. 4
      /\ \A i \in DOMAIN f : f[i] = Empty => i = 1
      /\ \A i \in DOMAIN f : ~(f[i] > 255)
  BY <1>1 DEF LooksLike
<1> HIDE DEF f
<1>3. ASSUME NEW i \in DOMAIN f PROVE Verdict(f, i) = Going
  <2>0. \A q \in Seq(Int) : \A k \in DOMAIN q : q[k] \in Int
    OBVIOUS
  <2>1. i \in 1 .. 4 /\ f[i] \in Int /\ ~(f[i] > 255)
    BY <1>1, <1>2, <2>0, Zenon
  <2>2. i < 4 => f[i + 1] # Empty
    BY <1>2, <2>1
  <2> QED
    BY <1>2, <2>1, <2>2 DEF Verdict
<1>4. {i \in DOMAIN f : Verdict(f, i) # Going} = {}
  BY <1>3
<1>5. CmdIpv4Match(f) = ExactMatch
  BY <1>2, <1>4 DEF CmdIpv4Match
<1> QED
  BY <1>5 DEF IsAddress, f

\* A word that stands for its place in full: a keyword, or an argument that begins no
\* keyword but those that may stand there too.
InFull(w, places) ==
  /\ \E d \in places : MayStandFor(w, d, TRUE)
  /\ places \cap NotKeywords # {} => KeywordsOf(w) \subseteq places

\* A command that is left, and has a place for such a word, stays, and the word is not
\* ambiguous.
LEMMA FullKept ==
  ASSUME NEW cand \in SUBSET Commands, NEW i \in Nat \ {0}, NEW w \in Typed, NEW exact \in BOOLEAN,
         NEW c \in cand, i <= Len(Table[c]), InFull(w, Table[c][i]),
         \A e \in cand : Alike(c, e, i - 1),
         NEW left, left = Filter(cand, i, w, exact), NEW best, best = BestMatch(cand, i, w, exact)
  PROVE  c \in Keep(left, i, w, best) /\ ~IsAmbiguous(left, i, w, best)
<1> DEFINE a == Table[c][i]
<1>1. a = Place(c, i) /\ i \in DOMAIN Table[c] /\ c \in Commands
  BY MatcherAssumption DEF Place
<1>2. /\ best \in 0 .. 4
      /\ best # NoMatch => \E x \in cand : \E y \in Place(x, i) : MatchType(y, w, exact) = best
      /\ \A x \in cand : \A y \in Place(x, i) : MatchType(y, w, exact) <= best
  BY BestMatches
<1>3. ASSUME NEW d \in a, MatchType(d, w, exact) # NoMatch, NEW f \in a, Agrees(f, w, best)
      PROVE  c \in Keep(left, i, w, best)
  BY <1>1, <1>3 DEF Keep, Filter
<1>4. w \notin NotKeywords /\ IsKeyword(w)
  BY DEF Typed, IsKeyword
<1>5. CASE w \in a
  <2>1. MatchType(w, w, exact) = ExactMatch
    BY <1>4, MatchTypes
  <2>2. best = ExactMatch
    BY <1>1, <1>2, <1>5, <2>1 DEF ExactMatch
  <2>3. Agrees(w, w, best) /\ MatchType(w, w, exact) # NoMatch
    BY <1>4, <2>1, <2>2 DEF Agrees, ExactMatch, PartlyMatch, Ipv4Match, ExtendMatch, NoMatch
  <2>4. ~IsAmbiguous(left, i, w, best)
    BY <2>2 DEF IsAmbiguous, ExactMatch, PartlyMatch
  <2> QED
    BY <1>3, <1>5, <2>3, <2>4
<1>6. CASE w \notin a
  <2>1. PICK d \in a : d \in NotKeywords /\ MatchType(d, w, exact) \in {ExtendMatch, Ipv4Match}
                       /\ (d = Address => IsAddress(w, exact))
    <3>1. PICK d \in a : MayStandFor(w, d, TRUE)
      BY DEF InFull
    <3>2. CASE d \in Free
      <4>1. MatchType(d, w, exact) = ExtendMatch /\ d # Address /\ d \in NotKeywords
        BY <3>2 DEF MatchType, Free, IsKeyword, NotKeywords, Variable, Option, Address
      <4> QED
        BY <4>1
    <3>3. CASE d = Address
      <4>1. w \in DOMAIN Fields /\ LooksLike(Fields[w], TRUE)
        BY <1>4, <3>1, <3>3 DEF MayStandFor, NotKeywords, Variable, Option, Address
      <4>2. IsAddress(w, exact)
        BY <4>1, AddressMatches
      <4>3. MatchType(d, w, exact) = Ipv4Match /\ d \in NotKeywords
        BY <3>3, <4>2 DEF MatchType, Free, IsKeyword, NotKeywords, Variable, Option, Address
      <4> QED
        BY <4>2, <4>3
    <3> QED
      BY <1>6, <3>1, <3>2, <3>3 DEF MayStandFor, Free
  <2>2. KeywordsOf(w) \subseteq a /\ ~IsKeyword(d) /\ MatchType(d, w, exact) # NoMatch
    BY <2>1 DEF InFull, IsKeyword, ExtendMatch, Ipv4Match, NoMatch
  <2>3. best # NoMatch
    <3>1. MatchType(d, w, exact) <= best
      BY <1>1, <1>2
    <3> QED
      BY <1>2, <2>1, <3>1 DEF ExtendMatch, Ipv4Match, NoMatch
  <2>0. PICK x \in cand : \E y \in Place(x, i) : MatchType(y, w, exact) = best
    BY <1>2, <2>3
  <2>4. PICK y \in Place(x, i) : MatchType(y, w, exact) = best
    BY <2>0
  <2>5. best # ExactMatch
    <3>1. ASSUME best = ExactMatch PROVE FALSE
      <4>1. IsKeyword(y) /\ y = w
        BY <2>4, <3>1, MatchTypes
      <4>2. y \in Table[x][i] /\ i \in DOMAIN Table[x] /\ x \in Commands
        BY <2>4, MatcherAssumption DEF Place
      <4>3. w \in KeywordsOf(w)
        BY <4>1, <4>2, BeginsAssumption
      <4> QED
        BY <1>6, <2>2, <4>3
    <3> QED
      BY <3>1
  <2>6. CASE best = PartlyMatch
    <3>1. IsKeyword(y) /\ y \in KeywordsOf(w) /\ y \in a
      BY <2>2, <2>4, <2>6, MatchTypes
    <3>2. Agrees(y, w, best)
      BY <2>6, <3>1 DEF Agrees, ExactMatch, PartlyMatch, Ipv4Match, ExtendMatch, NoMatch
    <3>3. ASSUME NEW z \in PartlyMatched(left, i, w) PROVE z = y
      <4>1. z \in a /\ z \notin NotKeywords /\ y \notin NotKeywords /\ a \cap NotKeywords # {}
        BY <2>1, <2>2, <3>1 DEF PartlyMatched, IsKeyword
      <4> QED
        BY <1>1, <3>1, <4>1, TableAssumption
    <3>4. PartlyMatched(left, i, w) \in SUBSET {y}
      BY <3>3
    <3>5. IsFiniteSet({y}) /\ Cardinality({y}) = 1
      BY FS_Singleton
    <3>6. ~(Cardinality(PartlyMatched(left, i, w)) > 1)
      <4>1. /\ IsFiniteSet(PartlyMatched(left, i, w))
            /\ Cardinality(PartlyMatched(left, i, w)) <= Cardinality({y})
        BY <3>4, <3>5, FS_Subset
      <4>2. Cardinality(PartlyMatched(left, i, w)) \in Nat
        BY <4>1, FS_CardinalityType
      <4> QED
        BY <3>5, <4>1, <4>2
    <3> QED
      BY <1>3, <2>2, <3>1, <3>2, <3>6 DEF IsAmbiguous
  <2>7. CASE best = Ipv4Match
    <3>1. y = Address
      BY <2>4, <2>7, MatchTypes
    <3>2. a \cap Free = {}
      BY <1>1, <2>4, <3>1, TableAssumption
    <3>3. d = Address
      BY <2>1, <3>2 DEF Free, NotKeywords
    <3>4. Agrees(d, w, best) /\ best # PartlyMatch
      BY <2>7, <3>3 DEF Agrees, ExactMatch, PartlyMatch, Ipv4Match, ExtendMatch, NoMatch
    <3> QED
      BY <1>3, <2>2, <3>4 DEF IsAmbiguous
  <2>8. CASE best = ExtendMatch
    <3>1. Agrees(d, w, best) /\ best # PartlyMatch
      BY <2>2, <2>8 DEF Agrees, ExactMatch, PartlyMatch, Ipv4Match, ExtendMatch, NoMatch
    <3> QED
      BY <1>3, <2>2, <3>1 DEF IsAmbiguous
  <2> QED
    BY <1>2, <2>3, <2>5, <2>6, <2>7, <2>8 DEF ExactMatch, PartlyMatch, Ipv4Match, ExtendMatch, NoMatch
<1> QED
  BY <1>5, <1>6

----------------------------------------------------------------------------
(* What one line can keep.                                                 *)

\* Any two commands that are left have places of one kind for every word so far.
PairInv(m) == ~m.ambiguous => \A c, e \in m.cand : Alike(c, e, m.index)

\* Line l begins command c with its words in full, and then c is left.
Begun(c, l) == Len(l) <= Len(Table[c]) /\ \A i \in DOMAIN l : InFull(l[i], Table[c][i])
FullInv(l, m) == \A c \in Commands : Begun(c, l) => ~m.ambiguous /\ c \in m.cand

\* One turn of the loop keeps both.
LEMMA PairStep ==
  ASSUME NEW l \in Seq(Typed), NEW w \in Typed, NEW m, NEW exact \in BOOLEAN, LoopInv(l, m, exact),
         PairInv(m), FullInv(l, m)
  PROVE  PairInv(Step(m, w, exact)) /\ FullInv(Append(l, w), Step(m, w, exact))
<1>1. m \in [index : Nat, cand : SUBSET Commands, ambiguous : BOOLEAN]
  BY DEF LoopInv
<1>2. ASSUME NEW c \in Commands, Begun(c, Append(l, w))
      PROVE  /\ Begun(c, l) /\ Len(l) + 1 <= Len(Table[c]) /\ InFull(w, Table[c][Len(l) + 1])
  <2>1. /\ Len(Append(l, w)) = Len(l) + 1 /\ Len(l) \in Nat
        /\ Len(l) + 1 \in DOMAIN Append(l, w) /\ Append(l, w)[Len(l) + 1] = w
        /\ \A k \in DOMAIN l : k \in DOMAIN Append(l, w) /\ Append(l, w)[k] = l[k]
    OBVIOUS
  <2>2. Len(Table[c]) \in Nat
    BY MatcherAssumption
  <2>3. Len(Append(l, w)) <= Len(Table[c]) /\ \A k \in DOMAIN Append(l, w) : InFull(Append(l, w)[k], Table[c][k])
    BY <1>2 DEF Begun
  <2>4. InFull(w, Table[c][Len(l) + 1]) /\ \A k \in DOMAIN l : InFull(l[k], Table[c][k])
    BY <2>1, <2>3, Zenon
  <2> QED
    BY <2>1, <2>2, <2>3, <2>4 DEF Begun
<1>3. CASE m.ambiguous
  <2>1. Step(m, w, exact) = m
    BY <1>3 DEF Step
  <2> QED
    BY <1>2, <1>3, <2>1 DEF PairInv, FullInv
<1>4. CASE ~m.ambiguous
  <2> DEFINE i == m.index + 1
             type == BestMatch(m.cand, i, w, exact)
             left == Filter(m.cand, i, w, exact)
             kept == Keep(left, i, w, type)
             amb == IsAmbiguous(left, i, w, type)
  <2>1. Step(m, w, exact) = [index |-> i, cand |-> kept, ambiguous |-> amb]
    BY <1>4 DEF Step
  <2>2. i = Len(l) + 1 /\ i \in Nat \ {0} /\ i - 1 = m.index /\ m.cand \in SUBSET Commands
    BY <1>1, <1>4 DEF LoopInv
  <2>3. kept \subseteq m.cand
    BY DEF Keep, Filter
  <2>4. ASSUME ~amb, NEW c \in kept, NEW e \in kept PROVE Shared(Place(c, i), Place(e, i))
    BY <2>2, <2>4, KeptShared
  <2>5. ASSUME NEW c \in m.cand, i <= Len(Table[c]), InFull(w, Table[c][i])
        PROVE  c \in kept /\ ~amb
    <3>1. \A e \in m.cand : Alike(c, e, i - 1)
      BY <1>4, <2>2 DEF PairInv
    <3> QED
      BY <2>2, <2>5, <3>1, FullKept
  <2> HIDE DEF i, type, left, kept, amb
  <2>6. ASSUME ~amb, NEW c \in kept, NEW e \in kept PROVE Alike(c, e, i)
    <3>1. Alike(c, e, m.index)
      BY <1>4, <2>3 DEF PairInv
    <3>2. \A k \in 1 .. i : k \in 1 .. m.index \/ k = i
      BY <1>1, <2>2
    <3> QED
      BY <2>4, <2>6, <3>1, <3>2 DEF Alike
  <2>7. PairInv(Step(m, w, exact))
    BY <2>1, <2>6 DEF PairInv
  <2>8. ASSUME NEW c \in Commands, Begun(c, Append(l, w)) PROVE c \in kept /\ ~amb
    <3>1. c \in m.cand
      BY <1>2, <2>8 DEF FullInv
    <3> QED
      BY <1>2, <2>2, <2>5, <2>8, <3>1
  <2>9. FullInv(Append(l, w), Step(m, w, exact))
    BY <2>1, <2>8 DEF FullInv
  <2> QED
    BY <2>7, <2>9
<1> QED
  BY <1>1, <1>3, <1>4

\* Before the first word no place is filled.
LEMMA PairStart == PairInv(Start) /\ FullInv(<<>>, Start)
BY DEF PairInv, FullInv, Start, Alike

\* A command that is left and has all its words is the one that runs.
LEMMA ResultUnique ==
  ASSUME NEW m, m \in [index : Nat, cand : SUBSET Commands, ambiguous : BOOLEAN], PairInv(m), ~m.ambiguous,
         NEW c \in m.cand, m.index <= Len(Table[c]), m.index >= Cmdsize(c)
  PROVE  Result(m) = c
<1> DEFINE complete == {e \in m.cand : m.index >= Cmdsize(e)}
<1>1. m \in [index : Nat, cand : SUBSET Commands, ambiguous : BOOLEAN]
  OBVIOUS
<1>2. c \in Commands /\ m.index <= Len(Table[c]) /\ Len(Table[c]) \in Nat
  BY <1>1, MatcherAssumption
<1>3. ASSUME NEW e \in complete PROVE e = c
  <2>1. e \in Commands /\ Alike(c, e, m.index) /\ m.index \in 0 .. Len(Table[c])
    BY <1>1, <1>2 DEF PairInv
  <2> QED
    BY <1>2, <2>1, TableAssumption
<1>4. complete = {c}
  BY <1>3
<1>5. Result(m) = CASE m.ambiguous \/ Cardinality(complete) > 1       -> "CMD_ERR_AMBIGUOUS"
                    [] ~m.ambiguous /\ m.cand = {}                    -> "CMD_ERR_NO_MATCH"
                    [] ~m.ambiguous /\ m.cand # {} /\ complete = {}   -> "CMD_ERR_INCOMPLETE"
                    [] ~m.ambiguous /\ Cardinality(complete) = 1      -> CHOOSE e \in complete : TRUE
  BY DEF Result
<1>6. Cardinality(complete) = 1
  BY <1>4, FS_Singleton
<1>7. (CHOOSE e \in complete : TRUE) = c
  BY <1>4
<1> HIDE DEF complete
<1>8. Result(m) = CHOOSE e \in complete : TRUE
  BY <1>4, <1>5, <1>6
<1> QED
  BY <1>7, <1>8

\* The invariant of both loops, of pairs of commands and of words in full.
TableInv ==
  /\ MatchInv
  /\ PairInv(loose) /\ FullInv(line, loose)
  /\ PairInv(strict) /\ FullInv(line, strict)

LEMMA TableInit == Init => TableInv
BY MatchInit, PairStart DEF Init, TableInv

LEMMA TableStep == TableInv /\ [Next]_vars => TableInv'
<1> SUFFICES ASSUME TableInv, [Next]_vars PROVE TableInv'
  OBVIOUS
<1>1. MatchInv /\ MatchInv'
  BY MatchStep DEF TableInv
<1>2. ASSUME NEW w \in Typed, line' = Append(line, w), loose' = Step(loose, w, FALSE), strict' = Step(strict, w, TRUE)
      PROVE  TableInv'
  <2>1. line \in Seq(Typed) /\ LoopInv(line, loose, FALSE) /\ LoopInv(line, strict, TRUE)
    BY <1>1 DEF MatchInv
  <2>2. PairInv(Step(loose, w, FALSE)) /\ FullInv(Append(line, w), Step(loose, w, FALSE))
    BY <2>1, PairStep DEF TableInv
  <2>3. PairInv(Step(strict, w, TRUE)) /\ FullInv(Append(line, w), Step(strict, w, TRUE))
    BY <2>1, PairStep DEF TableInv
  <2> QED
    BY <1>1, <1>2, <2>2, <2>3 DEF TableInv
<1>3. ASSUME NEW w \in NextWords, Type(w) PROVE TableInv'
  <2>1. w \in Typed
    BY NamesAssumption DEF NextWords, Typed
  <2> QED
    BY <1>2, <1>3, <2>1 DEF Type
<1>4. ASSUME NEW w \in NextWords \cup {Nothing}, Tab(w) PROVE TableInv'
  <2>1. PICK d \in CompleteCommand(loose, w).words :
          /\ CompleteCommand(loose, w).status = "CMD_COMPLETE_FULL_MATCH"
          /\ line' = Append(line, d) /\ loose' = Step(loose, d, FALSE) /\ strict' = Step(strict, d, TRUE)
    BY <1>4 DEF Tab
  <2>2. d \in Typed
    BY <1>1, <2>1, CompletedIsTyped
  <2> QED
    BY <1>2, <2>1, <2>2
<1>5. CASE Enter
  <2>1. line' = <<>> /\ loose' = Start /\ strict' = Start
    BY <1>5 DEF Enter
  <2> QED
    BY <1>1, <2>1, PairStart DEF TableInv
<1>6. CASE UNCHANGED <<line, loose, strict>>
  BY <1>1, <1>6 DEF TableInv
<1> QED
  BY <1>3, <1>4, <1>5, <1>6 DEF Next, Reload, vars

\* A line that has a command's keywords in full runs that command, typed or read, if no
\* word for an argument could be a keyword, for any commands that keep to TableAssumption:
\* filtering word by word loses nothing, and no two commands compete
\* (cmd_filter_by_string, cmd_filter_by_completion and is_cmd_ambiguous of command.c).
THEOREM FullLinesRun == Spec => []FullLineRuns
<1>1. TableInv => FullLineRuns
  <2> SUFFICES ASSUME TableInv, NEW c \in Commands, Fits(c, line, TRUE),
                      \A i \in DOMAIN line : Table[c][i] \cap NotKeywords # {}
                                               => KeywordsOf(line[i]) \subseteq Table[c][i]
               PROVE  Result(loose) = c /\ Result(strict) = c
    BY DEF FullLineRuns
  <2>1. line \in Seq(Typed) /\ LoopInv(line, loose, FALSE) /\ LoopInv(line, strict, TRUE)
    BY DEF TableInv, MatchInv
  <2>2. Cmdsize(c) \in Int /\ Len(Table[c]) \in Nat /\ Len(line) \in Nat
    BY <2>1, CmdsizeType, MatcherAssumption
  <2>3. Len(line) >= Cmdsize(c) /\ Len(line) <= Len(Table[c])
    BY <2>2 DEF Fits
  <2>4. Begun(c, line)
    BY <2>3 DEF Begun, InFull, Fits
  <2>5. /\ ~loose.ambiguous /\ c \in loose.cand /\ loose.index = Len(line)
        /\ ~strict.ambiguous /\ c \in strict.cand /\ strict.index = Len(line)
    BY <2>1, <2>4 DEF TableInv, FullInv, LoopInv
  <2>6. Result(loose) = c
    BY <2>1, <2>3, <2>5, ResultUnique DEF TableInv, LoopInv
  <2>7. Result(strict) = c
    BY <2>1, <2>3, <2>5, ResultUnique DEF TableInv, LoopInv
  <2> QED
    BY <2>6, <2>7
<1> QED
  BY <1>1, TableInit, TableStep, PTL DEF Spec

----------------------------------------------------------------------------
(* What "?" shows.                                                         *)

\* The words that "?" shows, but for "<cr>".
Described(m, w) ==
  {d \in UNION {Place(c, m.index + 1) : c \in (IF w = Nothing THEN m.cand ELSE Filter(m.cand, m.index + 1, w, FALSE))} :
     EntryFunctionDesc(w, d)}
Ended(m, w) == w = Nothing /\ \E c \in m.cand : Len(Table[c]) = m.index

\* What vtysh_rl_describe shows: the error, or the words.
LEMMA Shows ==
  ASSUME NEW w
  PROVE  /\ loose.ambiguous => RlDescribe(w) = {"CMD_ERR_AMBIGUOUS"}
         /\ ~loose.ambiguous /\ Described(loose, w) = {} /\ ~Ended(loose, w) => RlDescribe(w) = {"CMD_ERR_NO_MATCH"}
         /\ ~loose.ambiguous /\ ~Ended(loose, w) /\ Described(loose, w) # {} => RlDescribe(w) = Described(loose, w)
         /\ ~loose.ambiguous /\ Ended(loose, w) => RlDescribe(w) = Described(loose, w) \cup {"<cr>"}
<1> DEFINE shown == Described(loose, w) \cup (IF Ended(loose, w) THEN {"<cr>"} ELSE {})
           answer == CASE loose.ambiguous                -> [status |-> "CMD_ERR_AMBIGUOUS", shown |-> {}]
                       [] ~loose.ambiguous /\ shown = {} -> [status |-> "CMD_ERR_NO_MATCH", shown |-> {}]
                       [] ~loose.ambiguous /\ shown # {} -> [status |-> "CMD_SUCCESS", shown |-> shown]
<1>1. DescribeCommand(loose, w) = answer
  <2> DEFINE cand == IF w = Nothing THEN loose.cand ELSE Filter(loose.cand, loose.index + 1, w, FALSE)
             ended == w = Nothing /\ \E c \in cand : Len(Table[c]) = loose.index
  <2>1. ended <=> Ended(loose, w)
    BY DEF Ended
  <2>2. {d \in UNION {Place(c, loose.index + 1) : c \in cand} : EntryFunctionDesc(w, d)} = Described(loose, w)
    BY Zenon DEF Described
  <2>3. DescribeCommand(loose, w) =
          LET all == {d \in UNION {Place(c, loose.index + 1) : c \in cand} : EntryFunctionDesc(w, d)}
                     \cup (IF ended THEN {"<cr>"} ELSE {})
          IN  CASE loose.ambiguous               -> [status |-> "CMD_ERR_AMBIGUOUS", shown |-> {}]
                [] ~loose.ambiguous /\ all = {}  -> [status |-> "CMD_ERR_NO_MATCH", shown |-> {}]
                [] ~loose.ambiguous /\ all # {}  -> [status |-> "CMD_SUCCESS", shown |-> all]
    BY Zenon DEF DescribeCommand
  <2> HIDE DEF cand, ended
  <2> QED
    BY <2>1, <2>2, <2>3, Zenon
<1>2. RlDescribe(w) = IF answer.status = "CMD_SUCCESS" THEN answer.shown ELSE {answer.status}
  BY <1>1, Zenon DEF RlDescribe
<1>3. /\ Ended(loose, w) => shown = Described(loose, w) \cup {"<cr>"} /\ shown # {}
      /\ ~Ended(loose, w) => shown = Described(loose, w)
  BY Zenon
<1> HIDE DEF shown
<1>4. CASE loose.ambiguous
  BY <1>2, <1>4
<1>5. CASE ~loose.ambiguous /\ shown = {}
  BY <1>2, <1>3, <1>5
<1>6. CASE ~loose.ambiguous /\ shown # {}
  BY <1>2, <1>3, <1>6
<1> QED
  BY <1>4, <1>5, <1>6

\* A word of the table is none of the answers.
LEMMA DescribedNames ==
  ASSUME NEW m, m \in [index : Nat, cand : SUBSET Commands, ambiguous : BOOLEAN], NEW w, NEW d \in Described(m, w)
  PROVE  d \notin Failed /\ d # "<cr>"
<1>1. PICK c \in m.cand : d \in Place(c, m.index + 1)
  BY DEF Described, Filter
<1>2. c \in Commands /\ d \in Table[c][m.index + 1] /\ m.index + 1 \in DOMAIN Table[c]
  BY <1>1, MatcherAssumption DEF Place
<1> QED
  BY <1>2, NamesAssumption

\* The number of words a command needs, and what may stand behind them.
LEMMA CmdsizeOptions ==
  ASSUME NEW c \in Commands
  PROVE  /\ Cmdsize(c) <= Len(Table[c])
         /\ \A n \in Nat : Cmdsize(c) <= n /\ n < Len(Table[c]) => Table[c][n + 1] = {Option}
<1> DEFINE options == {i \in DOMAIN Table[c] : Table[c][i] = {Option}}
<1>1. options \subseteq Nat /\ Len(Table[c]) \in Nat /\ DOMAIN Table[c] = 1 .. Len(Table[c])
  BY MatcherAssumption
<1>2. options # {} => Min(options) \in options
  <2>1. options # {} => \E x \in options : \A y \in options : x <= y
    BY <1>1, NatLeast
  <2> QED
    BY <2>1, Zenon DEF Min
<1>3. Cmdsize(c) = IF options = {} THEN Len(Table[c]) ELSE Min(options) - 1
  BY DEF Cmdsize
<1>4. ASSUME NEW k \in options PROVE /\ k \in Nat /\ k >= 1 /\ k <= Len(Table[c])
                                     /\ \A j \in k .. Len(Table[c]) : Table[c][j] = {Option}
  BY <1>1, TableAssumption
<1> HIDE DEF options
<1>5. CASE options = {}
  BY <1>1, <1>3, <1>5
<1>6. CASE options # {}
  <2> DEFINE k == Min(options)
  <2>1. /\ k \in Nat /\ k >= 1 /\ k <= Len(Table[c])
        /\ \A j \in k .. Len(Table[c]) : Table[c][j] = {Option}
    BY <1>2, <1>4, <1>6
  <2>2. Cmdsize(c) = k - 1
    BY <1>3, <1>6
  <2> HIDE DEF k
  <2> QED
    BY <1>1, <2>1, <2>2
<1> QED
  BY <1>5, <1>6

\* A word is described if and only if a command is left after it.
LEMMA DescribedIsKept ==
  ASSUME NEW m, m \in [index : Nat, cand : SUBSET Commands, ambiguous : BOOLEAN], ~m.ambiguous, NEW w \in Words
  PROVE  Described(m, w) # {} <=> Step(m, w, FALSE).cand # {}
<1> DEFINE i == m.index + 1
           type == BestMatch(m.cand, i, w, FALSE)
           left == Filter(m.cand, i, w, FALSE)
<1>1. Step(m, w, FALSE).cand = Keep(left, i, w, type)
  BY DEF Step
<1>2. w # Nothing
  BY BeginsAssumption DEF Nothing
<1>3. \A d : d \in Described(m, w) <=> (\E c \in left : d \in Place(c, i)) /\ EntryFunctionDesc(w, d)
  BY <1>2 DEF Described
<1>4. /\ type \in 0 .. 4
      /\ type # NoMatch => \E c \in m.cand : \E d \in Place(c, i) : MatchType(d, w, FALSE) = type
      /\ \A c \in m.cand : \A d \in Place(c, i) : MatchType(d, w, FALSE) <= type
  BY BestMatches
<1>5. \A c : c \in left <=> c \in m.cand /\ \E d \in Place(c, i) : MatchType(d, w, FALSE) # NoMatch
  BY DEF Filter
<1>6. i \in Nat \ {0} /\ m.cand \subseteq Commands
  OBVIOUS
<1> HIDE DEF i, type, left
<1>7. ASSUME NEW c \in Keep(left, i, w, type) PROVE Described(m, w) # {}
  <2>1. c \in left
    BY DEF Keep
  <2>2. PICK d \in Place(c, i) : MatchType(d, w, FALSE) # NoMatch
    BY <1>5, <2>1
  <2>3. c \in Commands /\ i \in DOMAIN Table[c] /\ d \in Table[c][i]
    <3>1. c \in Commands
      BY <1>5, <1>6, <2>1
    <3>2. i <= Len(Table[c]) /\ d \in Table[c][i]
      BY <2>2 DEF Place
    <3> QED
      BY <1>6, <3>1, <3>2, MatcherAssumption
  <2>4. EntryFunctionDesc(w, d)
    <3>1. CASE d = Address
      <4>1. IsAddress(w, FALSE)
        BY <2>2, <3>1 DEF MatchType, NoMatch, IsKeyword, NotKeywords, Variable, Option, Address
      <4> QED
        BY <3>1, <4>1 DEF EntryFunctionDesc, Address, Variable, Option, IsKeyword, NotKeywords
    <3>2. CASE d \in {Variable, Option}
      BY <3>2 DEF EntryFunctionDesc, Address, Variable, Option, IsKeyword, NotKeywords
    <3>3. CASE IsKeyword(d)
      <4>1. d \in KeywordsOf(w)
        <5>1. CASE d = w
          BY <2>3, <3>3, <5>1, BeginsAssumption
        <5>2. CASE d # w
          BY <2>2, <3>3, <5>2 DEF MatchType, IsKeyword, NotKeywords
        <5> QED
          BY <5>1, <5>2
      <4> QED
        BY <3>3, <4>1 DEF EntryFunctionDesc, Address, Variable, Option, IsKeyword, NotKeywords
    <3> QED
      BY <3>1, <3>2, <3>3 DEF IsKeyword, NotKeywords
  <2> QED
    BY <1>3, <2>1, <2>4
<1>8. ASSUME NEW d \in Described(m, w) PROVE Keep(left, i, w, type) # {}
  <2>1. PICK c \in left : d \in Place(c, i)
    BY <1>3
  <2>2. PICK f \in Place(c, i) : MatchType(f, w, FALSE) # NoMatch
    BY <1>5, <2>1
  <2>3. MatchType(f, w, FALSE) \in 0 .. 4 /\ MatchType(f, w, FALSE) <= type
    BY <1>4, <1>5, <2>1, MatchTypes
  <2>4. type # NoMatch
    <3>1. type \in 0 .. 4
      BY <1>4
    <3>2. ASSUME NEW x \in 0 .. 4, x # 0, x <= type PROVE type # 0
      BY <3>1, <3>2
    <3> QED
      BY <2>2, <2>3, <3>2, Zenon DEF NoMatch
  <2>5. PICK e \in m.cand : \E g \in Place(e, i) : MatchType(g, w, FALSE) = type
    BY <1>4, <2>4
  <2>6. PICK g \in Place(e, i) : MatchType(g, w, FALSE) = type
    BY <2>5
  <2>7. e \in left
    BY <1>5, <2>4, <2>6
  <2>8. Agrees(g, w, type)
    BY <2>4, <2>6, MatchAgrees
  <2> QED
    BY <2>6, <2>7, <2>8 DEF Keep
<1> QED
  BY <1>1, <1>7, <1>8

\* "?" tells the truth, for any commands that keep to TableAssumption: "<cr>" is shown
\* only when Enter runs a command, and always then unless an option may follow, and a word
\* is described if and only if it may be typed here (cmd_describe_command against
\* cmd_execute_command, command.c).
THEOREM DescriptionIsTrue == Spec => []DescribesWhatRuns
<1>1. TableInv => DescribesWhatRuns
  <2> SUFFICES ASSUME TableInv PROVE DescribesWhatRuns
    OBVIOUS
  <2>1. /\ line \in Seq(Typed) /\ LoopInv(line, loose, FALSE) /\ PairInv(loose)
        /\ loose \in [index : Nat, cand : SUBSET Commands, ambiguous : BOOLEAN]
    BY DEF TableInv, MatchInv, LoopInv
  <2>2. ASSUME "<cr>" \in RlDescribe(Nothing) PROVE Result(loose) \notin Failed
    <3>1. ~loose.ambiguous /\ Ended(loose, Nothing)
      <4>1. "<cr>" \notin Described(loose, Nothing)
        BY <2>1, DescribedNames
      <4> QED
        BY <2>2, <4>1, Shows
    <3>2. PICK c \in loose.cand : Len(Table[c]) = loose.index
      BY <3>1 DEF Ended
    <3>3. c \in Commands /\ loose.index <= Len(Table[c]) /\ loose.index >= Cmdsize(c)
      <4>1. c \in Commands
        BY <2>1
      <4>2. Cmdsize(c) \in Int /\ Cmdsize(c) <= Len(Table[c]) /\ loose.index \in Nat
        BY <2>1, <4>1, CmdsizeType, CmdsizeOptions
      <4> QED
        BY <3>2, <4>1, <4>2
    <3>4. Result(loose) = c
      BY <2>1, <3>1, <3>3, ResultUnique
    <3> QED
      BY <3>3, <3>4, NamesAssumption
  <2>3. ASSUME Result(loose) \notin Failed PROVE RlDescribe(Nothing) \cap {"<cr>", Option} # {}
    <3> DEFINE c == Result(loose)
    <3>1. ~loose.ambiguous /\ c \in loose.cand /\ loose.index >= Cmdsize(c)
      BY <2>1, <2>3, ResultIsLeft
    <3>2. /\ c \in Commands /\ loose.index \in Nat /\ Len(Table[c]) \in Nat
          /\ Cmdsize(c) \in Int /\ loose.index <= Len(Table[c])
      BY <2>1, <3>1, CmdsizeType, MatcherAssumption DEF LoopInv
    <3> HIDE DEF c
    <3>3. CASE Ended(loose, Nothing)
      BY <3>1, <3>3, Shows
    <3>4. CASE ~Ended(loose, Nothing)
      <4>1. loose.index < Len(Table[c])
        BY <3>1, <3>2, <3>4 DEF Ended
      <4>2. Table[c][loose.index + 1] = {Option}
        BY <3>1, <3>2, <4>1, CmdsizeOptions
      <4>3. Option \in Place(c, loose.index + 1)
        BY <3>2, <4>1, <4>2 DEF Place
      <4>4. EntryFunctionDesc(Nothing, Option)
        BY DEF EntryFunctionDesc, Address, Variable, Option, IsKeyword, NotKeywords
      <4>5. Option \in Described(loose, Nothing)
        BY <3>1, <4>3, <4>4 DEF Described
      <4> QED
        BY <3>1, <3>4, <4>5, Shows
    <3> QED
      BY <3>3, <3>4
  <2>4. ASSUME NEW w \in NextWords
        PROVE  RlDescribe(w) \cap Failed = {} <=> ~loose.ambiguous /\ Step(loose, w, FALSE).cand # {}
    <3>1. w \in Words /\ w # Nothing
      BY BeginsAssumption DEF NextWords, Nothing
    <3>2. CASE loose.ambiguous
      BY <3>2, Shows DEF Failed
    <3>3. CASE ~loose.ambiguous
      <4>1. ~Ended(loose, w)
        BY <3>1 DEF Ended
      <4>2. Described(loose, w) \cap Failed = {}
        BY <2>1, DescribedNames
      <4>3. "CMD_ERR_NO_MATCH" \in Failed
        BY DEF Failed
      <4>4. Described(loose, w) # {} <=> Step(loose, w, FALSE).cand # {}
        BY <2>1, <3>1, <3>3, DescribedIsKept
      <4> QED
        BY <3>3, <4>1, <4>2, <4>3, <4>4, Shows
    <3> QED
      BY <2>1, <3>2, <3>3
  <2> QED
    BY <2>2, <2>3, <2>4 DEF DescribesWhatRuns
<1> QED
  BY <1>1, TableInit, TableStep, PTL DEF Spec

----------------------------------------------------------------------------
(* A line that is written and read again.                                  *)

\* What each kind of match asks of d.
LEMMA Agreeing ==
  ASSUME NEW d, NEW w
  PROVE  /\ Agrees(d, w, ExactMatch) <=> IsKeyword(d) /\ d = w
         /\ Agrees(d, w, PartlyMatch) <=> IsKeyword(d) /\ d \in KeywordsOf(w)
         /\ Agrees(d, w, Ipv4Match) <=> d = Address
         /\ Agrees(d, w, ExtendMatch) <=> ~IsKeyword(d)
         /\ ~Agrees(d, w, NoMatch)
BY DEF Agrees, ExactMatch, PartlyMatch, Ipv4Match, ExtendMatch, NoMatch

\* The kinds of match.
LEMMA Kinds ==
  ASSUME NEW t \in 0 .. 4
  PROVE  t \in {NoMatch, ExtendMatch, Ipv4Match, PartlyMatch, ExactMatch}
BY DEF ExactMatch, PartlyMatch, Ipv4Match, ExtendMatch, NoMatch

\* Whether the loop takes keywords in whole only.
InWhole(exact) == exact

\* What a command writes for word w of a place: its keyword, or the word.
Written(places, w, t) ==
  \/ \E d : places = {d} /\ IsKeyword(d) /\ t = d
  \/ \E d : places = {d} /\ ~IsKeyword(d) /\ t = w
  \/ t = w /\ w \in places
  \/ t = w /\ Variable \in places

\* Of the commands that are left at place i, L for the words that were typed and S for the
\* ones that were written, c has kept w and writes t for it.
Rewritten(L, S, i, w, t, c, lax, exact) ==
  /\ lax \in BOOLEAN /\ ~InWhole(lax) /\ exact \in BOOLEAN /\ InWhole(exact)
  /\ L \in SUBSET Commands /\ S \in SUBSET L /\ i \in Nat \ {0} /\ w \in Typed /\ t \in Typed
  /\ c \in S /\ \A e \in L : Alike(c, e, i - 1)
  /\ c \in Keep(Filter(L, i, w, lax), i, w, BestMatch(L, i, w, lax))
  /\ Written(Table[c][i], w, t) /\ (w \in DOMAIN Fields => IsAddress(w, exact))

\* A command that the word has kept, what it writes keeps, and no command besides that the
\* word has not kept.
LEMMA WordReloaded ==
  ASSUME NEW L, NEW S, NEW i, NEW w, NEW t, NEW c, NEW lax, NEW exact, Rewritten(L, S, i, w, t, c, lax, exact)
  PROVE  /\ c \in Keep(Filter(S, i, t, exact), i, t, BestMatch(S, i, t, exact))
         /\ Keep(Filter(S, i, t, exact), i, t, BestMatch(S, i, t, exact))
              \subseteq Keep(Filter(L, i, w, lax), i, w, BestMatch(L, i, w, lax))
         /\ BestMatch(S, i, t, exact) # PartlyMatch
<1> DEFINE bl == BestMatch(L, i, w, lax)
           kl == Keep(Filter(L, i, w, lax), i, w, bl)
           bs == BestMatch(S, i, t, exact)
           ks == Keep(Filter(S, i, t, exact), i, t, bs)
<1> SUFFICES c \in ks /\ ks \subseteq kl /\ bs # PartlyMatch
  OBVIOUS
<1> /\ lax \in BOOLEAN /\ ~InWhole(lax) /\ exact \in BOOLEAN /\ InWhole(exact)
    /\ L \in SUBSET Commands /\ S \in SUBSET L /\ i \in Nat \ {0} /\ w \in Typed /\ t \in Typed
    /\ c \in S /\ \A e \in L : Alike(c, e, i - 1)
    /\ bl = BestMatch(L, i, w, lax) /\ kl = Keep(Filter(L, i, w, lax), i, w, bl) /\ c \in kl
    /\ bs = BestMatch(S, i, t, exact) /\ ks = Keep(Filter(S, i, t, exact), i, t, bs)
    /\ Written(Table[c][i], w, t) /\ (w \in DOMAIN Fields => IsAddress(w, exact))
  BY DEF Rewritten
<1> HIDE DEF bl, kl, bs, ks
<1> DEFINE p == Place(c, i)
<1>1. /\ bl \in 0 .. 4
      /\ \A x \in L : \A y \in Place(x, i) : MatchType(y, w, lax) <= bl
  BY BestMatches
<1>2. /\ bs \in 0 .. 4
      /\ bs # NoMatch => \E x \in S : \E y \in Place(x, i) : MatchType(y, t, exact) = bs
      /\ \A x \in S : \A y \in Place(x, i) : MatchType(y, t, exact) <= bs
  BY BestMatches
<1>3. \A x : x \in kl <=> /\ x \in L /\ \E y \in Place(x, i) : MatchType(y, w, lax) # NoMatch
                          /\ \E y \in Place(x, i) : Agrees(y, w, bl)
  BY DEF Keep, Filter
<1>4. \A x : x \in ks <=> /\ x \in S /\ \E y \in Place(x, i) : MatchType(y, t, exact) # NoMatch
                          /\ \E y \in Place(x, i) : Agrees(y, t, bs)
  BY DEF Keep, Filter
<1>5. PICK d \in p : Agrees(d, w, bl)
  BY <1>3
<1>6. p = Table[c][i] /\ i \in DOMAIN Table[c] /\ c \in Commands
  <2>1. i <= Len(Table[c]) /\ p = Table[c][i]
    BY <1>5 DEF Place
  <2> QED
    BY <2>1, MatcherAssumption
<1> HIDE DEF p
<1>7. bs # PartlyMatch
  <2>1. PartlyMatch # NoMatch
    BY DEF PartlyMatch, NoMatch
  <2> QED
    BY <1>2, <2>1, MatchTypes DEF InWhole
<1>8. IsKeyword(w) /\ IsKeyword(t)
  BY DEF Typed, IsKeyword
<1>9. /\ bl \in {NoMatch, ExtendMatch, Ipv4Match, PartlyMatch, ExactMatch}
      /\ bs \in {NoMatch, ExtendMatch, Ipv4Match, PartlyMatch, ExactMatch}
  BY <1>1, <1>2, Kinds
<1>10. CASE t \in p
  <2>1. MatchType(t, t, exact) = ExactMatch
    BY <1>8, MatchTypes
  <2>2. bs = ExactMatch
    BY <1>2, <1>10, <2>1 DEF ExactMatch, p
  <2>3. ExactMatch # NoMatch /\ PartlyMatch # NoMatch
    BY DEF ExactMatch, PartlyMatch, NoMatch
  <2>4. Agrees(t, w, bl) /\ MatchType(t, w, lax) # NoMatch
    <3>1. CASE t = w
      <4>1. MatchType(w, w, lax) = ExactMatch
        BY <1>8, MatchTypes
      <4>2. bl = ExactMatch
        BY <1>1, <1>10, <3>1, <4>1 DEF ExactMatch, p
      <4> QED
        BY <1>8, <2>3, <3>1, <4>1, <4>2, Agreeing
    <3>2. CASE t # w
      <4>1. p = {t}
        BY <1>6, <3>2 DEF Written
      <4>2. d = t
        BY <1>5, <4>1
      <4>3. t \in KeywordsOf(w)
        BY <1>5, <1>8, <1>9, <3>2, <4>2, Agreeing DEF IsKeyword, NotKeywords
      <4>4. MatchType(t, w, lax) = PartlyMatch
        BY <1>8, <3>2, <4>3, MatchTypes DEF InWhole
      <4> QED
        BY <1>5, <2>3, <4>2, <4>4
    <3> QED
      BY <3>1, <3>2
  <2>5. c \in ks
    BY <1>4, <1>8, <1>10, <2>1, <2>2, <2>3, Agreeing DEF p
  <2>6. ASSUME NEW e \in ks PROVE e \in kl
    <3>1. t \in Place(e, i) /\ e \in L
      BY <1>4, <2>2, Agreeing
    <3> QED
      BY <1>3, <2>4, <3>1
  <2> QED
    BY <1>7, <2>5, <2>6
<1>11. CASE t \notin p
  <2>1. /\ t = w
        /\ Variable \in p \/ \E x : p = {x} /\ ~IsKeyword(x)
    BY <1>6, <1>11 DEF Written
  <2>2. bl # ExactMatch
    BY <1>5, <1>11, <2>1, Agreeing
  <2>3. bs # ExactMatch
    <3>1. SUFFICES ASSUME bs = ExactMatch PROVE FALSE
      OBVIOUS
    <3>2. PICK x \in S : \E y \in Place(x, i) : MatchType(y, t, exact) = ExactMatch
      BY <1>2, <3>1 DEF ExactMatch, NoMatch
    <3>3. PICK y \in Place(x, i) : MatchType(y, t, exact) = ExactMatch
      BY <3>2
    <3>4. y = w /\ x \in L
      BY <2>1, <3>3, MatchTypes
    <3>5. MatchType(y, w, lax) = ExactMatch
      BY <1>8, <3>4, MatchTypes
    <3>6. 4 <= bl
      BY <1>1, <3>3, <3>4, <3>5 DEF ExactMatch
    <3> QED
      BY <1>1, <2>2, <3>6 DEF ExactMatch
  <2>4. CASE p \cap Free # {}
    <3>1. \A e \in L : /\ Address \notin Place(e, i)
                       /\ Place(e, i) \cap Free # {} => p \ Free \subseteq Place(e, i)
      BY <1>6, <2>4, TableAssumption
    <3>2. PICK v \in p : v \in Free
      BY <2>4
    <3>3. \A y \in Free : ~IsKeyword(y) /\ MatchType(y, w, lax) = ExtendMatch /\ MatchType(y, t, exact) = ExtendMatch
      BY DEF MatchType, Free, IsKeyword, NotKeywords, Variable, Option, Address
    <3>4. ExtendMatch # NoMatch
      BY DEF ExtendMatch, NoMatch
    <3>5. bs = ExtendMatch
      <4>1. bs # Ipv4Match
        <5>1. Ipv4Match # NoMatch
          BY DEF Ipv4Match, NoMatch
        <5> QED
          BY <1>2, <3>1, <5>1, MatchTypes
      <4>2. 1 <= bs
        BY <1>2, <3>2, <3>3 DEF ExtendMatch, p
      <4>3. bs # NoMatch
        BY <4>2 DEF NoMatch
      <4> QED
        BY <1>7, <1>9, <2>3, <4>1, <4>3
    <3>6. c \in ks
      BY <1>4, <3>2, <3>3, <3>4, <3>5, Agreeing DEF p
    <3>7. ASSUME NEW e \in ks PROVE e \in kl
      <4>1. e \in S /\ e \in L
        BY <1>4
      <4>2. PICK y \in Place(e, i) : MatchType(y, t, exact) # NoMatch
        BY <1>4
      <4>3. y \in Free
        <5>1. MatchType(y, t, exact) \in 0 .. 4 /\ MatchType(y, t, exact) <= 1
          BY <1>2, <3>5, <4>1, MatchTypes DEF ExtendMatch
        <5>2. MatchType(y, t, exact) = ExtendMatch
          BY <4>2, <5>1 DEF ExtendMatch, NoMatch
        <5> QED
          BY <5>2, MatchTypes DEF Free
      <4>4. MatchType(y, w, lax) # NoMatch
        BY <3>3, <3>4, <4>3
      <4>5. CASE bl = ExtendMatch
        BY <1>3, <3>3, <4>1, <4>3, <4>4, <4>5, Agreeing
      <4>6. CASE bl = PartlyMatch
        <5>1. IsKeyword(d) /\ d \notin Free
          BY <1>5, <3>3, <4>6, Agreeing
        <5>2. d \in Place(e, i)
          BY <1>5, <3>1, <4>1, <4>3, <5>1
        <5> QED
          BY <1>3, <1>5, <4>1, <4>4, <5>2
      <4>7. bl # Ipv4Match
        <5>1. c \in L
          OBVIOUS
        <5> QED
          BY <1>5, <3>1, <5>1, Agreeing DEF p
      <4> QED
        BY <1>5, <1>9, <2>2, <4>5, <4>6, <4>7, Agreeing
    <3> QED
      BY <1>7, <3>6, <3>7
  <2>5. CASE p \cap Free = {}
    <3>1. d = Address /\ p = {Address}
      BY <1>5, <2>1, <2>5 DEF IsKeyword, NotKeywords, Free
    <3>2. MatchType(Address, w, lax) # NoMatch
      BY <1>3, <3>1 DEF p
    <3>3. IsAddress(w, lax) /\ IsAddress(w, exact)
      <4>1. IsAddress(w, lax)
        BY <3>2 DEF MatchType, NoMatch, IsKeyword, NotKeywords, Variable, Option, Address
      <4> QED
        BY <4>1 DEF IsAddress
    <3>4. /\ MatchType(Address, w, lax) = Ipv4Match /\ MatchType(Address, t, exact) = Ipv4Match
          /\ ~IsKeyword(Address)
      BY <2>1, <3>3 DEF MatchType, NoMatch, IsKeyword, NotKeywords, Variable, Option, Address
    <3>5. bl = Ipv4Match
      <4>1. 2 <= bl
        BY <1>1, <3>1, <3>4 DEF Ipv4Match, p
      <4>2. bl # NoMatch /\ bl # ExtendMatch
        BY <4>1 DEF NoMatch, ExtendMatch
      <4>3. bl # PartlyMatch
        BY <1>5, <3>1, <3>4, Agreeing
      <4> QED
        BY <1>9, <2>2, <4>2, <4>3
    <3>6. bs = Ipv4Match
      <4>1. 2 <= bs
        BY <1>2, <3>1, <3>4 DEF Ipv4Match, p
      <4>2. bs # NoMatch /\ bs # ExtendMatch
        BY <4>1 DEF NoMatch, ExtendMatch
      <4> QED
        BY <1>7, <1>9, <2>3, <4>2
    <3>7. Ipv4Match # NoMatch
      BY DEF Ipv4Match, NoMatch
    <3>8. c \in ks
      BY <1>4, <3>1, <3>4, <3>6, <3>7, Agreeing DEF p
    <3>9. ASSUME NEW e \in ks PROVE e \in kl
      <4>1. e \in L /\ Address \in Place(e, i)
        BY <1>4, <3>6, Agreeing
      <4> QED
        BY <1>3, <3>2, <3>5, <4>1, Agreeing
    <3> QED
      BY <1>7, <3>8, <3>9
  <2> QED
    BY <2>4, <2>5
<1> QED
  BY <1>10, <1>11

\* What the loops work on.
Loops == [index : Nat, cand : SUBSET Commands, ambiguous : BOOLEAN]

\* r, which reads what command c writes, is not behind m, which reads what was typed.
Follows(r, m, c) == r \in Loops /\ ~r.ambiguous /\ r.index = m.index /\ r.cand \subseteq m.cand /\ c \in r.cand

\* So it stays for one more word.
LEMMA StepReloaded ==
  ASSUME NEW lax \in BOOLEAN, ~InWhole(lax), NEW exact \in BOOLEAN, InWhole(exact),
         NEW m \in Loops, ~m.ambiguous, PairInv(m), NEW r, NEW c, Follows(r, m, c), NEW w \in Typed, NEW t \in Typed,
         NEW y, y = Step(m, w, lax), ~y.ambiguous, c \in y.cand, NEW z, z = Step(r, t, exact),
         Written(Table[c][m.index + 1], w, t), w \in DOMAIN Fields => IsAddress(w, exact)
  PROVE  Follows(z, y, c)
<1> DEFINE i == m.index + 1
           bl == BestMatch(m.cand, i, w, lax)
           kl == Keep(Filter(m.cand, i, w, lax), i, w, bl)
           bs == BestMatch(r.cand, i, t, exact)
           ks == Keep(Filter(r.cand, i, t, exact), i, t, bs)
           amb == IsAmbiguous(Filter(r.cand, i, t, exact), i, t, bs)
<1>1. /\ m.index \in Nat /\ m.cand \in SUBSET Commands
      /\ r \in Loops /\ ~r.ambiguous /\ r.index = m.index /\ r.cand \in SUBSET m.cand /\ c \in r.cand
  BY DEF Follows, Loops
<1>2. y.index = i /\ y.cand = kl
  BY DEF Step
<1>3. z = [index |-> i, cand |-> ks, ambiguous |-> amb]
  BY <1>1 DEF Step
<1>4. i \in Nat \ {0} /\ i - 1 = m.index
  BY <1>1
<1>5. \A e \in m.cand : Alike(c, e, i - 1)
  BY <1>1, <1>4 DEF PairInv
<1>6. c \in ks /\ ks \subseteq kl /\ bs # PartlyMatch
  <2>1. Rewritten(m.cand, r.cand, i, w, t, c, lax, exact)
    BY <1>1, <1>2, <1>4, <1>5 DEF Rewritten
  <2> QED
    BY <2>1, WordReloaded
<1>7. amb = FALSE
  BY <1>6 DEF IsAmbiguous
<1> HIDE DEF i, bl, kl, bs, ks, amb
<1>8. z \in Loops
  <2>1. ks \in SUBSET Commands
    <3>1. ks \subseteq r.cand
      BY DEF ks, Keep, Filter
    <3> QED
      BY <1>1, <3>1
  <2>2. amb \in BOOLEAN /\ i \in Nat
    BY <1>4, <1>7
  <2> QED
    BY <1>3, <2>1, <2>2 DEF Loops
<1> QED
  BY <1>2, <1>3, <1>6, <1>7, <1>8 DEF Follows

\* What command c writes for w at place i.
TextWord(c, i, w) ==
  LET d == CHOOSE d \in Table[c][i] : TRUE
  IN  CASE c = Link /\ IsChoice(c, i) -> IF w = "link-up" THEN "link-up" ELSE "link-down"
        [] ~IsChoice(c, i) /\ IsKeyword(d) -> d
        [] OTHER -> w

LEMMA TextWords ==
  ASSUME NEW c, NEW l PROVE Text(c, l) = [i \in DOMAIN l |-> TextWord(c, i, l[i])]
BY Zenon DEF Text, TextWord

\* A place that is no choice is one word or one kind of word.
LEMMA OnePlace ==
  ASSUME NEW c \in Commands, NEW i \in DOMAIN Table[c], ~IsChoice(c, i)
  PROVE  \E d : Table[c][i] = {d}
<1> DEFINE p == Table[c][i]
<1>1. IsFiniteSet(p) /\ p # {} /\ ~(Cardinality(p) > 1)
  BY MatcherAssumption DEF IsChoice
<1> HIDE DEF p
<1>2. Cardinality(p) \in Nat /\ Cardinality(p) # 0
  BY <1>1, FS_CardinalityType, FS_EmptySet
<1>3. Cardinality(p) = 1
  BY <1>1, <1>2
<1>4. \E d : p = {d}
  BY <1>1, <1>3, FS_Singleton
<1> QED
  BY <1>4 DEF p

\* It is the keyword, or the word if that was typed in full.
LEMMA TextWritten ==
  ASSUME NEW c \in Commands, NEW i \in DOMAIN Table[c], NEW w \in Typed, NEW t, t = TextWord(c, i, w),
         IsChoice(c, i) /\ Variable \notin Table[c][i] => w \in Table[c][i]
  PROVE  t \in Typed /\ Written(Table[c][i], w, t)
<1> DEFINE d == CHOOSE d \in Table[c][i] : TRUE
<1>1. t = CASE c = Link /\ IsChoice(c, i) -> IF w = "link-up" THEN "link-up" ELSE "link-down"
            [] ~IsChoice(c, i) /\ IsKeyword(d) -> d
            [] OTHER -> w
  BY Zenon DEF TextWord
<1>2. ~IsChoice(c, i) => Table[c][i] = {d}
  <2>1. \A x : Table[c][i] = {x} => d = x
    OBVIOUS
  <2> QED
    BY <2>1, OnePlace
<1> HIDE DEF d
<1>3. CASE ~IsChoice(c, i) /\ IsKeyword(d)
  <2>1. t = d /\ Table[c][i] = {d}
    BY <1>1, <1>2, <1>3
  <2>2. d \in Typed
    BY <1>3, <2>1 DEF Typed, IsKeyword
  <2> QED
    BY <1>3, <2>1, <2>2 DEF Written
<1>4. CASE ~IsChoice(c, i) /\ ~IsKeyword(d)
  <2>1. t = w /\ Table[c][i] = {d}
    BY <1>1, <1>2, <1>4
  <2> QED
    BY <1>4, <2>1 DEF Written
<1>5. CASE IsChoice(c, i)
  <2>1. t = w
    <3>1. CASE c = Link
      <4>1. Table[c][i] = {"link-up", "link-down"}
        BY <1>5, <3>1, LinkAssumption
      <4>2. w \in {"link-up", "link-down"}
        BY <1>5, <4>1 DEF Variable
      <4> QED
        BY <1>1, <1>5, <3>1, <4>2
    <3>2. CASE c # Link
      BY <1>1, <1>5, <3>2
    <3> QED
      BY <3>1, <3>2
  <2> QED
    BY <1>5, <2>1 DEF Written
<1> QED
  BY <1>3, <1>4, <1>5

\* f is what the loop of cmd_execute_command_strict makes of q, word by word.
Reads(q, f) == f = [n \in 0 .. Len(q) |-> IF n = 0 THEN Start ELSE Step(f[n - 1], q[n], TRUE)]

\* There is one such course, and it decides the result.
LEMMA ReadsOnce ==
  ASSUME NEW q, Len(q) \in Nat, NEW f, Reads(q, f)
  PROVE  ExecuteStrict(q) = Result(f[Len(q)])
<1>1. ASSUME NEW g, Reads(q, g) PROVE g = f
  <2> DEFINE bad == {n \in 0 .. Len(q) : g[n] # f[n]}
  <2>1. /\ DOMAIN f = 0 .. Len(q) /\ DOMAIN g = 0 .. Len(q)
        /\ f = [n \in 0 .. Len(q) |-> f[n]] /\ g = [n \in 0 .. Len(q) |-> g[n]]
        /\ \A n \in 0 .. Len(q) : /\ f[n] = IF n = 0 THEN Start ELSE Step(f[n - 1], q[n], TRUE)
                                  /\ g[n] = IF n = 0 THEN Start ELSE Step(g[n - 1], q[n], TRUE)
    BY <1>1 DEF Reads
  <2>2. bad = {}
    <3> SUFFICES ASSUME bad # {} PROVE FALSE
      OBVIOUS
    <3>1. PICK n \in bad : \A k \in bad : n <= k
      <4>1. bad \subseteq Nat
        OBVIOUS
      <4> HIDE DEF bad
      <4> QED
        BY <4>1, NatLeast
    <3>2. n \in 0 .. Len(q) /\ g[n] # f[n]
      OBVIOUS
    <3>3. n # 0
      BY <2>1, <3>2
    <3>4. n - 1 \in 0 .. Len(q) /\ n - 1 \notin bad
      BY <3>1, <3>2, <3>3
    <3>5. g[n - 1] = f[n - 1]
      BY <3>4
    <3> QED
      BY <2>1, <3>2, <3>3, <3>5
  <2> QED
    BY <2>1, <2>2
<1> DEFINE loop == CHOOSE h : Reads(q, h)
<1>2. Reads(q, loop)
  BY Zenon
<1>3. ExecuteStrict(q) = Result(loop[Len(q)])
  BY Zenon DEF ExecuteStrict, Reads
<1> HIDE DEF loop
<1> QED
  BY <1>1, <1>2, <1>3

\* Every command that is left would, if the line were typed in full, be left again when
\* what it writes is read.
ReadInv(l, m) ==
  ~m.ambiguous => \A c \in m.cand : TypedInFull(c, l) => \E f : Reads(Text(c, l), f) /\ Follows(f[Len(l)], m, c)

\* What a command writes has as many words as the line.
LEMMA TextLen ==
  ASSUME NEW l \in Seq(Typed), NEW c
  PROVE  Len(Text(c, l)) = Len(l) /\ \A i \in DOMAIN l : Text(c, l)[i] = TextWord(c, i, l[i])
<1>1. Text(c, l) = [i \in 1 .. Len(l) |-> TextWord(c, i, l[i])]
  BY TextWords
<1> QED
  BY <1>1

\* Before the first word nothing is written.
LEMMA ReadStart == ReadInv(<<>>, Start)
<1> DEFINE f == [n \in 0 .. 0 |-> Start]
<1>1. ASSUME NEW c \in Commands PROVE Reads(Text(c, <<>>), f) /\ Follows(f[Len(<<>>)], Start, c)
  <2>1. Len(Text(c, <<>>)) = 0 /\ Len(<<>>) = 0
    <3>1. <<>> \in Seq(Typed) /\ Len(<<>>) = 0
      OBVIOUS
    <3> QED
      BY <3>1, TextLen, Zenon
  <2>2. f[0] = Start
    OBVIOUS
  <2>3. Reads(Text(c, <<>>), f)
    BY <2>1 DEF Reads
  <2>4. Follows(Start, Start, c)
    BY DEF Follows, Start, Loops
  <2> QED
    BY <2>1, <2>2, <2>3, <2>4
<1>2. Start.cand = Commands
  BY DEF Start
<1> HIDE DEF f
<1> QED
  BY <1>1, <1>2 DEF ReadInv

\* One turn of the loop keeps it.
LEMMA ReadStep ==
  ASSUME NEW l \in Seq(Typed), NEW w \in Typed, NEW m, LoopInv(l, m, FALSE), PairInv(m), ReadInv(l, m)
  PROVE  ReadInv(Append(l, w), Step(m, w, FALSE))
<1> DEFINE y == Step(m, w, FALSE)
           q == Append(l, w)
           n == Len(l) + 1
<1> SUFFICES ASSUME ~y.ambiguous, NEW c \in y.cand, TypedInFull(c, q)
             PROVE  \E f : Reads(Text(c, q), f) /\ Follows(f[Len(q)], y, c)
  BY DEF ReadInv
<1>1. m \in Loops /\ y \in Loops /\ q \in Seq(Typed) /\ LoopInv(q, y, FALSE)
  <2>1. q \in Seq(Typed)
    OBVIOUS
  <2>2. LoopInv(q, y, FALSE)
    BY StepKeeps
  <2> HIDE DEF q, y
  <2> QED
    BY <2>1, <2>2 DEF LoopInv, Loops
<1>2. ~m.ambiguous
  BY DEF Step
<1>3. /\ n \in Nat \ {0} /\ Len(l) \in Nat /\ Len(q) = n /\ n \in DOMAIN q /\ q[n] = w
      /\ \A k \in DOMAIN l : k \in DOMAIN q /\ q[k] = l[k]
      /\ DOMAIN l = 1 .. Len(l)
  OBVIOUS
<1>4. m.index = Len(l) /\ m.index + 1 = n
  BY <1>2 DEF LoopInv
<1>5. c \in m.cand
  BY <1>2, KeptFits DEF Step
<1>6. c \in Commands /\ n \in DOMAIN Table[c]
  <2>1. c \in Commands /\ Len(q) <= Len(Table[c])
    BY <1>1 DEF LoopInv
  <2> QED
    BY <1>3, <2>1, MatcherAssumption
<1> HIDE DEF y, q, n
<1>7. TypedInFull(c, l)
  BY <1>3 DEF TypedInFull
<1>8. PICK f : Reads(Text(c, l), f) /\ Follows(f[Len(l)], m, c)
  BY <1>2, <1>5, <1>7 DEF ReadInv
<1> DEFINE t == TextWord(c, n, w)
           z == Step(f[Len(l)], t, TRUE)
           g == [k \in 0 .. n |-> IF k = n THEN z ELSE f[k]]
<1>9. /\ w \in DOMAIN Fields => IsAddress(w, TRUE)
      /\ IsChoice(c, n) /\ Variable \notin Table[c][n] => w \in Table[c][n]
  BY <1>3 DEF TypedInFull
<1>10. t \in Typed /\ Written(Table[c][n], w, t)
  BY <1>6, <1>9, TextWritten
<1>11. Follows(z, y, c)
  <2>1. ~InWhole(FALSE) /\ InWhole(TRUE)
    BY DEF InWhole
  <2>2. y = Step(m, w, FALSE) /\ z = Step(f[Len(l)], t, TRUE) /\ Written(Table[c][m.index + 1], w, t)
    BY <1>4, <1>10 DEF y
  <2> HIDE DEF z, t
  <2> QED
    BY <1>1, <1>2, <1>8, <1>9, <1>10, <2>1, <2>2, StepReloaded
<1>12. /\ Len(Text(c, l)) = Len(l) /\ Len(Text(c, q)) = n
       /\ \A k \in DOMAIN l : Text(c, q)[k] = Text(c, l)[k]
       /\ Text(c, q)[n] = t
  BY <1>1, <1>3, TextLen
<1>13. /\ DOMAIN f = 0 .. Len(l)
       /\ \A k \in 0 .. Len(l) : f[k] = IF k = 0 THEN Start ELSE Step(f[k - 1], Text(c, l)[k], TRUE)
  BY <1>8, <1>12 DEF Reads
<1> HIDE DEF z, t
<1>14. ASSUME NEW k \in 0 .. n PROVE g[k] = IF k = 0 THEN Start ELSE Step(g[k - 1], Text(c, q)[k], TRUE)
  <2>1. CASE k = n
    <3>1. g[k] = z /\ g[k - 1] = f[Len(l)] /\ k # 0 /\ Text(c, q)[k] = t
      <4>1. k - 1 = Len(l) /\ k - 1 \in 0 .. n /\ k - 1 # n /\ k # 0
        <5>1. Len(l) \in Nat /\ k = Len(l) + 1
          BY <1>3, <2>1 DEF n
        <5> QED
          BY <2>1, <5>1
      <4>2. Text(c, q)[k] = t
        BY <1>12, <2>1
      <4> QED
        BY <2>1, <4>1, <4>2
    <3> QED
      BY <3>1 DEF z
  <2>2. CASE k # n
    <3>1. k \in 0 .. Len(l) /\ g[k] = f[k] /\ (k # 0 => g[k - 1] = f[k - 1] /\ k \in DOMAIN l)
      BY <1>3, <2>2 DEF n
    <3> QED
      BY <1>12, <1>13, <3>1
  <2> QED
    BY <2>1, <2>2
<1>15. g[n] = z /\ g = [k \in 0 .. n |-> g[k]]
  BY <1>3
<1> HIDE DEF g
<1>16. Reads(Text(c, q), g)
  BY <1>12, <1>14, <1>15 DEF Reads
<1> QED
  BY <1>3, <1>11, <1>15, <1>16

\* A line of the configuration that was typed in full is read as the command that wrote it.
Kept(e) ==
  /\ \E text, cmd, full : e = [text |-> text, cmd |-> cmd, full |-> full]
  /\ e.full => ExecuteStrict(e.text) = e.cmd /\ e.cmd \notin Failed

ReloadInv == TableInv /\ ReadInv(line, loose) /\ \A e \in top : Kept(e)

LEMMA ReloadInit == Init => ReloadInv
BY TableInit, ReadStart DEF Init, ReloadInv

\* What Enter writes.
LEMMA EnteredIsKept ==
  ASSUME ReloadInv, NEW c, c = Result(loose), c \in Writers
  PROVE  Kept([text |-> Text(c, line), cmd |-> c, full |-> TypedInFull(c, line)])
<1>1. /\ line \in Seq(Typed) /\ LoopInv(line, loose, FALSE) /\ PairInv(loose) /\ ReadInv(line, loose)
  BY DEF ReloadInv, TableInv, MatchInv
<1>2. c \in Commands /\ c \notin Failed
  BY MatcherAssumption, NamesAssumption
<1>3. ~loose.ambiguous /\ c \in loose.cand /\ loose.index >= Cmdsize(c)
  BY <1>1, <1>2, ResultIsLeft
<1>4. loose.index = Len(line) /\ loose.index <= Len(Table[c])
  BY <1>1, <1>3 DEF LoopInv
<1>5. ASSUME TypedInFull(c, line) PROVE ExecuteStrict(Text(c, line)) = c
  <2>1. PICK f : Reads(Text(c, line), f) /\ Follows(f[Len(line)], loose, c)
    BY <1>1, <1>3, <1>5 DEF ReadInv
  <2>2. Len(Text(c, line)) = Len(line) /\ Len(line) \in Nat
    BY <1>1, TextLen
  <2>3. ExecuteStrict(Text(c, line)) = Result(f[Len(line)])
    BY <2>1, <2>2, ReadsOnce
  <2> DEFINE r == f[Len(line)]
  <2>4. /\ r \in Loops /\ ~r.ambiguous /\ r.index = loose.index /\ r.cand \subseteq loose.cand /\ c \in r.cand
    BY <2>1 DEF Follows
  <2> HIDE DEF r
  <2>5. PairInv(r)
    BY <1>1, <1>3, <2>4 DEF PairInv
  <2>6. Result(r) = c
    BY <1>3, <1>4, <2>4, <2>5, ResultUnique DEF Loops
  <2> QED
    BY <2>3, <2>6 DEF r
<1> QED
  BY <1>2, <1>5 DEF Kept

\* Typing, Tab, Enter and a reload keep what is written readable.
LEMMA ReloadStep == ReloadInv /\ [Next]_vars => ReloadInv'
<1> SUFFICES ASSUME ReloadInv, [Next]_vars PROVE ReloadInv'
  OBVIOUS
<1>1. TableInv /\ TableInv' /\ MatchInv
  BY TableStep DEF ReloadInv, TableInv
<1>2. ASSUME NEW w \in Typed, line' = Append(line, w), loose' = Step(loose, w, FALSE), UNCHANGED top
      PROVE  ReloadInv'
  <2>1. line \in Seq(Typed) /\ LoopInv(line, loose, FALSE) /\ PairInv(loose) /\ ReadInv(line, loose)
    BY DEF ReloadInv, TableInv, MatchInv
  <2>2. ReadInv(Append(line, w), Step(loose, w, FALSE))
    BY <2>1, ReadStep
  <2> QED
    BY <1>1, <1>2, <2>2 DEF ReloadInv
<1>3. ASSUME NEW w \in NextWords, Type(w) PROVE ReloadInv'
  <2>1. w \in Typed
    BY NamesAssumption DEF NextWords, Typed
  <2> QED
    BY <1>2, <1>3, <2>1 DEF Type
<1>4. ASSUME NEW w \in NextWords \cup {Nothing}, Tab(w) PROVE ReloadInv'
  <2>1. PICK d \in CompleteCommand(loose, w).words :
          /\ CompleteCommand(loose, w).status = "CMD_COMPLETE_FULL_MATCH"
          /\ line' = Append(line, d) /\ loose' = Step(loose, d, FALSE) /\ UNCHANGED top
    BY <1>4 DEF Tab
  <2>2. d \in Typed
    BY <1>1, <2>1, CompletedIsTyped
  <2> QED
    BY <1>2, <2>1, <2>2
<1>5. CASE Enter
  <2> DEFINE c == Result(loose)
             new == [text |-> Text(c, line), cmd |-> c, full |-> TypedInFull(c, line)]
  <2>1. /\ line' = <<>> /\ loose' = Start
        /\ top' = IF c \in Writers /\ Accepts(c, line) THEN top \cup {new} ELSE top
    BY <1>5, Zenon DEF Enter
  <2>2. c \in Writers => Kept(new)
    BY EnteredIsKept
  <2>3. \A e \in top : Kept(e)
    BY DEF ReloadInv
  <2> HIDE DEF c, new
  <2>4. \A e \in top' : Kept(e)
    BY <2>1, <2>2, <2>3
  <2> QED
    BY <1>1, <2>1, <2>4, ReadStart DEF ReloadInv
<1>6. CASE Reload
  <2>1. ASSUME NEW e \in top' PROVE Kept(e)
    <3>1. PICK b \in top : ExecuteStrict(b.text) \notin Failed /\ e = [b EXCEPT !.cmd = ExecuteStrict(b.text)]
      BY <1>6 DEF Reload
    <3>2. PICK text, cmd, full : b = [text |-> text, cmd |-> cmd, full |-> full]
      BY DEF ReloadInv, Kept
    <3>3. e = [text |-> text, cmd |-> ExecuteStrict(text), full |-> full] /\ ExecuteStrict(text) \notin Failed
      BY <3>1, <3>2
    <3> QED
      BY <3>3 DEF Kept
  <2> QED
    BY <1>1, <1>6, <2>1 DEF ReloadInv, Reload
<1>7. CASE UNCHANGED vars
  BY <1>1, <1>7 DEF ReloadInv, vars
<1> QED
  BY <1>3, <1>4, <1>5, <1>6, <1>7 DEF Next

\* A line that was entered with its choices and addresses in full, though with its other
\* keywords abbreviated, is found again, as the same command, when the file is loaded, for
\* any commands that keep to TableAssumption (vtysh_config_from_file and
\* cmd_execute_command_strict against what the commands write).
THEOREM FullLinesReload == Spec => FullIsReloaded
<1>1. ReloadInv /\ [Next]_vars => [Reload => \A e \in top : e.full => e \in top']_vars
  <2> SUFFICES ASSUME ReloadInv, Reload, NEW e \in top, e.full PROVE e \in top'
    OBVIOUS
  <2>1. Kept(e) /\ ExecuteStrict(e.text) = e.cmd /\ ExecuteStrict(e.text) \notin Failed
    BY DEF ReloadInv, Kept
  <2>2. [e EXCEPT !.cmd = e.cmd] = e
    <3>1. PICK text, cmd, full : e = [text |-> text, cmd |-> cmd, full |-> full]
      BY <2>1 DEF Kept
    <3> QED
      BY <3>1
  <2>3. [e EXCEPT !.cmd = ExecuteStrict(e.text)] \in top'
    BY <2>1 DEF Reload
  <2> QED
    BY <2>1, <2>2, <2>3
<1> QED
  BY <1>1, ReloadInit, ReloadStep, PTL DEF Spec, FullIsReloaded
=============================================================================
