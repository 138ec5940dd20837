--------------------------- MODULE Search_proofs ---------------------------
(***************************************************************************)
(* What the search remembers is true of the text displayed, for texts,     *)
(* patterns and alphabets of any size.  blib_strstr enters the proofs only *)
(* by the range of its answer.                                             *)
(*                                                                         *)
(* CacheIsMatches is not inductive: a run changes the text under the cache *)
(* and typing during a run changes the box under it.  Quiet says why that  *)
(* does no harm, Selected and Ended what Up and Down rely on.              *)
(***************************************************************************)
EXTENDS Search, WellFoundedInduction, TLAPS

\* The text can only change while there is no search.
Quiet == run => start_ptr = NULL

\* The match selected is the one cur_idx says.
Selected ==
    start_ptr # NULL =>
        /\ pos_cache # <<>>
        /\ fault = "none" =>
            cur_idx < Len(pos_cache) /\ sel = pos_cache[cur_idx + 1]

\* A number of matches that belongs to this search is right.
Ended ==
    start_ptr # NULL /\ ~staleEnd /\ end_len # 0 =>
        /\ end_len = Len(pos_cache)
        /\ Counted => Find(text[View], box, start_ptr) = NULL

IInv == TypeOK /\ Quiet /\ CacheIsMatches /\ Selected /\ Ended /\ FaultHasCause

-----------------------------------------------------------------------------

\* Every set of numbers that is not empty has a least one.
LEMMA LeastNumber ==
    ASSUME NEW T, T \subseteq Nat, T # {}
    PROVE  \E x \in T : \A y \in T : x <= y
<1> DEFINE less == {pair \in Nat \X Nat : pair[1] < pair[2]}
<1>1. IsWellFoundedOn(less, Nat)
  BY NatLessThanWellFounded, Zenon DEF OpToRel
<1>2. PICK x \in T : \A y \in T : <<y, x>> \notin less
  BY <1>1, WFMin, Zenon
<1>3. \A y \in T : ~(y < x)
  BY <1>2
<1> QED
  BY <1>3

\* A match is a place in the text with room for the pattern.
LEMMA FindRange ==
    ASSUME NEW t \in Seq(Chars), NEW p \in Seq(Letters), NEW from \in Nat
    PROVE  \/ Find(t, p, from) = NULL
           \/ Find(t, p, from) \in Nat /\ Find(t, p, from) <= Len(t) - Len(p)
<1> DEFINE places == Places(t, p, from)
<1>1. places \subseteq Nat /\ \A i \in places : i <= Len(t) - Len(p)
  BY DEF Places
<1>2. CASE places = {}
  BY <1>2 DEF Find
<1>3. CASE places # {}
  <2>1. Find(t, p, from) = CHOOSE i \in places : \A j \in places : i <= j
    BY <1>3, Zenon DEF Find
  <2> HIDE DEF places
  <2>2. \E i \in places : \A j \in places : i <= j
    BY <1>1, <1>3, LeastNumber
  <2>3. (CHOOSE i \in places : \A j \in places : i <= j) \in places
    BY <2>2, Zenon
  <2> QED
    BY <1>1, <2>1, <2>3
<1> QED
  BY <1>2, <1>3

LEMMA PatternType == Patterns \subseteq Seq(Letters)
  BY DEF Patterns, Strings

LEMMA StringType == Strings(MaxText) \subseteq Seq(Chars)
<1>1. Strings(MaxText) \subseteq Seq(Letters)
  BY DEF Strings
<1>2. Letters \subseteq Chars
  BY DEF Chars
<1> QED
  BY <1>1, <1>2

\* The types that the handlers of the search depend on.
LEMMA Types ==
    ASSUME TypeOK
    PROVE  /\ text[View] \in Seq(Chars) /\ box \in Seq(Letters)
           /\ pat_len \in Nat /\ cur_idx \in Nat /\ end_len \in Nat
           /\ pos_cache \in Seq(Nat)
           /\ start_ptr # NULL => start_ptr \in Nat
<1>1. View \in Views
  BY DEF View, Views
<1>2. box \in Seq(Letters)
  BY PatternType DEF TypeOK
<1>3. pat_len \in Nat
  BY SearchAssumption DEF TypeOK
<1> QED
  BY <1>1, <1>2, <1>3 DEF TypeOK, ViewsTypeOK

-----------------------------------------------------------------------------

LEMMA InitIInv == Init => IInv
<1> SUFFICES ASSUME Init PROVE IInv
  OBVIOUS
<1>1. <<>> \in Patterns
  BY SearchAssumption DEF Patterns, Strings
<1>2. text \in [Views -> Seq(Chars)]
  BY DEF Init
<1>3. pat_len \in 0..Word - 1
  BY SearchAssumption DEF Init
<1>4. /\ start_ptr \in Nat \union {NULL} /\ sel \in Nat \union {NULL}
      /\ pos_cache \in Seq(Nat) /\ box \in Patterns
      /\ cur_idx \in Nat /\ end_len \in Nat
  BY <1>1 DEF Init
<1>5. run \in BOOLEAN /\ err_search \in BOOLEAN /\ staleEnd \in BOOLEAN
  BY DEF Init
<1>6. TypeOK
  BY <1>2, <1>3, <1>4, <1>5 DEF Init, TypeOK, ViewsTypeOK
<1> QED
  BY <1>6 DEF Init, IInv, Quiet, CacheIsMatches, Selected, Ended, FaultHasCause

\* A search from the start, whatever was there before.
LEMMA LookStep ==
    ASSUME IInv, NEW p \in Patterns, NEW len \in Int, Look(p, len),
           ~run, fault = "none", box' = p, UNCHANGED <<run, text, fault, err_search>>
    PROVE  IInv'
<1> DEFINE n     == (pat_len + len) % Word
           first == Find(text[View], p, 0)
<1>1. TypeOK /\ text[View] \in Seq(Chars) /\ p \in Seq(Letters) /\ pat_len \in Nat
      /\ end_len \in Nat
  BY Types, PatternType DEF IInv
<1>2. n \in 0..Word - 1
  BY <1>1, SearchAssumption
<1>3. first = NULL \/ (first \in Nat /\ first <= Len(text[View]) - Len(p))
  BY <1>1, FindRange
<1>4. View' = View
  BY DEF View
<1>5. CASE n = 0 \/ first = NULL
  <2>1. /\ pat_len' = n /\ start_ptr' = NULL /\ pos_cache' = <<>> /\ sel' = NULL
        /\ UNCHANGED <<cur_idx, staleEnd, end_len>>
    BY <1>5, Zenon DEF Look
  <2> HIDE DEF n, first
  <2>2. TypeOK'
    BY <1>1, <1>2, <2>1 DEF TypeOK, ViewsTypeOK
  <2> QED
    BY <2>1, <2>2 DEF IInv, Quiet, CacheIsMatches, Selected, Ended, FaultHasCause
<1>6. CASE ~(n = 0 \/ first = NULL)
  <2>1. /\ pat_len' = n /\ start_ptr' = first + n /\ pos_cache' = <<first>>
        /\ cur_idx' = 0 /\ sel' = first /\ staleEnd' = (end_len # 0)
        /\ UNCHANGED end_len
    BY <1>6, Zenon DEF Look
  <2>2. Counted' => n = Len(p)
    BY <2>1 DEF Counted
  <2>3. first \in Nat /\ first = Find(text[View], p, 0)
    BY <1>3, <1>6
  <2> HIDE DEF n, first
  <2>4. TypeOK'
    BY <1>1, <1>2, <2>1, <2>3 DEF TypeOK, ViewsTypeOK
  <2>5. Len(pos_cache') = 1 /\ pos_cache'[1] = first /\ pos_cache' # <<>>
    BY <2>1
  <2>6. CacheIsMatches'
    <3>1. text'[View'] = text[View] /\ box' = p
      BY <1>4
    <3>2. Counted' => start_ptr' = first + Len(p)
      BY <2>1, <2>2
    <3> QED
      BY <2>3, <2>5, <3>1, <3>2 DEF CacheIsMatches
  <2>7. Selected'
    BY <2>1, <2>5 DEF Selected
  <2>8. Ended'
    BY <2>1, Zenon DEF Ended
  <2> QED
    BY <2>4, <2>6, <2>7, <2>8 DEF IInv, Quiet, FaultHasCause
<1> QED
  BY <1>5, <1>6

\* Where Up and Down go: inside the cache, or one past it.
LEMMA MovedRange ==
    ASSUME IInv, NEW dir, start_ptr # NULL, fault = "none"
    PROVE  Moved(dir) \in Nat /\ (~staleEnd => Moved(dir) <= Len(pos_cache))
                              /\ (~staleEnd /\ end_len # 0 => Moved(dir) < Len(pos_cache))
<1>1. cur_idx \in Nat /\ end_len \in Nat /\ pos_cache \in Seq(Nat)
  BY Types DEF IInv
<1>2. cur_idx < Len(pos_cache)
  BY DEF IInv, Selected
<1>3. ~staleEnd /\ end_len # 0 => end_len = Len(pos_cache)
  BY DEF IInv, Ended
<1> QED
  BY <1>1, <1>2, <1>3 DEF Moved

\* The match that is found next lies behind the last one, and a pointer that
\* is right does not leave the text.
LEMMA PointerInText ==
    ASSUME IInv, start_ptr # NULL, Counted
    PROVE  start_ptr <= Len(text[View])
<1>1. text[View] \in Seq(Chars) /\ box \in Seq(Letters) /\ pos_cache \in Seq(Nat)
  BY Types DEF IInv
<1> DEFINE k == Len(pos_cache)
           from == IF k = 1 THEN 0 ELSE pos_cache[k - 1] + Len(box)
<1>2. pos_cache # <<>> /\ k \in 1..Len(pos_cache) /\ k \in Nat
  BY <1>1 DEF IInv, CacheIsMatches
<1>3. pos_cache[k] = Find(text[View], box, from) /\ start_ptr = pos_cache[k] + Len(box)
  BY <1>2 DEF IInv, CacheIsMatches
<1>4. pos_cache[k] \in Nat /\ from \in Nat
  <2>1. Len(box) \in Nat /\ \A j \in 1..k : pos_cache[j] \in Nat
    BY <1>1
  <2> HIDE DEF k
  <2>2. CASE k = 1
    BY <1>2, <2>1, <2>2
  <2>3. CASE k # 1
    <3>1. k - 1 \in 1..k /\ k \in 1..k
      BY <1>2, <2>3
    <3>2. pos_cache[k - 1] \in Nat /\ pos_cache[k] \in Nat
      BY <2>1, <3>1, Zenon
    <3> QED
      BY <2>1, <2>3, <3>2
  <2> QED
    BY <2>2, <2>3
<1> HIDE DEF from, k
<1>5. \/ Find(text[View], box, from) = NULL
      \/ Find(text[View], box, from) <= Len(text[View]) - Len(box)
  BY <1>1, <1>4, FindRange, Zenon
<1>6. Len(text[View]) \in Nat /\ Len(box) \in Nat
  BY <1>1
<1>7. pos_cache[k] # NULL
  BY <1>4 DEF NULL
<1> QED
  BY <1>3, <1>4, <1>5, <1>6, <1>7

\* Up and Down, on a match that is in the cache.
LEMMA CachedStep ==
    ASSUME IInv, NEW i \in Nat, Cached(i), start_ptr # NULL, fault = "none",
           UNCHANGED <<run, text, err_search, box, pat_len>>
    PROVE  IInv'
<1>1. pos_cache \in Seq(Nat) /\ cur_idx' = i /\ sel' = pos_cache[i + 1]
      /\ i < Len(pos_cache)
      /\ UNCHANGED <<start_ptr, pos_cache, end_len, staleEnd, fault>>
  BY Types DEF Cached, IInv
<1>2. sel' \in Nat
  BY <1>1
<1>3. TypeOK'
  BY <1>1, <1>2 DEF IInv, TypeOK, ViewsTypeOK
<1>4. View' = View /\ (Counted' <=> Counted)
  BY DEF View, Counted
<1>5. Selected'
  BY <1>1 DEF IInv, Selected
<1>6. CacheIsMatches' /\ Ended'
  BY <1>1, <1>4 DEF IInv, CacheIsMatches, Ended
<1>7. FaultHasCause' /\ Quiet'
  BY <1>1 DEF IInv, FaultHasCause, Quiet
<1> QED
  BY <1>3, <1>5, <1>6, <1>7 DEF IInv

\* Up and Down, when the search goes on.
LEMMA SearchedStep ==
    ASSUME IInv, NEW i \in Nat, Searched(i), start_ptr # NULL, fault = "none",
           ~staleEnd => i <= Len(pos_cache),
           ~staleEnd /\ end_len # 0 => i < Len(pos_cache),
           UNCHANGED <<run, text, err_search, box, pat_len>>
    PROVE  IInv'
<1> DEFINE next == Find(text[View], box, start_ptr)
           k    == Len(pos_cache)
<1>1. /\ TypeOK /\ pos_cache \in Seq(Nat) /\ pos_cache # <<>>
      /\ start_ptr \in Nat /\ pat_len \in Nat
      /\ text[View] \in Seq(Chars) /\ box \in Seq(Letters)
  BY Types DEF IInv, Selected
<1>2. k \in Nat /\ k > 0 /\ i >= k
  BY <1>1 DEF Searched
<1>3. next = NULL \/ next \in Nat
  BY <1>1, FindRange, Zenon
<1>4. View' = View /\ (Counted' <=> Counted) /\ next' = Find(text[View], box, start_ptr')
  BY DEF View, Counted
<1>5. Quiet'
  BY DEF IInv, Quiet
<1>6. CASE next = NULL
  <2>1. /\ end_len' = i /\ cur_idx' = 0 /\ sel' = pos_cache[1]
        /\ staleEnd' = (i # k) /\ UNCHANGED <<start_ptr, pos_cache, fault>>
    BY <1>6, Zenon DEF Searched
  <2>2. sel' \in Nat
    BY <1>1, <1>2, <2>1
  <2>3. TypeOK'
    BY <1>1, <2>1, <2>2 DEF TypeOK, ViewsTypeOK
  <2>4. CacheIsMatches'
    BY <1>4, <2>1 DEF IInv, CacheIsMatches
  <2>5. Selected'
    BY <1>1, <1>2, <2>1 DEF Selected
  <2>6. Ended'
    <3>1. ~staleEnd' => end_len' = Len(pos_cache')
      BY <2>1, Zenon
    <3>2. Find(text'[View'], box', start_ptr') = NULL
      BY <1>4, <1>6, <2>1
    <3> QED
      BY <3>1, <3>2, Zenon DEF Ended
  <2>7. FaultHasCause'
    BY <2>1 DEF FaultHasCause
  <2> QED
    BY <1>5, <2>3, <2>4, <2>5, <2>6, <2>7 DEF IInv
<1>7. CASE next # NULL /\ i > k
  <2>1. /\ fault' = "index" /\ cur_idx' = i
        /\ UNCHANGED <<start_ptr, pos_cache, end_len, sel, staleEnd>>
    BY <1>7, Zenon DEF Searched
  <2>2. staleEnd' /\ staleEnd
    BY <1>2, <1>7, <2>1 DEF IInv, TypeOK
  <2>3. TypeOK'
    BY <1>1, <2>1 DEF TypeOK, ViewsTypeOK
  <2>4. CacheIsMatches'
    BY <1>4, <2>1 DEF IInv, CacheIsMatches
  <2>5. Selected'
    BY <1>1, <2>1 DEF Selected
  <2>6. Ended' /\ FaultHasCause'
    BY <2>1, <2>2 DEF Ended, FaultHasCause
  <2> QED
    BY <1>5, <2>3, <2>4, <2>5, <2>6 DEF IInv
<1>8. CASE next # NULL /\ ~(i > k)
  <2>1. /\ pos_cache' = Append(pos_cache, next)
        /\ cur_idx' = i /\ sel' = next /\ start_ptr' = next + pat_len
        /\ UNCHANGED <<end_len, staleEnd, fault>>
    BY <1>8, Zenon DEF Searched
  <2>2. i = k /\ next \in Nat
    BY <1>2, <1>3, <1>8
  <2> HIDE DEF next
  <2>3. /\ Len(pos_cache') = k + 1 /\ pos_cache'[k + 1] = next
        /\ \A j \in 1..k : pos_cache'[j] = pos_cache[j]
        /\ pos_cache' \in Seq(Nat) /\ pos_cache' # <<>>
    <3>1. \A n \in Nat : Append(pos_cache, n) \in Seq(Nat)
      BY <1>1
    <3>2. pos_cache' \in Seq(Nat) /\ Len(pos_cache') = Len(pos_cache) + 1
      BY <1>1, <2>1, <2>2, <3>1
    <3>3. /\ pos_cache'[Len(pos_cache) + 1] = next
          /\ \A j \in 1..Len(pos_cache) : pos_cache'[j] = pos_cache[j]
      BY <1>1, <2>1, <2>2
    <3>4. pos_cache' # <<>>
      BY <1>2, <3>2
    <3> QED
      BY <3>2, <3>3, <3>4
  <2>4. TypeOK'
    BY <1>1, <2>1, <2>2, <2>3 DEF TypeOK, ViewsTypeOK
  <2>5. Selected'
    BY <2>1, <2>2, <2>3, <1>2 DEF Selected
  <2>6. Ended'
    <3>1. staleEnd \/ end_len = 0
      BY <2>2, <1>2
    <3> QED
      BY <2>1, <3>1 DEF Ended
  <2>7. FaultHasCause'
    BY <2>1 DEF FaultHasCause
  <2>8. CacheIsMatches'
    <3> SUFFICES ASSUME Counted PROVE
            /\ \A j \in 1..Len(pos_cache') :
                  pos_cache'[j] = Find(text[View], box,
                                       IF j = 1 THEN 0 ELSE pos_cache'[j - 1] + Len(box))
            /\ start_ptr' = pos_cache'[Len(pos_cache')] + Len(box)
      BY <1>4, <2>3 DEF CacheIsMatches
    <3>1. /\ \A j \in 1..k :
                pos_cache[j] = Find(text[View], box,
                                    IF j = 1 THEN 0 ELSE pos_cache[j - 1] + Len(box))
          /\ start_ptr = pos_cache[k] + Len(box)
      BY DEF IInv, CacheIsMatches
    <3>2. start_ptr' = next + Len(box)
      BY <2>1 DEF Counted
    <3>3. ASSUME NEW j \in 1..k
          PROVE  pos_cache'[j] = Find(text[View], box,
                                      IF j = 1 THEN 0 ELSE pos_cache'[j - 1] + Len(box))
      <4>1. CASE j = 1
        BY <2>3, <3>1, <4>1
      <4>2. CASE j # 1
        <5>1. j - 1 \in 1..k
          BY <1>2, <4>2
        <5>2. pos_cache'[j - 1] = pos_cache[j - 1] /\ pos_cache'[j] = pos_cache[j]
          BY <2>3, <5>1, Zenon
        <5>3. pos_cache[j] = Find(text[View], box, pos_cache[j - 1] + Len(box))
          BY <3>1, <4>2, Zenon
        <5> QED
          BY <4>2, <5>2, <5>3, Zenon
      <4> QED
        BY <4>1, <4>2
    <3>4. pos_cache'[k + 1] = Find(text[View], box, pos_cache'[k] + Len(box))
      <4>1. pos_cache'[k] = pos_cache[k]
        BY <1>2, <2>3
      <4> QED
        BY <2>3, <3>1, <4>1, Zenon DEF next
    <3>5. \A j \in 1..k + 1 : j \in 1..k \/ (j = k + 1 /\ j # 1 /\ j - 1 = k)
      BY <1>2
    <3> HIDE DEF k
    <3>6. \A j \in 1..k + 1 :
             pos_cache'[j] = Find(text[View], box,
                                  IF j = 1 THEN 0 ELSE pos_cache'[j - 1] + Len(box))
      BY <3>3, <3>4, <3>5, Zenon
    <3> QED
      BY <2>3, <3>2, <3>6
  <2> QED
    BY <1>5, <2>4, <2>5, <2>6, <2>7, <2>8 DEF IInv
<1> QED
  BY <1>6, <1>7, <1>8

\* Up and Down, from a pointer outside the text: pat_len was wrong.
LEMMA WildStep ==
    ASSUME IInv, NEW i \in Nat, Wild(i), start_ptr # NULL, fault = "none",
           UNCHANGED <<run, text, err_search, box, pat_len>>
    PROVE  IInv'
<1>1. /\ start_ptr > Len(text[View]) /\ fault' = "pointer" /\ cur_idx' = i
      /\ UNCHANGED <<start_ptr, pos_cache, end_len, sel, staleEnd>>
  BY DEF Wild
<1>2. TypeOK /\ start_ptr \in Nat /\ Len(text[View]) \in Nat
  BY Types DEF IInv
<1>3. ~Counted
  BY <1>1, <1>2, PointerInText
<1>4. View' = View /\ ~Counted'
  BY <1>3 DEF View, Counted
<1>5. TypeOK'
  BY <1>1, <1>2 DEF TypeOK, ViewsTypeOK
<1>6. Selected'
  BY <1>1 DEF IInv, Selected
<1>7. CacheIsMatches' /\ Quiet' /\ FaultHasCause'
  BY <1>1, <1>4 DEF IInv, CacheIsMatches, Quiet, FaultHasCause
<1>8. Ended'
  BY <1>1, <1>4 DEF IInv, Ended
<1> QED
  BY <1>5, <1>6, <1>7, <1>8 DEF IInv

\* What a step does that ends the search, or comes when there is none.
LEMMA NoSearch ==
    ASSUME TypeOK', FaultHasCause, fault = "none", UNCHANGED fault, start_ptr' = NULL
    PROVE  IInv'
  BY DEF IInv, Quiet, CacheIsMatches, Selected, Ended, FaultHasCause

LEMMA NextIInv == IInv /\ [Next]_vars => IInv'
<1> SUFFICES ASSUME IInv, [Next]_vars PROVE IInv'
  OBVIOUS
<1>1. TypeOK /\ FaultHasCause
  BY DEF IInv
<1>2. CASE UNCHANGED vars
  <2>1. View' = View
    BY <1>2 DEF vars, searchVars, View
  <2>2. TypeOK' /\ Quiet' /\ Selected' /\ FaultHasCause'
    BY <1>2 DEF IInv, vars, searchVars, TypeOK, ViewsTypeOK, Quiet, Selected,
                FaultHasCause, Counted
  <2>3. CacheIsMatches' /\ Ended'
    BY <1>2, <2>1 DEF IInv, vars, searchVars, CacheIsMatches, Ended, Counted
  <2> QED
    BY <2>2, <2>3 DEF IInv
<1>3. ASSUME fault = "none", NEW p \in Patterns, OnSearchFilter(p) PROVE IInv'
  <2>1. box' = p /\ UNCHANGED <<run, text, fault, err_search>>
    BY <1>3 DEF OnSearchFilter
  <2>2. CASE run
    <3>1. /\ UNCHANGED <<pat_len, start_ptr, pos_cache, cur_idx, end_len, sel, staleEnd>>
          /\ start_ptr = NULL
      BY <1>3, <2>2 DEF OnSearchFilter, IInv, Quiet
    <3>2. TypeOK'
      BY <1>1, <2>1, <3>1 DEF TypeOK, ViewsTypeOK
    <3> QED
      BY <1>1, <1>3, <2>1, <3>1, <3>2, NoSearch
  <2>3. CASE ~run
    <3>1. Look(p, Len(p) - Len(box))
      BY <1>3, <2>3 DEF OnSearchFilter
    <3>2. p \in Seq(Letters) /\ box \in Seq(Letters)
      BY <1>1, PatternType, Types
    <3>3. Len(p) - Len(box) \in Int
      BY <3>2
    <3> QED
      BY <1>3, <2>1, <2>3, <3>1, <3>3, LookStep
  <2> QED
    BY <2>2, <2>3
<1>4. ASSUME fault = "none", OnSearchFocus PROVE IInv'
  <2>1. Look(box, 0) /\ ~run /\ UNCHANGED <<run, text, fault, err_search, box>>
    BY <1>4 DEF OnSearchFocus
  <2>2. box \in Patterns /\ 0 \in Int
    BY <1>1 DEF TypeOK
  <2> QED
    BY <1>4, <2>1, <2>2, LookStep
<1>5. ASSUME fault = "none", ResetSearch PROVE IInv'
  <2>1. start_ptr' = NULL /\ UNCHANGED fault
    BY <1>5 DEF ResetSearch
  <2>2. TypeOK'
    BY <1>1, <1>5 DEF ResetSearch, TypeOK, ViewsTypeOK
  <2> QED
    BY <1>1, <1>5, <2>1, <2>2, NoSearch
<1>6. ASSUME fault = "none", NEW dir, OnSearchUpDown(dir) PROVE IInv'
  <2>1. start_ptr # NULL /\ UNCHANGED <<run, text, err_search, box, pat_len>>
    BY <1>6 DEF OnSearchUpDown
  <2>2. /\ Moved(dir) \in Nat
        /\ ~staleEnd => Moved(dir) <= Len(pos_cache)
        /\ ~staleEnd /\ end_len # 0 => Moved(dir) < Len(pos_cache)
    BY <1>6, <2>1, MovedRange
  <2>3. Cached(Moved(dir)) \/ Searched(Moved(dir)) \/ Wild(Moved(dir))
    BY <1>6 DEF OnSearchUpDown
  <2> QED
    BY <1>6, <2>1, <2>2, <2>3, CachedStep, SearchedStep, WildStep, Zenon
<1>7. ASSUME fault = "none", NEW command \in BOOLEAN, OnRun(command) PROVE IInv'
  <2>1. start_ptr' = NULL /\ UNCHANGED fault
    BY <1>7 DEF OnRun
  <2>2. <<>> \in Patterns /\ 0 \in 0..Word - 1 /\ [v \in Views |-> <<>>] \in [Views -> Seq(Chars)]
    BY SearchAssumption DEF Patterns, Strings
  <2>3. TypeOK'
    BY <1>1, <1>7, <2>2 DEF OnRun, TypeOK, ViewsTypeOK
  <2> QED
    BY <1>1, <1>7, <2>1, <2>3, NoSearch
<1>8. ASSUME fault = "none", NEW view \in Views, NEW t \in Strings(MaxText),
             RunUpdate(view, t)
      PROVE  IInv'
  <2>1. start_ptr' = NULL /\ UNCHANGED fault
    BY <1>8 DEF RunUpdate, searchVars, IInv, Quiet
  <2>2. text' \in [Views -> Seq(Chars)]
    BY <1>1, <1>8, StringType DEF RunUpdate, TypeOK, ViewsTypeOK
  <2>3. TypeOK'
    BY <1>1, <1>8, <2>2 DEF RunUpdate, searchVars, TypeOK, ViewsTypeOK
  <2> QED
    BY <1>1, <1>8, <2>1, <2>3, NoSearch
<1>9. ASSUME fault = "none", RunEnd PROVE IInv'
  <2>1. start_ptr' = NULL /\ UNCHANGED fault
    BY <1>9 DEF RunEnd, searchVars, IInv, Quiet
  <2>2. TypeOK'
    BY <1>1, <1>9 DEF RunEnd, searchVars, TypeOK, ViewsTypeOK
  <2> QED
    BY <1>1, <1>9, <2>1, <2>2, NoSearch
<1> QED
  BY <1>2, <1>3, <1>4, <1>5, <1>6, <1>7, <1>8, <1>9 DEF Next

-----------------------------------------------------------------------------

\* Type correctness.
THEOREM TypeCorrect == Spec => []TypeOK
<1>1. IInv => TypeOK
  BY DEF IInv
<1> QED
  BY <1>1, InitIInv, NextIInv, PTL DEF Spec

\* pos_cache and start_ptr are of the text displayed, whatever ran, was typed
\* or was clicked in between.
THEOREM CacheIsMatchesTheorem == Spec => []CacheIsMatches
<1>1. IInv => CacheIsMatches
  BY DEF IInv
<1> QED
  BY <1>1, InitIInv, NextIInv, PTL DEF Spec

\* Once known, and of this search, the number of matches is right.
THEOREM EndIsKnownTheorem == Spec => []EndIsKnown
<1>1. IInv => EndIsKnown
  BY DEF IInv, EndIsKnown, Selected, Ended
<1> QED
  BY <1>1, InitIInv, NextIInv, PTL DEF Spec

\* Up and Down leave the cache or the text for one of two causes only.
THEOREM FaultHasCauseTheorem == Spec => []FaultHasCause
<1>1. IInv => FaultHasCause
  BY DEF IInv
<1> QED
  BY <1>1, InitIInv, NextIInv, PTL DEF Spec

\* Down selects the match after the selected one, or the first after the last.
THEOREM DownIsNextTheorem == Spec => DownIsNext
<1> DEFINE After == Find(text[View], box, sel + Len(box))
           First == Find(text[View], box, 0)
           IsNext ==
               OnSearchUpDown("down") /\ Counted /\ ~staleEnd =>
                   LET next == Find(text[View], box, sel + Len(box))
                   IN  sel' = IF next # NULL THEN next ELSE Find(text[View], box, 0)
<1>1. IInv /\ [Next]_vars => [IsNext]_vars
  <2> SUFFICES ASSUME IInv, Next, vars' # vars, OnSearchUpDown("down"), Counted, ~staleEnd
               PROVE  sel' = IF After # NULL THEN After ELSE First
    BY Zenon
  <2>1. fault = "none"
    BY DEF Next
  <2> DEFINE i == Moved("down")
             k == Len(pos_cache)
  <2>2. /\ pos_cache \in Seq(Nat) /\ pos_cache # <<>> /\ k \in Nat /\ k > 0
        /\ cur_idx \in Nat /\ cur_idx < k /\ sel = pos_cache[cur_idx + 1]
        /\ start_ptr # NULL
        /\ text[View] \in Seq(Chars) /\ box \in Seq(Letters) /\ start_ptr \in Nat
        /\ end_len \in Nat
    BY <2>1, Types DEF IInv, Selected, OnSearchUpDown
  <2>3. /\ \A j \in 1..k :
              pos_cache[j] = Find(text[View], box,
                                  IF j = 1 THEN 0 ELSE pos_cache[j - 1] + Len(box))
        /\ start_ptr = pos_cache[k] + Len(box)
    BY <2>2 DEF IInv, CacheIsMatches
  <2>4. end_len # 0 => end_len = k /\ Find(text[View], box, start_ptr) = NULL
    BY <2>2 DEF IInv, Ended
  <2>m. \A j \in 1..k : pos_cache[j] \in Nat
    <3>1. pos_cache \in Seq(Nat)
      BY <2>2
    <3> QED
      BY <3>1
  <2>5. pos_cache[1] = First
    BY <2>2, <2>3
  <2>6. cur_idx + 1 = k => After = Find(text[View], box, start_ptr)
    BY <2>2, <2>3
  <2>7. i = IF cur_idx + 1 = end_len THEN 0 ELSE cur_idx + 1
    BY DEF Moved
  <2> HIDE DEF i, k, After, First
  <2>8. CASE Cached(i)
    <3>1. i < k /\ sel' = pos_cache[i + 1]
      BY <2>8 DEF Cached, k
    <3>2. CASE cur_idx + 1 = end_len
      <4>1. i = 0 /\ cur_idx + 1 = k /\ After = NULL
        BY <2>2, <2>4, <2>6, <2>7, <3>2
      <4> QED
        BY <2>5, <3>1, <4>1
    <3>3. CASE cur_idx + 1 # end_len
      <4>1. i = cur_idx + 1 /\ i + 1 \in 1..k /\ i + 1 # 1 /\ i + 1 - 1 = i
        BY <2>2, <2>7, <3>1, <3>3
      <4> DEFINE j == i + 1
      <4>j. j \in 1..k /\ j # 1 /\ j - 1 = i
        BY <4>1
      <4> HIDE DEF j
      <4>a. pos_cache[j] = Find(text[View], box, pos_cache[j - 1] + Len(box))
        BY <2>3, <4>j, Zenon
      <4>2. pos_cache[i + 1] = Find(text[View], box, pos_cache[i] + Len(box))
        BY <4>a, <4>j, Zenon DEF j
      <4>3. sel' = After
        BY <2>2, <3>1, <4>1, <4>2, Zenon DEF After
      <4>4. pos_cache[i + 1] \in Nat
        BY <2>m, <4>1, Zenon
      <4>5. sel' # NULL
        BY <3>1, <4>4 DEF NULL
      <4> QED
        BY <4>3, <4>5
    <3> QED
      BY <3>2, <3>3
  <2>9. CASE Searched(i)
    <3>1. i >= k
      BY <2>9 DEF Searched, k
    <3>2. i = k /\ cur_idx + 1 = k
      BY <2>2, <2>4, <2>7, <3>1
    <3>3. After = Find(text[View], box, start_ptr)
      BY <2>6, <3>2
    <3>4. CASE After = NULL
      <4>1. sel' = pos_cache[1]
        BY <2>9, <3>3, <3>4, Zenon DEF Searched
      <4> QED
        BY <2>5, <3>4, <4>1
    <3>5. CASE After # NULL
      <4>1. ~(i > Len(pos_cache))
        BY <2>2, <3>2 DEF k
      <4>2. sel' = After
        BY <2>9, <3>3, <3>5, <4>1, Zenon DEF Searched
      <4> QED
        BY <3>5, <4>2
    <3> QED
      BY <3>4, <3>5
  <2>10. CASE Wild(i)
    <3>1. start_ptr > Len(text[View]) /\ Len(text[View]) \in Nat
      BY <2>2, <2>10 DEF Wild
    <3> QED
      BY <2>2, <3>1, PointerInText
  <2> QED
    BY <2>8, <2>9, <2>10 DEF OnSearchUpDown, i
<1> HIDE DEF IsNext
<1>2. Spec => [][IsNext]_vars
  BY <1>1, InitIInv, NextIInv, PTL DEF Spec
<1> QED
  BY <1>2 DEF DownIsNext, IsNext
=============================================================================
