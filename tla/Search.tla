-------------------------------- MODULE Search --------------------------------
(***************************************************************************)
(* The search box and its up and down buttons (i_OnSearchFilter,           *)
(* i_OnSearchFocus, i_OnSearchUpDown and i_ResetSearch of kutes.c).        *)
(*                                                                         *)
(* The first match is found while the user types, the others one by one by *)
(* the down button, which remembers them in pos_cache.  Five fields        *)
(* describe one search and none of the handlers sets all of them.          *)
(* Pointers are offsets into the text that textview_get_text returned,     *)
(* which is the text of the view as long as start_ptr is not NULL.         *)
(***************************************************************************)
EXTENDS TextViews

CONSTANTS
    MaxText,    \* bound: characters of a text
    MaxPattern, \* bound: characters in the search box
    Word        \* 2^32, the range of pat_len

ASSUME SearchAssumption ==
    /\ MaxText \in Nat /\ MaxPattern \in Nat
    /\ Word \in Nat /\ Word > MaxPattern

Strings(max) == UNION {[1..n -> Letters] : n \in 0..max}

Patterns == Strings(MaxPattern)

VARIABLES
    err_search, \* the check box: search stderr
    box,        \* text of app->search
    pat_len,
    start_ptr,  \* where to look for the next match
    pos_cache,  \* matches found
    cur_idx,
    end_len,    \* number of matches once all are known, or 0
    sel,        \* start of the selection last made, or NULL
    staleEnd    \* history: end_len is of an earlier search

searchVars == <<err_search, box, pat_len, start_ptr, pos_cache, cur_idx,
                end_len, sel, staleEnd>>
vars == <<run, text, fault, searchVars>>

NULL == -1

TypeOK ==
    /\ ViewsTypeOK
    /\ err_search \in BOOLEAN
    /\ box \in Patterns
    /\ pat_len \in 0..Word - 1
    /\ start_ptr \in Nat \union {NULL}
    /\ pos_cache \in Seq(Nat)
    /\ cur_idx \in Nat
    /\ end_len \in Nat
    /\ sel \in Nat \union {NULL}
    /\ staleEnd \in BOOLEAN

Init ==
    /\ run = FALSE
    /\ text = [v \in Views |-> <<>>]
    /\ fault = "none"
    /\ err_search = FALSE
    /\ box = <<>>
    /\ pat_len = 0
    /\ start_ptr = NULL
    /\ pos_cache = <<>>
    /\ cur_idx = 0
    /\ end_len = 0
    /\ sel = NULL
    /\ staleEnd = FALSE

-----------------------------------------------------------------------------
(* blib_strstr.                                                            *)

Occurs(t, p, i) == SubSeq(t, i + 1, i + Len(p)) = p

Places(t, p, from) == {i \in from..Len(t) - Len(p) : Occurs(t, p, i)}

\* The first occurrence of p in t at or after "from", or NULL.
Find(t, p, from) ==
    IF Places(t, p, from) = {} THEN NULL
    ELSE CHOOSE i \in Places(t, p, from) : \A j \in Places(t, p, from) : i <= j

-----------------------------------------------------------------------------
(* Handlers.                                                               *)

View == IF err_search THEN "stderr" ELSE "stdout"

Look_mut2(p, len) ==            \* cur_idx is left where it was
    LET n     == (pat_len + len) % Word
        first == Find(text[View], p, 0)
    IN  /\ pat_len' = n
        /\ IF n = 0 \/ first = NULL
           THEN /\ start_ptr' = NULL /\ pos_cache' = <<>> /\ sel' = NULL
                /\ UNCHANGED staleEnd
           ELSE /\ start_ptr' = first + n
                /\ pos_cache' = <<first>> /\ sel' = first
                /\ staleEnd' = (end_len # 0)
        /\ UNCHANGED <<cur_idx, end_len>>

\* i_OnSearchFilter when the text to look for is p, len characters longer.
Look(p, len) ==
    LET n     == (pat_len + len) % Word
        first == Find(text[View], p, 0)
    IN  /\ pat_len' = n
        /\ IF n = 0 \/ first = NULL
           THEN /\ start_ptr' = NULL /\ pos_cache' = <<>> /\ sel' = NULL
                /\ UNCHANGED <<cur_idx, staleEnd>>
           ELSE /\ start_ptr' = first + n
                /\ pos_cache' = <<first>>
                /\ cur_idx' = 0
                /\ sel' = first
                /\ staleEnd' = (end_len # 0)
        /\ UNCHANGED end_len

\* t is s with characters inserted in one place.
Extends(s, t) ==
    \E i \in 0..Len(s), n \in 1..Len(t) : Splice(t, i, i + n, <<>>) = s /\ n <= Len(t) - i

\* i_OnSearchFilter: the user inserts or deletes in one place.
OnSearchFilter(p) ==
    /\ Extends(box, p) \/ Extends(p, box)
    /\ box' = p
    /\ IF run
       THEN UNCHANGED <<pat_len, start_ptr, pos_cache, cur_idx, end_len, sel, staleEnd>>
       ELSE Look(p, Len(p) - Len(box))
    /\ UNCHANGED <<run, text, fault, err_search>>

\* i_OnSearchFocus: the search is done again.
OnSearchFocus ==
    /\ box # <<>> /\ ~run
    /\ Look(box, 0)
    /\ UNCHANGED <<run, text, fault, err_search, box>>

\* The check box, and i_ResetSearch.
ResetSearch_mut ==              \* only the selection is reset
    /\ err_search' = ~err_search
    /\ sel' = NULL
    /\ UNCHANGED <<run, text, fault, box, pat_len, start_ptr, pos_cache, cur_idx,
                   end_len, staleEnd>>

ResetSearch ==
    /\ err_search' = ~err_search
    /\ start_ptr' = NULL /\ pos_cache' = <<>> /\ sel' = NULL
    /\ UNCHANGED <<run, text, fault, box, pat_len, cur_idx, end_len, staleEnd>>

\* The new cur_idx.
Moved(dir) ==
    IF dir = "up"
    THEN IF cur_idx # 0 THEN cur_idx - 1 ELSE IF end_len # 0 THEN end_len - 1 ELSE 0
    ELSE IF cur_idx + 1 = end_len THEN 0 ELSE cur_idx + 1

\* A match that is in the cache.
Cached(i) ==
    /\ i < Len(pos_cache)
    /\ cur_idx' = i /\ sel' = pos_cache[i + 1]
    /\ UNCHANGED <<start_ptr, pos_cache, end_len, staleEnd, fault>>

Searched_mut(i) ==              \* the first failure counted as a match
    LET next == Find(text[View], box, start_ptr) IN
    /\ i >= Len(pos_cache) /\ start_ptr <= Len(text[View])
    /\ IF next = NULL
       THEN /\ end_len' = i + 1 /\ cur_idx' = 0 /\ sel' = pos_cache[1]
            /\ staleEnd' = (i # Len(pos_cache))
            /\ UNCHANGED <<start_ptr, pos_cache, fault>>
       ELSE /\ i = Len(pos_cache)
            /\ pos_cache' = Append(pos_cache, next)
            /\ cur_idx' = i /\ sel' = next /\ start_ptr' = next + pat_len
            /\ UNCHANGED <<end_len, staleEnd, fault>>

\* The search goes on from start_ptr, which pat_len may have put anywhere.
Searched(i) ==
    LET next == Find(text[View], box, start_ptr) IN
    /\ i >= Len(pos_cache) /\ start_ptr <= Len(text[View])
    /\ IF next = NULL
       THEN /\ end_len' = i /\ cur_idx' = 0 /\ sel' = pos_cache[1]
            /\ staleEnd' = (i # Len(pos_cache))
            /\ UNCHANGED <<start_ptr, pos_cache, fault>>
       ELSE IF i > Len(pos_cache)
       THEN /\ fault' = "index" /\ cur_idx' = i
            /\ UNCHANGED <<start_ptr, pos_cache, end_len, sel, staleEnd>>
       ELSE /\ pos_cache' = Append(pos_cache, next)
            /\ cur_idx' = i /\ sel' = next /\ start_ptr' = next + pat_len
            /\ UNCHANGED <<end_len, staleEnd, fault>>

Wild(i) ==
    /\ i >= Len(pos_cache) /\ start_ptr > Len(text[View])
    /\ fault' = "pointer" /\ cur_idx' = i
    /\ UNCHANGED <<start_ptr, pos_cache, end_len, sel, staleEnd>>

\* i_OnSearchUpDown.
OnSearchUpDown(dir) ==
    /\ start_ptr # NULL
    /\ Cached(Moved(dir)) \/ Searched(Moved(dir)) \/ Wild(Moved(dir))
    /\ UNCHANGED <<run, text, err_search, box, pat_len>>

\* i_OnRun, which without a command only clears: edit_text calls no handler.
OnRun_mut(command) ==           \* start_ptr survives the text it points into
    /\ ~run /\ run' = command
    /\ text' = [v \in Views |-> <<>>]
    /\ pat_len' = 0 /\ box' = <<>> /\ sel' = NULL
    /\ UNCHANGED <<fault, err_search, pos_cache, start_ptr, cur_idx, end_len, staleEnd>>

OnRun(command) ==
    /\ ~run /\ run' = command
    /\ text' = [v \in Views |-> <<>>]
    /\ start_ptr' = NULL /\ pat_len' = 0 /\ box' = <<>> /\ sel' = NULL
    /\ UNCHANGED <<fault, err_search, pos_cache, cur_idx, end_len, staleEnd>>

\* What i_run_update does to a text view: it shows something else.
RunUpdate(view, t) ==
    /\ run
    /\ text' = [text EXCEPT ![view] = t]
    /\ UNCHANGED <<run, fault, searchVars>>

\* i_run_end.
RunEnd ==
    /\ run /\ run' = FALSE
    /\ UNCHANGED <<text, fault, searchVars>>

Next ==
    \/ /\ fault = "none"
       /\ \/ \E p \in Patterns : OnSearchFilter(p)
          \/ OnSearchFocus
          \/ ResetSearch
          \/ \E dir \in {"up", "down"} : OnSearchUpDown(dir)
          \/ \E command \in BOOLEAN : OnRun(command)
          \/ \E view \in Views, t \in Strings(MaxText) : RunUpdate(view, t)
          \/ RunEnd
    \/ fault # "none" /\ UNCHANGED vars     \* the program has failed

Spec == Init /\ [][Next]_vars

-----------------------------------------------------------------------------
(* Properties.  A box edited during a run leaves pat_len behind for good,  *)
(* because the handler returns before it counts.                           *)

Counted == pat_len = Len(box)

\* While a search is on, pos_cache is the sequence of the matches in the text
\* displayed now, in the view the check box selects: the leftmost, then each
\* the first that does not overlap the one before, and start_ptr is where the
\* next one is looked for.  Whatever ran, was typed or was clicked in between.
CacheIsMatches ==
    start_ptr # NULL /\ Counted =>
        /\ pos_cache # <<>>
        /\ \A i \in 1..Len(pos_cache) :
              pos_cache[i] = Find(text[View], box,
                                  IF i = 1 THEN 0 ELSE pos_cache[i - 1] + Len(box))
        /\ start_ptr = pos_cache[Len(pos_cache)] + Len(box)

\* Once the number of matches is known, and is of this search, they are all
\* in the cache, and Up and Down stay inside it.
EndIsKnown ==
    start_ptr # NULL /\ Counted /\ ~staleEnd /\ fault = "none" =>
        /\ cur_idx < Len(pos_cache)
        /\ end_len # 0 => /\ end_len = Len(pos_cache)
                          /\ Find(text[View], box, start_ptr) = NULL

\* Up and Down fail in two ways only: outside the cache with the end of an
\* earlier search, and outside the text with a pattern length that is wrong.
FaultHasCause ==
    /\ fault = "index" => staleEnd
    /\ fault = "pointer" => ~Counted

\* Down selects the match after the selected one, or the first after the last.
DownIsNext ==
    [][ OnSearchUpDown("down") /\ Counted /\ ~staleEnd =>
           LET next == Find(text[View], box, sel + Len(box))
           IN  sel' = IF next # NULL THEN next ELSE Find(text[View], box, 0)
      ]_vars
=============================================================================
