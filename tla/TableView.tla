------------------------------ MODULE TableView ------------------------------
(***************************************************************************)
(* The table of a list of pods (list.c): the columns the user adds and     *)
(* removes, the cache of the values it shows, filled at the first draw     *)
(* after a change, the type of each column, taken from the first item, and *)
(* the headers clicked to see a time instead of an age.                    *)
(*                                                                         *)
(* An item is an object with members in an order; yyjson keeps them in a   *)
(* ring that goes from a key to its value and from the value to the next   *)
(* key, and holds the last.  A column is a JSON pointer to a member, or    *)
(* the expression jval jptr {/member}, which gives a copy of a string and  *)
(* the very value of an array or an object.  Handlers and draws are steps  *)
(* of the GUI thread, and there may be several handlers between two draws. *)
(***************************************************************************)
EXTENDS Integers, SequencesExt

CONSTANTS
    NRows,      \* items of the list, data->nrows
    NMembers,   \* members of an item
    Kinds,      \* types of their values, ktUNK for a member the item lacks
    MaxCols     \* MAX_COLS

KDataType == {"STR", "TIM", "JVAL", "UNK"}

ASSUME TableAssumption ==
    /\ NRows \in Nat /\ NRows > 0
    /\ NMembers \in Nat
    /\ Kinds \subseteq KDataType
    /\ MaxCols \in Nat /\ MaxCols > 0

Rows    == 1..NRows
Members == 1..NMembers
Columns == [member : Members, by : {"pointer", "expression"}]

VARIABLES
    items,      \* the types of the members, by item
    cut,        \* the members whose value was added to wroot, by item
    cols,       \* data->expr and data->display
    heads,      \* columns of the TableView
    popup,      \* columns in the popup of the ones to remove
    kttype,
    ele,        \* row after row
    hmask,      \* columns whose bit is set
    invalid,
    fault,      \* "none", "delete" or "time": what the program fails on
    raw         \* history: the columns whose header was clicked an odd number
                \* of times, empty once one was removed at or before a bit, or
                \* the header of one that is gone was clicked

vars == <<items, cut, cols, heads, popup, kttype, ele, hmask, invalid, fault,
          raw>>

Cells == [row : Rows, member : Members, kind : KDataType]

TypeOK ==
    /\ items \in [Rows -> [Members -> Kinds]]
    /\ cut \in [Rows -> SUBSET Members]
    /\ cols \in Seq(Columns) /\ Len(cols) \in 1..MaxCols
    /\ kttype \in Seq(KDataType) /\ Len(kttype) <= Len(cols)
    /\ ele \in Seq(Cells)
    /\ hmask \subseteq 1..MaxCols
    /\ invalid \in BOOLEAN
    /\ fault \in {"none", "delete", "time"}
    /\ raw \in Seq(BOOLEAN) /\ Len(raw) \in {0, Len(cols)}

\* add_list_to_layout: the configured columns are data.
Init ==
    /\ items \in [Rows -> [Members -> Kinds]]
    /\ cut = [r \in Rows |-> {}]
    /\ cols \in UNION {[1..n -> Columns] : n \in 1..MaxCols}
    /\ heads = cols /\ popup = cols
    /\ kttype = << >> /\ ele = << >>
    /\ hmask = {}
    /\ invalid = TRUE
    /\ fault = "none"
    /\ raw = [c \in 1..Len(cols) |-> FALSE]

-----------------------------------------------------------------------------
(* Columns.                                                                *)

\* onCol_add with a name and an expression.
OnColAdd(col) ==
    /\ fault = "none"
    /\ Len(cols) # MaxCols
    /\ cols' = Append(cols, col)
    /\ heads' = Append(heads, col)
    /\ popup' = Append(popup, col)
    /\ raw' = IF raw = << >> THEN raw ELSE Append(raw, FALSE)
    /\ invalid' = TRUE
    /\ UNCHANGED <<items, cut, kttype, ele, hmask, fault>>

\* arrst_delete(data->kttype): the types of the columns added since the last
\* draw are not there yet.
RemoveType_mut(c) ==            \* the type of the column stays
    /\ UNCHANGED kttype
    /\ UNCHANGED fault

RemoveType(c) ==
    IF c <= Len(kttype)
    THEN kttype' = RemoveAt(kttype, c) /\ UNCHANGED fault
    ELSE fault' = "delete" /\ UNCHANGED kttype

\* onCol_rem of the column selected in the popup, element 0 of which is not
\* a column.
OnColRem(selected) ==
    /\ fault = "none"
    /\ selected <= Len(popup)
    /\ Len(popup) + 1 > 2
    /\ cols' = RemoveAt(cols, selected)
    /\ RemoveType(selected)
    /\ heads' = RemoveAt(heads, selected)
    /\ popup' = cols'
    /\ invalid' = TRUE
    /\ raw' = IF raw = << >> \/ \E bit \in hmask : bit >= selected
              THEN << >> ELSE RemoveAt(raw, selected)
    /\ UNCHANGED <<items, cut, ele, hmask>>

Toggled_mut(c) == hmask \union {c}      \* |= for ^=

Toggled(c) == IF c \in hmask THEN hmask \ {c} ELSE hmask \union {c}

\* tb_OnHeader.  The header is the one under the mouse when it last moved: the
\* column may have been removed since with the keyboard, and be the last.
OnHeader(c) ==
    /\ fault = "none"
    /\ hmask' = Toggled(c)
    /\ raw' = IF c > Len(raw) THEN << >> ELSE [raw EXCEPT ![c] = ~@]
    /\ UNCHANGED <<items, cut, cols, heads, popup, kttype, ele, invalid, fault>>

-----------------------------------------------------------------------------
(* The cache.                                                              *)

Present(r) == {m \in Members : items[r][m] # "UNK"}

IsLast(r, m) == \A n \in Present(r) : n <= m

\* A look-up goes from the last value of the ring to the first key and on; a
\* value in cutOff leads out of the item.
Found(r, m, cutOff) ==
    /\ m \in Present(r)
    /\ \A n \in Present(r) : n \in cutOff => n >= m /\ ~IsLast(r, n)

\* yyjson_mut_obj_add(wroot, key, res) when res is a value of the document.
IsAdded(r, col, cutOff) ==
    /\ col.by = "expression"
    /\ items[r][col.member] = "JVAL"
    /\ Found(r, col.member, cutOff)

\* The members of item r cut off once its first c columns are filled.
CutBy(r) ==
    LET after[c \in 0..Len(cols)] ==
            IF c = 0 THEN cut[r]
            ELSE IF IsAdded(r, cols[c], after[c - 1])
                 THEN after[c - 1] \union {cols[c].member}
                 ELSE after[c - 1]
    IN  after

\* The cells of item r, by column.
Filled(r) ==
    LET after == CutBy(r)
    IN  [c \in 1..Len(cols) |->
            [row    |-> r,
             member |-> cols[c].member,
             kind   |-> IF Found(r, cols[c].member, after[c - 1])
                        THEN items[r][cols[c].member] ELSE "UNK"]]

\* tb_cache
TbCache ==
    IF invalid
    THEN /\ ele' = FlattenSeq([r \in Rows |-> Filled(r)])
         /\ kttype' = [c \in 1..Len(cols) |-> Filled(1)[c].kind]
         /\ cut' = [r \in Rows |-> CutBy(r)[Len(cols)]]
         /\ invalid' = FALSE
    ELSE UNCHANGED <<ele, kttype, cut, invalid>>

Position_mut(row, col, ncols) == row + NRows * (col - 1)    \* column-major

Position(row, col, ncols) == col + ncols * (row - 1)

\* get_tb_value
TbValue(row, col) == ele[Position(row, col, Len(cols))]

IsString(kind) == kind \in {"STR", "TIM"}

\* fill_tempstr: what is not a string gives human_duration no string to read.
Fails_mut(type, kind) == ~IsString(kind)    \* other types fail as well

Fails(type, kind) == type = "TIM" /\ ~IsString(kind)

\* tb_OnData from BEGIN to END, with the items that are visible or focused and
\* the columns that are not scrolled away.
Draw(rows, columns) ==
    /\ fault = "none"
    /\ UNCHANGED <<items, cols, heads, popup, hmask, raw>>
    /\ TbCache
    /\ fault' = IF \E r \in rows, c \in columns :
                       Fails(kttype'[c], TbValue(r, c)'.kind)
                THEN "time" ELSE "none"

-----------------------------------------------------------------------------

Next ==
    \/ \E col \in Columns : OnColAdd(col)
    \/ \E c \in 1..MaxCols : OnColRem(c) \/ OnHeader(c)
    \/ \E rows \in SUBSET Rows \ {{}}, first \in 1..Len(cols) :
          Draw(rows, {1} \union first..Len(cols))

Spec == Init /\ [][Next]_vars

-----------------------------------------------------------------------------
(* Safety.                                                                 *)

\* Whatever was added and removed since, the cells a draw reads by row and
\* column are those of the item and the column, and say what the item says
\* as long as none of its values was added to the results of expressions.
CellIsOfItsColumn ==
    ~invalid =>
        /\ Len(ele) = NRows * Len(cols)
        /\ \A r \in Rows, c \in 1..Len(cols) :
              /\ TbValue(r, c).row = r
              /\ TbValue(r, c).member = cols[c].member
              /\ cut[r] = {} => TbValue(r, c).kind = items[r][cols[c].member]

\* The headers, the names in the popup and, for the columns that have been
\* drawn, the types belong to the columns they stand at, between a change and
\* the next draw as well.
ColumnsAgree ==
    /\ heads = cols /\ popup = cols
    /\ Len(kttype) <= Len(cols)
    /\ ~invalid => Len(kttype) = Len(cols)
    /\ cut[1] = {} =>
        \A c \in 1..Len(kttype) : kttype[c] = items[1][cols[c].member]

\* Times are shown in full exactly in the columns whose header the user
\* clicked for it, unless a column was removed at or before one of them, or
\* under the mouse and clicked all the same.
RawAsAsked == raw # << >> => \A c \in 1..Len(cols) : raw[c] <=> c \in hmask

\* The program fails for two reasons only: a column is removed that was never
\* drawn, or a column of times by its first item has an item without one, or
\* with one that an expression's result has cut off.
FaultHasCause ==
    /\ fault = "delete" => invalid /\ Len(kttype) <= Len(cols)
    /\ fault = "time" =>
        \E c \in 1..Len(cols), r \in Rows :
            /\ items[1][cols[c].member] = "TIM"
            /\ ~IsString(items[r][cols[c].member]) \/ cut[r] # {}

-----------------------------------------------------------------------------
(* A rule of yyjson the code breaks.                                       *)

\* doc/API.md: it is wrong to add a value that is already added to another
\* container.  The document, which filters are fed with, keeps its members.
DocumentIsWhole == \A r \in Rows : cut[r] = {}
=============================================================================
