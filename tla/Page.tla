-------------------------------- MODULE Page --------------------------------
(***************************************************************************)
(* The paging arithmetic of src/src/sql/page.rs: PageRequest and Page<T>,  *)
(* their constructors and setters, and get_pages and offset of the trait   *)
(* IPageRequest, over unsigned integers of Width bits.                     *)
(*                                                                         *)
(* One value `it` is built and then changed by the builder-style setters.  *)
(* The records of a Page are kept as their number and their element type.  *)
(***************************************************************************)
EXTENDS Naturals

CONSTANTS
    Width,              \* bound: the bits of the unsigned integers (u64: 64)
    DEFAULT_PAGE_SIZE,  \* the default page size (10)
    MaxRecords          \* bound: the records a Page is given

U == 0..(2^Width - 1)

ASSUME Width \in Nat \ {0} /\ DEFAULT_PAGE_SIZE \in U \ {0} /\ MaxRecords \in Nat

VARIABLES
    it,         \* the Page or PageRequest
    panicked    \* a division by zero unwound the caller

vars == <<it, panicked>>

PageRequest == [total : U, page_no : U, page_size : U, search_count : BOOLEAN]
PageT == [records : 0..MaxRecords, total : U, pages : U, page_no : U,
          page_size : U, search_count : BOOLEAN, of : {"T", "V"}]
IsPage(x) == "pages" \in DOMAIN x

\* What the setters of IPageRequest assign.
Settable == [total |-> U, page_size |-> U, page_no |-> U, search_count |-> BOOLEAN]

\* a * b as the release build computes it; overflow checks panic instead.
Mul(a, b) == (a * b) % 2^Width

\* Seeded fault: zero is normalised by adding one to every page number.
NormaliseByIncrement(no) == no + 1

Normalise(no) == IF no < 1 THEN 1 ELSE no

\* Seeded fault: the remainder is forgotten.
PagesTruncated(total, size) == total \div size

Pages(total, size) == total \div size + (IF total % size # 0 THEN 1 ELSE 0)

get_pages(x) == IF x.page_size = 0 THEN 0 ELSE Pages(x.total, x.page_size)

\* Seeded fault: pages are counted from zero.
OffsetFromPageNo(x) == Mul(x.page_no, x.page_size)

offset(x) == IF x.page_no > 0 THEN Mul(x.page_no - 1, x.page_size) ELSE 0

-----------------------------------------------------------------------------
Default == [total |-> 0, page_no |-> 1, page_size |-> DEFAULT_PAGE_SIZE,
            search_count |-> TRUE]

\* PageRequest::new_plugin, and new_total, new and new_option through it:
\* new(page_no, page_size) passes DEFAULT_PAGE_SIZE as the total.
RequestNewPlugin(no, size, total) ==
    /\ ~panicked
    /\ it' = [total |-> total, page_no |-> Normalise(no), page_size |-> size,
              search_count |-> TRUE]
    /\ UNCHANGED panicked

RequestNew(no, size) == RequestNewPlugin(no, size, DEFAULT_PAGE_SIZE)

\* Page::new_total, and new and new_option through it: both arms divide by
\* page_size before anything is built.
NewTotal(no, size, total) ==
    /\ ~panicked
    /\ \/ size = 0 /\ panicked' = TRUE /\ UNCHANGED it
       \/ /\ size # 0
          /\ it' = [records |-> 0, total |-> total, pages |-> Pages(total, size),
                    page_no |-> Normalise(no), page_size |-> size,
                    search_count |-> TRUE, of |-> "T"]
          /\ UNCHANGED panicked

New(no, size) == NewTotal(no, size, 0)

PageDefault ==
    /\ ~panicked
    /\ it' = [records |-> 0, total |-> 0, pages |-> 0, page_no |-> 1,
              page_size |-> DEFAULT_PAGE_SIZE, search_count |-> TRUE, of |-> "T"]
    /\ UNCHANGED panicked

\* set_total, set_page_size, set_page_no and set_search_count assign one
\* field: of a PageRequest, and of a Page, whose pages they leave alone.
RequestSet(field, v) ==
    /\ ~panicked /\ ~IsPage(it)
    /\ it' = [it EXCEPT ![field] = v]
    /\ UNCHANGED panicked

Set(field, v) ==
    /\ ~panicked /\ IsPage(it)
    /\ it' = [it EXCEPT ![field] = v]
    /\ UNCHANGED panicked

\* set_records, and what a caller does through get_records_mut.
SetRecords(n) == Set("records", n)

\* Page::from goes through Page::new(arg.page_no, arg.page_size) and then
\* copies every field of arg, pages included, and converts every record.
From ==
    /\ ~panicked
    /\ IsPage(it) /\ it.of = "T"
    /\ \/ it.page_size = 0 /\ panicked' = TRUE /\ UNCHANGED it
       \/ it.page_size # 0 /\ it' = [it EXCEPT !.of = "V"] /\ UNCHANGED panicked

Init == it = Default /\ panicked = FALSE

Next ==
    \/ PageDefault
    \/ \E no, size \in U : RequestNew(no, size) \/ New(no, size)
    \/ \E no, size, total \in U :
          RequestNewPlugin(no, size, total) \/ NewTotal(no, size, total)
    \/ \E f \in DOMAIN Settable : \E v \in Settable[f] : RequestSet(f, v) \/ Set(f, v)
    \/ \E n \in 0..MaxRecords : SetRecords(n)
    \/ From

Spec == Init /\ [][Next]_vars

-----------------------------------------------------------------------------
TypeOK == it \in PageRequest \cup PageT /\ panicked \in BOOLEAN

\* The number of pages the contract defines: the least n whose n pages of
\* page_size hold total records, and 0 when page_size is 0.
Ceiling(total, size) ==
    IF size = 0 THEN 0
    ELSE CHOOSE n \in 0..total :
            n * size >= total /\ \A m \in 0..(n - 1) : m * size < total

\* get_pages is the ceiling of total / page_size for every value the
\* constructors and setters can produce (the quotient plus one for a
\* remainder, and the early return for page_size = 0).
GetPagesIsCeiling == get_pages(it) = Ceiling(it.total, it.page_size)

\* get_pages and offset agree on where the records are: every page number
\* up to get_pages starts inside the total (offset, at this width, has not
\* wrapped), and the last page reaches the end of it.
PagesCoverTotal ==
    LET at(n) == offset([it EXCEPT !.page_no = n]) IN
    it.page_size > 0 =>
        /\ \A n \in 1..get_pages(it) : at(n) < it.total
        /\ it.total > 0 => at(get_pages(it)) + it.page_size >= it.total

-----------------------------------------------------------------------------
(* What the specification says and the code does not do.                   *)

\* spec 3: pages is 0 when page_size = 0, no division attempted; building a
\* Page never aborts (Page::new_total and Page::from divide by page_size).
ConstructionNeverPanics == ~panicked

\* spec 3 and 6: the pages of a Page are ceil(total / page_size); the field
\* Page.pages is what get_pages answers (set_total and set_page_size assign
\* their field and leave pages as it was).
StoredPagesAgree == IsPage(it) => it.pages = get_pages(it)

\* spec 3 makes both promises of every Page; the least it says is that in
\* every state one of them is kept.  The code keeps neither: a Page whose
\* total was set carries the pages of the old total, and the next
\* Page::new with page_size = 0 divides by it.
PageKeepsAPromise == ConstructionNeverPanics \/ StoredPagesAgree

=============================================================================
