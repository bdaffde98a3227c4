---------------------------- MODULE MCSqlHelpers ----------------------------
(***************************************************************************)
(* The pure helpers of the SQL layer for TLC: the placeholder scanner, the *)
(* #[sql] macro, the page arithmetic and the chrono codecs of SQLite.      *)
(* They share no state: each is given its inputs while the others are in   *)
(* their initial state.                                                    *)
(*                                                                         *)
(* The scanner is given the four bytes it looks for and two quotes, which  *)
(* also serve as the bytes of names: the names "", sq, dq occur, a name    *)
(* occurs twice, #{sq} meets ${sq}, and a text begins and ends with the    *)
(* same quote or with two different ones.                                  *)
(***************************************************************************)
EXTENDS StringUtil, SqlMacro, SqliteChrono

VARIABLES it, panicked

MCBytes == {"#", "$", "{", "}", "sq", "dq"}
MCLexemes == {"select", "SELECT", "Select", "x", "sp", "dq"}
MCParams == {"rb", "tx_id", "a", "b"}
MCOffsets == {-4, 0, 4}
MCClock == -3..3

Width == 3
DEFAULT_PAGE_SIZE == 2
MaxRecords == 1

P == INSTANCE Page

PageTypeOK == P!TypeOK
GetPagesIsCeiling == P!GetPagesIsCeiling
PagesCoverTotal == P!PagesCoverTotal

MCInit == Init /\ MacroInit /\ ChronoInit /\ P!Init

Scanner ==
    /\ MacroInit /\ ChronoInit /\ P!Init
    /\ Next /\ UNCHANGED <<macroVars, chronoVars, it, panicked>>
Macro ==
    /\ Init /\ ChronoInit /\ P!Init
    /\ MacroNext /\ UNCHANGED <<arg, chronoVars, it, panicked>>
Codec ==
    /\ Init /\ MacroInit /\ P!Init
    /\ ChronoNext /\ UNCHANGED <<arg, macroVars, it, panicked>>
Paging ==
    /\ Init /\ MacroInit /\ ChronoInit
    /\ UNCHANGED <<arg, macroVars, chronoVars>> /\ P!Next

MCNext == Scanner \/ Macro \/ Codec \/ Paging

MCSpec == MCInit /\ [][MCNext]_<<arg, macroVars, chronoVars, it, panicked>>

=============================================================================
