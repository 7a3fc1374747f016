------------------------------ MODULE MCFlash ------------------------------
(***************************************************************************)
(* Small instance of Flash: two sectors, so that a command can fail between*)
(* them, one content besides the blank one, two failures, two journals.    *)
(***************************************************************************)
EXTENDS Flash

CONSTANTS blank, data, torn, keep
MCValues == {blank, data}
=============================================================================
