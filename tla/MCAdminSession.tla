--------------------------- MODULE MCAdminSession ---------------------------
(***************************************************************************)
(* Two tabs and two businesses, one of which may be suspended: enough for  *)
(* a tab that has the tokens of one business and shows the other.          *)
(***************************************************************************)
EXTENDS AdminSession
=============================================================================
