---------------------------- MODULE MCAdminPage -----------------------------
(***************************************************************************)
(* A small instance of AdminPage.                                          *)
(***************************************************************************)
EXTENDS AdminPage

\* One of the two names is typed with a blank.
MCTrim(name) == IF name = " corp" THEN "corp" ELSE name
=============================================================================
