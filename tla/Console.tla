------------------------------ MODULE Console ------------------------------
(***************************************************************************)
(* The console in one tab: the session with the page of credentials, or    *)
(* the session with the page of administrators and the dialog of the       *)
(* header.  A bound: a tab uses one of the two, though it may leave it.    *)
(***************************************************************************)
EXTENDS CredentialsPage

ASSUME NoIdAssumption == NoId \notin Admin

VARIABLES section,         \* the page the tab uses
          alive, past, changed, adminsMounted, listed,
          open, submitting, done, adminsOrphan    \* see AdminsPage

Admins == INSTANCE AdminsPage WITH
            mounted <- adminsMounted, shown <- listed, orphan <- adminsOrphan

adminsVars == <<alive, past, changed, adminsMounted, listed,
                open, submitting, done, adminsOrphan>>
consoleVars == <<vars, section, adminsVars>>

ConsoleInit == \/ /\ section = "credentials" /\ Init
                  /\ alive = {} /\ past = {} /\ changed = {}
                  /\ adminsMounted = FALSE /\ listed = {} /\ adminsOrphan = {}
                  /\ open = FALSE /\ submitting = FALSE /\ done = FALSE
               \/ /\ section = "admins" /\ Admins!Init
                  /\ row = <<>> /\ page = 1 /\ shown = <<>> /\ total = 0
                  /\ mounted = FALSE /\ loading = FALSE /\ orphan = {}

ConsoleNext == /\ \/ /\ section = "credentials" /\ Next
                     /\ UNCHANGED adminsVars
                  \/ /\ section = "admins" /\ Admins!Next
                     /\ UNCHANGED <<row, pageVars>>
               /\ UNCHANGED section

ConsoleSpec == ConsoleInit /\ [][ConsoleNext]_consoleVars

\* The page that the tab does not use is as it was at first.
ConsoleInv ==
  \/ section = "credentials" /\ PageInv /\ ~done
  \/ /\ section = "admins" /\ Admins!PageInv
     /\ row = <<>> /\ page = 1 /\ shown = <<>> /\ total = 0
     /\ ~mounted /\ ~loading /\ orphan = {}

\* "Password updated." is shown to an administrator whose password was
\* changed, whatever was closed, signed out or signed in meanwhile; with the
\* exception of UserMatchesToken.
DoneHonest == Admins!DoneHonest

\* The list is loaded again once a deletion is done: that load does not list
\* the account.  (An older load that is received later may list it again.)
SeesItsDeletion == section = "admins" => Admins!SeesItsDeletion
=============================================================================
