------------------------------ MODULE OcmAdmin ------------------------------
(***************************************************************************)
(* The process of ocm-admin: one command, an import beside the API and the *)
(* CA, or one that sets a password (what it then does to the accounts is   *)
(* in Accounts).                                                           *)
(***************************************************************************)
EXTENDS ImportClients

CONSTANTS Char, Special, MinLength, MaxKeys,    \* see PasswordPrompt
          Commands                              \* the commands in use

ASSUME KeyAssumption ==
  /\ Special \subseteq {"ctrl-c", "backspace"}
  /\ Char \intersect {"ctrl-c", "backspace", "nothing"} = {}
ASSUME LengthAssumption == MinLength \in Nat /\ MaxKeys \in Nat

VARIABLES command,
          tty, at, listening, lineQueue, lineWaiter, value, got, first, typed

Prompt == INSTANCE PasswordPrompt WITH password <- first

promptVars == <<tty, at, listening, lineQueue, lineWaiter, value, got, first, typed>>
adminVars == <<vars, command, promptVars>>

\* The invariant of both commands; their state has the types declared.
AdminInv == ImportInv /\ Prompt!PromptInv

\* An import asks for nothing.
AdminInit == /\ command \in Commands
             /\ Init /\ Prompt!Init
             /\ command = "import-clients" => ~tty

\* main.
AdminNext == /\ \/ command = "import-clients" /\ Next /\ UNCHANGED promptVars
                \/ command = "create" /\ Prompt!Next /\ UNCHANGED vars
             /\ UNCHANGED command

AdminSpec == AdminInit /\ [][AdminNext]_adminVars

\* "None are lost between the two password prompts": a password that is set
\* was given twice, as the first two lines, however the lines and the prompts
\* overlap.
PasswordIsTyped == Prompt!PasswordIsTyped

\* Ctrl-C, and nothing else, leaves the prompt.
OnlyCtrlCInterrupts == Prompt!OnlyCtrlCInterrupts
=============================================================================
