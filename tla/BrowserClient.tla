---------------------------- MODULE BrowserClient ----------------------------
(***************************************************************************)
(* The browser client of a worker (src/browser/client.go): one provider,   *)
(* chosen when the process is configured, behind one interface.  The rows  *)
(* of the two providers are separate (browser_session is unique per        *)
(* application and provider), and so are the two halves of the state.      *)
(***************************************************************************)
EXTENDS KernelBrowser

CONSTANTS Objects, Ids, Tabs, Calls

\* The session map's absent entry is no session object.
ASSUME ClientAssumption == None \notin Objects

VARIABLES provider, session, handle, object, operation

Rod == INSTANCE RodBrowser

rodVars == <<session, handle, object, operation>>
clientVars == <<provider, vars, rodVars>>

ClientInit ==
    /\ provider \in {"rod", "kernel"}
    /\ Init
    /\ Rod!Init

ClientNext ==
    /\ UNCHANGED provider
    /\ \/ provider = "kernel" /\ Next /\ UNCHANGED rodVars
       \/ provider = "rod" /\ Rod!Next /\ UNCHANGED vars

ClientSpec == ClientInit /\ [][ClientNext]_clientVars

-----------------------------------------------------------------------------
(* Properties.                                                             *)

\* Types of both providers' states.
ClientTypeOK == TypeOK /\ Rod!TypeOK

\* Rod: a Chromium process that runs is the one behind the worker's handle.
NoChromiumSurvivesClose == Rod!NoChromiumSurvivesClose

\* Rod: the row names the incarnation that an open handle drives.
RowNamesIncarnation == Rod!RowNamesIncarnation

\* Rod: tagged elements never outlive the tab they were tagged in.
TagsOfThisTab == Rod!TagsOfThisTab

\* Applications whose recorded browser can write to the profile.
Writers == {a \in Apps : row[a].session # None /\ Alive(row[a].session)}

Exclusive == INSTANCE ExclusiveWriter WITH writers <- Writers

\* The lease implements exclusive writing: a recorded browser of one
\* application is gone before one of another is recorded.  Like every property
\* of the Kernel half, it asks that starts and closes be Colocated.
OneWriterAtATime == Exclusive!Spec

=============================================================================
