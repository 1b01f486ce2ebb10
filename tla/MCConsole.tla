------ MODULE MCConsole ------
(* The parts of the console, the browser and the notifier that keep their
   promises by the order of their steps, in one run: a behaviour exercises
   one part, picked at the start.  They meet only through rows and requests
   that the others leave as they are. *)
EXTENDS BrowserSpool, ExceptionCapture, IngestGate, AlertScheduler, OpsAccounts, ExplorerAccess, SqlWorker

VARIABLE part

\* One rule for every issue, one for critical issues.
TheRules    == [all |-> 1, critical |-> 4]
TheBatches  == [r \in ServerRequests |-> {"x", "y"}]
TheSessions == [r \in BrowserRequests |-> "session"]

Parts == {"browser", "capture", "gate", "alerts", "explorer", "accounts", "pii", "schema", "sql", "worker"}
consoleVars == <<part, pageVars, captureVars, gateVars, alertVars, explorerVars, accountVars, piiVars, schemaVars, sqlVars, registryVars>>

ConsoleInit ==
    /\ part \in Parts
    /\ BrowserSpoolInit
    /\ CaptureInit
    /\ GateInit
    /\ AlertInit
    /\ ExplorerInit
    /\ AccountsInit /\ (part = "accounts" \/ (change = Arriving(AccountRequests, 2) /\ login = Arriving(Logins, 1)))
    /\ PiiInit
    /\ SchemaInit
    /\ SqlInit
    /\ RegistryInit

ConsoleNext ==
    /\ UNCHANGED part
    /\ \/ part = "browser" /\ BrowserSpoolNext
            /\ UNCHANGED <<captureVars, gateVars, alertVars, explorerVars, accountVars, piiVars, schemaVars, sqlVars, registryVars>>
       \/ part = "capture" /\ CaptureNext
            /\ UNCHANGED <<pageVars, gateVars, alertVars, explorerVars, accountVars, piiVars, schemaVars, sqlVars, registryVars>>
       \/ part = "gate" /\ GateNext
            /\ UNCHANGED <<pageVars, captureVars, alertVars, explorerVars, accountVars, piiVars, schemaVars, sqlVars, registryVars>>
       \/ part = "alerts" /\ AlertNext
            /\ UNCHANGED <<pageVars, captureVars, gateVars, explorerVars, accountVars, piiVars, schemaVars, sqlVars, registryVars>>
       \/ part = "explorer" /\ ExplorerNext
            /\ UNCHANGED <<pageVars, captureVars, gateVars, alertVars, accountVars, piiVars, schemaVars, sqlVars, registryVars>>
       \/ part = "accounts" /\ AccountsNext
            /\ UNCHANGED <<pageVars, captureVars, gateVars, alertVars, explorerVars, piiVars, schemaVars, sqlVars, registryVars>>
       \/ part = "pii" /\ PiiNext
            /\ UNCHANGED <<pageVars, captureVars, gateVars, alertVars, explorerVars, accountVars, schemaVars, sqlVars, registryVars>>
       \/ part = "schema" /\ SchemaNext
            /\ UNCHANGED <<pageVars, captureVars, gateVars, alertVars, explorerVars, accountVars, piiVars, sqlVars, registryVars>>
       \/ part = "sql" /\ SqlNext
            /\ UNCHANGED <<pageVars, captureVars, gateVars, alertVars, explorerVars, accountVars, piiVars, schemaVars, registryVars>>
       \/ part = "worker" /\ RegistryNext
            /\ UNCHANGED <<pageVars, captureVars, gateVars, alertVars, explorerVars, accountVars, piiVars, schemaVars, sqlVars>>

ConsoleSpec == ConsoleInit /\ [][ConsoleNext]_consoleVars

\* What is reported reaches the ledger of the receiving side at least once and
\* no more often than the code promises.
ReportingIsSafe == BrowserSpoolIsSafe /\ CaptureIsSound /\ GateHolds /\ AlertedOnce
======
