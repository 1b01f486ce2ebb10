------ MODULE MCOperations ------
(* What surrounds the apply run of the agent, the explorer of databases,
   and the way a release gets into service, in one run: artifacts and
   source files, the signed requests on the socket, drafts and the page
   they are edited on, release activation, the deployment of the agent and
   the explorer's pages.  The
   parts share no state: a behaviour exercises one of them, picked at first. *)
EXTENDS ArtifactStore, SourceFile, AgentProtocol, VariableDraft, VariablesPage, ReleaseActivation, AgentDeploy, KeysetPages

VARIABLE part

\* One draft and one snapshot are stored from the start.
TheStored == {<<"drafts", "c1">>, <<"snapshots", "c1">>}

\* Two sources of one application and rank and one that is only observed.
TheOrder == <<"s1", "s2", "s3">>
TheRecords ==
    [s1 |-> [app |-> "a", rank |-> 1, controlled |-> TRUE, actions |-> {"restart"}, consumers |-> {"web"}],
     s2 |-> [app |-> "a", rank |-> 1, controlled |-> TRUE, actions |-> {"build"}, consumers |-> {}],
     s3 |-> [app |-> "b", rank |-> 0, controlled |-> FALSE, actions |-> {}, consumers |-> {"web", "job"}]]
Entry(strategy, requirement, public) ==
    [strategy |-> strategy, requirement |-> requirement, public |-> public, mutability |-> "mutable", consumers |-> {"web"}]
TheCatalog ==
    [key \in {<<"s1", "X">>, <<"s1", "Y">>, <<"s2", "X">>} |->
        IF key = <<"s1", "X">> THEN Entry("restart", "required", FALSE)
        ELSE IF key = <<"s1", "Y">> THEN Entry("restart", "optional", TRUE)
        ELSE Entry("build_redeploy", "optional", TRUE)]
Defined(name, value) == [name |-> name, value |-> value]
TheContent ==
    [s1 |-> <<Defined("Y", "v"), Defined("X", "v")>>, s2 |-> <<Defined("X", "w")>>, s3 |-> <<Defined("X", "u")>>]

\* The migration, the API and the web server; the unit and the smoke client.
TheBackends == <<"migrate", "api">>
TheWriters == <<"web">>
TheAssets == <<"unit", "smoke">>

Parts == {"artifacts", "file", "protocol", "draft", "variables", "release", "deploy", "pages"}
operationsVars == <<part, artifactVars, fileVars, protocolVars, draftVars, variablesPageVars, releaseVars, deployVars, pageVars>>

OperationsInit ==
    /\ part \in Parts
    /\ ArtifactInit
    /\ SourceFileInit /\ (part = "file" \/ (current.target = CHOOSE r \in SourceReleases : TRUE))
    /\ ProtocolInit
    /\ VariableDraftInit
    /\ VariablesPageInit /\ (part = "variables" \/ ~view.unlocked)
    /\ ReleaseInit
    /\ AgentDeployInit
    /\ PagesInit /\ (part = "pages" \/ (keyed /\ \A id \in RowIds : rows[id] = Null))

OperationsNext ==
    /\ UNCHANGED part
    /\ \/ part = "artifacts" /\ ArtifactNext
            /\ UNCHANGED <<fileVars, protocolVars, draftVars, variablesPageVars, releaseVars, deployVars, pageVars>>
       \/ part = "file" /\ SourceFileNext
            /\ UNCHANGED <<artifactVars, protocolVars, draftVars, variablesPageVars, releaseVars, deployVars, pageVars>>
       \/ part = "protocol" /\ ProtocolNext
            /\ UNCHANGED <<artifactVars, fileVars, draftVars, variablesPageVars, releaseVars, deployVars, pageVars>>
       \/ part = "draft" /\ VariableDraftNext
            /\ UNCHANGED <<artifactVars, fileVars, protocolVars, variablesPageVars, releaseVars, deployVars, pageVars>>
       \/ part = "variables" /\ VariablesPageNext
            /\ UNCHANGED <<artifactVars, fileVars, protocolVars, draftVars, releaseVars, deployVars, pageVars>>
       \/ part = "release" /\ ReleaseNext
            /\ UNCHANGED <<artifactVars, fileVars, protocolVars, draftVars, variablesPageVars, deployVars, pageVars>>
       \/ part = "deploy" /\ AgentDeployNext
            /\ UNCHANGED <<artifactVars, fileVars, protocolVars, draftVars, variablesPageVars, releaseVars, pageVars>>
       \/ part = "pages" /\ PagesNext
            /\ UNCHANGED <<artifactVars, fileVars, protocolVars, draftVars, variablesPageVars, releaseVars, deployVars>>

OperationsSpec == OperationsInit /\ [][OperationsNext]_operationsVars

\* What a draft is checked for, and what the owner is asked about it, is what the
\* agent later applies.
VariableChangesAreSound == VariableDraftIsSound /\ VariablesPageIsSafe

\* What is computed for a client is exactly what was asked for: the sources a
\* draft would write, and the rows, schemas and pages of the explorer.
AnswersAreExact == DraftIsExact /\ PagesAreExact

\* What the agent keeps on disk is safe: its own artifacts and the sources of
\* the applications it edits.
AgentFilesAreSafe == ArtifactsAreSafe /\ SourceFileIsSafe

\* Whatever fails, dies or is killed on the way, a release and a version of the
\* agent are in service as a whole.
ReleasesAreSafe == ReleaseIsSafe /\ AgentDeployIsSafe
======
