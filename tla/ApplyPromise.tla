------ MODULE ApplyPromise ------
(* What the apply coordinator promises, without calls, locks of sources and
   actions, journal and state machine: a run takes its application, saves
   what the files hold, writes its own content or gives back what it saved,
   tells how it ended, and lets the application go.  It says "completed"
   only of files that hold its content, and "rolled back" or "rejected"
   only when none does.  An operator may edit a file at any time. *)
CONSTANTS Changes, Apps, Sources, AppOf, SourcesOf, Orig, Edited, NoValue

VARIABLES
    content,   \* the source files
    saved,     \* per change: what the files held before it wrote, or NoValue
    holder,    \* per application: the change that is being applied, or NoValue
    result     \* per change: how its run ended

promiseVars == <<content, saved, holder, result>>

Holds(c) == holder[AppOf[c]] = c

PromiseInit ==
    /\ content = [s \in Sources |-> Orig]
    /\ saved = [c \in Changes |-> NoValue]
    /\ holder = [a \in Apps |-> NoValue]
    /\ result = [c \in Changes |-> "none"]

Take(c) ==
    /\ holder[AppOf[c]] = NoValue /\ result[c] = "none"
    /\ holder' = [holder EXCEPT ![AppOf[c]] = c]
    /\ UNCHANGED <<content, saved, result>>

Refuse(c) ==
    /\ ~Holds(c) /\ result[c] = "none"
    /\ \A s \in Sources : content[s] # c
    /\ result' = [result EXCEPT ![c] = "rejected"]
    /\ UNCHANGED <<content, saved, holder>>

Save(c) ==
    /\ Holds(c) /\ result[c] = "none"
    /\ \A s \in Sources : content[s] # c
    /\ saved' = [saved EXCEPT ![c] = content]
    /\ UNCHANGED <<content, holder, result>>

Put(c, s) ==
    /\ Holds(c) /\ result[c] = "none" /\ s \in SourcesOf[c]
    /\ saved[c] # NoValue /\ saved[c][s] # c
    /\ content' = [content EXCEPT ![s] = c]
    /\ UNCHANGED <<saved, holder, result>>

GiveBack(c, s) ==
    /\ Holds(c) /\ result[c] = "none" /\ s \in SourcesOf[c]
    /\ saved[c] # NoValue
    /\ content' = [content EXCEPT ![s] = saved[c][s]]
    /\ UNCHANGED <<saved, holder, result>>

Finish(c, how) ==
    /\ Holds(c) /\ result[c] = "none"
    /\ how = "completed" => \A s \in SourcesOf[c] : content[s] \in {c, Edited}
    /\ how = "rolled_back" => \A s \in Sources : content[s] # c
    /\ result' = [result EXCEPT ![c] = how]
    /\ UNCHANGED <<content, saved, holder>>

Release(c) ==
    /\ Holds(c) /\ result[c] # "none"
    /\ holder' = [holder EXCEPT ![AppOf[c]] = NoValue]
    /\ UNCHANGED <<content, saved, result>>

Forget(c) ==
    /\ ~Holds(c)
    /\ saved' = [saved EXCEPT ![c] = NoValue]
    /\ UNCHANGED <<content, holder, result>>

Alter(s) ==
    /\ content' = [content EXCEPT ![s] = Edited]
    /\ UNCHANGED <<saved, holder, result>>

PromiseNext ==
    \/ \E c \in Changes :
          \/ Take(c) \/ Refuse(c) \/ Save(c) \/ Release(c) \/ Forget(c)
          \/ \E s \in Sources : Put(c, s) \/ GiveBack(c, s)
          \/ \E how \in {"completed", "rolled_back", "rollback_failed"} : Finish(c, how)
    \/ \E s \in Sources : Alter(s)

PromiseSpec == PromiseInit /\ [][PromiseNext]_promiseVars
======
