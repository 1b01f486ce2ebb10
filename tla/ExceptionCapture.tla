------ MODULE ExceptionCapture ------
(* Capturing an exception once: packages/telemetry-sdk/src
   exceptionCapture.ts (and its browser twin) behind the capture facade.
   The same Error object passes several handlers: inner ones defer
   (deferUntilHandled), an outer one reports it for good.  The maps are
   keyed by the object: its event id, whether it was handed to the
   reporter, and the capture deferred for it.  A report is in flight until
   its promise settles. *)
EXTENDS Integers, FiniteSets, FiniteSetsExt

CONSTANTS
    ErrorObjects,
    CaptureLevels,      \* levels as ranks: warning 0, error 1, fatal 2
    MaxCaptures, MaxReportFaults

ASSUME CaptureAssumption ==
    CaptureLevels \subseteq 0..2 /\ MaxCaptures \in Nat /\ MaxReportFaults \in Nat

VARIABLES
    eventIds,       \* the id of every object, 0 when it has none
    deliveredErrors,\* WeakSet delivered
    deferredCaptures,
    pendingCaptures,\* reports in flight
    captureCount,   \* captures made so far, which also number the new ids
    bound,          \* the facade has a runtime installed
    reports,        \* history: how often the report of each id succeeded
    reusable,       \* history: objects captured with allowFutureOccurrence
    reportFaults

captureVars == <<eventIds, deliveredErrors, deferredCaptures, pendingCaptures, captureCount,
                 bound, reports, reusable, reportFaults>>

CaptureInit ==
    /\ eventIds = [e \in ErrorObjects |-> 0] /\ deliveredErrors = {}
    /\ deferredCaptures = {} /\ pendingCaptures = {} /\ captureCount = 0 /\ bound = FALSE
    /\ reports = [id \in 1..MaxCaptures |-> 0] /\ reusable = {} /\ reportFaults = 0

\* A code is specific, or one of genericCodes.  Besides level and code a
\* context carries, as history, every level and code merged into it.
Context(level, generic) ==
    [level |-> level, generic |-> generic, levels |-> {level}, specific |-> ~generic]

\* mergeCaptureContext: the higher level, and no generic code over a specific one.
MergeCaptureContext(earlier, later) ==
    [level |-> Max({earlier.level, later.level}),
     generic |-> earlier.generic /\ later.generic,
     levels |-> earlier.levels \cup later.levels,
     specific |-> earlier.specific \/ later.specific]

\* Captures are about an occurrence: the object itself (nth 0), or one of its
\* secondary occurrences, whose key nobody can look up again.
Deferred(key) == {d \in deferredCaptures : d.key = key}

\* dispatchDeferredCapture for a set of captures.
Dispatch(captures) ==
    /\ deferredCaptures' = deferredCaptures \ captures
    /\ pendingCaptures' = pendingCaptures \cup captures

\* A capture that is distinct from the error it preserves, or that must be new
\* while the error is delivered or deferred, is a secondary occurrence.
IsSecondary(e, opts) ==
    \/ opts.distinct
    \/ opts.force /\ (e \in deliveredErrors \/ Deferred([of |-> e, nth |-> 0]) # {})
SecondaryOccurrenceKey(e) == [of |-> e, nth |-> captureCount + 1]

\* captureOnce, through a facade that has a runtime.
CaptureOnce(e, context, opts) ==
    LET secondary == IsSecondary(e, opts)
        key == IF secondary THEN SecondaryOccurrenceKey(e) ELSE [of |-> e, nth |-> 0]
        id == IF ~secondary /\ eventIds[e] # 0 THEN eventIds[e] ELSE captureCount + 1
        earlier == Deferred(key)
        merged == IF earlier = {} THEN context
                  ELSE MergeCaptureContext((CHOOSE d \in earlier : TRUE).context, context)
        capture == [key |-> key, id |-> id, context |-> merged]
    IN  /\ bound /\ captureCount < MaxCaptures
        /\ captureCount' = captureCount + 1
        /\ \/ /\ ~secondary /\ e \in deliveredErrors
              /\ eventIds' = [eventIds EXCEPT ![e] = id]
              /\ UNCHANGED <<deliveredErrors, deferredCaptures, pendingCaptures, reusable>>
           \/ /\ secondary \/ e \notin deliveredErrors
              /\ opts.defer
              /\ deferredCaptures' = (deferredCaptures \ earlier) \cup {capture}
              /\ eventIds' = IF secondary THEN eventIds ELSE [eventIds EXCEPT ![e] = id]
              /\ UNCHANGED <<deliveredErrors, pendingCaptures, reusable>>
           \/ /\ secondary \/ e \notin deliveredErrors
              /\ ~opts.defer
              /\ deferredCaptures' = deferredCaptures \ earlier
              /\ pendingCaptures' = pendingCaptures \cup {capture}
              /\ IF opts.future
                 THEN /\ eventIds' = [eventIds EXCEPT ![e] = 0]
                      /\ deliveredErrors' = deliveredErrors \ {e}
                      /\ reusable' = reusable \cup {e}
                 ELSE /\ eventIds' = IF secondary THEN eventIds ELSE [eventIds EXCEPT ![e] = id]
                      /\ deliveredErrors' = IF secondary THEN deliveredErrors ELSE deliveredErrors \cup {e}
                      /\ UNCHANGED reusable
        /\ UNCHANGED <<bound, reports, reportFaults>>

\* flush dispatches every deferred capture; it returns when nothing is pending.
Flush ==
    /\ deferredCaptures # {}
    /\ Dispatch(deferredCaptures)
    /\ deliveredErrors' = deliveredErrors \cup {d.key.of : d \in {x \in deferredCaptures : x.key.nth = 0}}
    /\ UNCHANGED <<eventIds, captureCount, bound, reports, reusable, reportFaults>>

\* The reporter stored the event, or failed: then the object may be captured again.
ReportSettles(d) ==
    /\ pendingCaptures' = pendingCaptures \ {d}
    /\ \/ /\ reports' = [reports EXCEPT ![d.id] = @ + 1]
          /\ UNCHANGED <<deliveredErrors, reportFaults>>
       \/ /\ reportFaults < MaxReportFaults /\ reportFaults' = reportFaults + 1
          /\ deliveredErrors' = IF d.key.nth = 0 THEN deliveredErrors \ {d.key.of} ELSE deliveredErrors
          /\ UNCHANGED reports
    /\ UNCHANGED <<eventIds, deferredCaptures, captureCount, bound, reusable>>

\* A runtime is installed in the facade, or disposed of; captures without one
\* are ignored.
Bind ==
    /\ ~bound /\ bound' = TRUE
    /\ UNCHANGED <<eventIds, deliveredErrors, deferredCaptures, pendingCaptures, captureCount,
                   reports, reusable, reportFaults>>

CaptureOptions ==
    {o \in [defer : BOOLEAN, force : BOOLEAN, distinct : BOOLEAN, future : BOOLEAN] :
        Cardinality({x \in DOMAIN o : o[x]}) <= 1}

CaptureNext ==
    \/ Bind \/ Flush
    \/ \E e \in ErrorObjects, level \in CaptureLevels, generic \in BOOLEAN, opts \in CaptureOptions :
        CaptureOnce(e, Context(level, generic), opts)
    \/ \E d \in pendingCaptures : ReportSettles(d)

CaptureSpec == CaptureInit /\ [][CaptureNext]_captureVars

-----
\* However many handlers capture an object, deferring or not, and although a
\* failed report may be repeated: an event id is stored at most once, except
\* for objects whose reuse was announced while a report could still fail.
ReportedOnce ==
    \A d \in deferredCaptures \cup pendingCaptures :
        d.key.of \notin reusable =>
            /\ reports[d.id] = 0
            /\ \A other \in (deferredCaptures \cup pendingCaptures) \ {d} : other.id # d.id

\* A report carries the highest level any of its handlers saw, and a generic
\* code only when no handler knew a specific one.
ContextIsMerged ==
    \A d \in deferredCaptures \cup pendingCaptures :
        /\ d.context.level = Max(d.context.levels)
        /\ d.context.generic = ~d.context.specific

CaptureIsSound == ReportedOnce /\ ContextIsMerged
======
