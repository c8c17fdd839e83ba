----------------------------- MODULE AdminPage ------------------------------
(***************************************************************************)
(* The admin page of web/src: tabs that load the plugin's settings into a  *)
(* form, and a Save that PATCHes the plugin and then PUTs the host's auth  *)
(* binding, without which the login button keeps its old name. Each of the *)
(* two may fail, or take effect and lose its answer; several tabs work on  *)
(* the same plugin; and a form is edited while its Save is on its way.     *)
(*                                                                         *)
(* The PATCH is one step here, module Lifecycle takes it apart. Of the     *)
(* settings, the display name, which the binding repeats (as it does the   *)
(* icon), and the client secret are kept apart from the rest.              *)
(***************************************************************************)
EXTENDS Integers

CONSTANTS
    Tabs,         \* browser tabs with the page open
    Names,        \* display names as they are typed
    Trim(_),      \* strings.TrimSpace, and trim() of the page
    Rests,        \* values of the other settings
    Refused,      \* those of them the plugin refuses
    Secrets,      \* client secrets an operator may type
    Installation, \* the installation id in the page's path, or None
    DefaultName,  \* settings of a new plugin
    DefaultRest,
    MaxEdits,     \* bound of the model: edits of all tabs
    None          \* no id, no data, no binding

ASSUME PageAssumption ==
    /\ "" \notin Secrets
    /\ Refused \subseteq Rests
    /\ DefaultName \in {Trim(n) : n \in Names}
    /\ DefaultRest \in Rests \ Refused
    /\ MaxEdits \in Nat
    /\ \A n \in Names : Trim(Trim(n)) = Trim(n)
    /\ None \notin [display_name : {Trim(n) : n \in Names}, rest : Rests,
                   has_client_secret : BOOLEAN]

VARIABLES
    plugin,    \* the plugin's live settings: display_name and the rest
    secret,    \* and its client secret
    binding,   \* the display name of the host's auth binding
    phase,     \* where each tab is: loading, ready, or at a call of its Save
    data,      \* the summary in its query cache
    form,      \* its form
    submitted, \* the form its Save has closed over
    failed,    \* whether the toast of its last Save was an error
    edits,     \* edits made so far
    accepted,  \* history: the display names the plugin has stored
    sent,      \* history: the secrets the plugin has stored from each tab since they
               \* were last typed there
    saved,     \* history: whether the last Save to end was a success
    torn       \* history: whether two Saves have overlapped

remote == <<plugin, secret, binding>>
tab == <<phase, data, form, submitted, failed>>
history == <<accepted, sent, saved, torn>>
vars == <<remote, tab, edits, history>>

Saving(t) == phase[t] \in {"patch", "put"}

-----------------------------------------------------------------------------

Blank == [display_name |-> "", rest |-> "", client_secret |-> ""]

Init ==
    /\ plugin = [display_name |-> DefaultName, rest |-> DefaultRest]
    /\ secret = ""
    /\ binding = None
    /\ phase = [t \in Tabs |-> "loading"]
    /\ data = [t \in Tabs |-> None]
    /\ form = [t \in Tabs |-> Blank]
    /\ submitted = [t \in Tabs |-> Blank]
    /\ failed = [t \in Tabs |-> FALSE]
    /\ edits = 0
    /\ accepted = {}
    /\ sent = [t \in Tabs |-> {}]
    /\ saved = FALSE
    /\ torn = FALSE

\* What config-summary answers: the secret is never told, only that there is one.
Summary == [display_name |-> plugin.display_name, rest |-> plugin.rest,
            has_client_secret |-> secret # ""]

\* The summary arrives. The effect on cfgQ.data fills the form if the data has
\* changed: React Query keeps the old object when the new one equals it.
Receive(t) ==
    /\ data' = [data EXCEPT ![t] = Summary]
    /\ form' = IF Summary = data[t] THEN form
               ELSE [form EXCEPT ![t] = [display_name |-> plugin.display_name,
                                         rest |-> plugin.rest, client_secret |-> ""]]

\* Until the first summary is there the page is a skeleton.
Load(t) ==
    /\ phase[t] = "loading"
    /\ Receive(t)
    /\ phase' = [phase EXCEPT ![t] = "ready"]
    /\ UNCHANGED <<remote, submitted, failed, edits, history>>

\* The summary is fetched again: because a Save has invalidated it, or because the
\* browser is back on line and the summary is old. That may be at any time; a fetch
\* that fails leaves the cache as it is.
Refetch(t) ==
    /\ phase[t] # "loading"
    /\ Receive(t)
    /\ UNCHANGED <<remote, phase, submitted, failed, edits, history>>

\* The operator changes a field, also while a Save is on its way.
Edit(t, field, value) ==
    /\ phase[t] # "loading"
    /\ edits < MaxEdits
    /\ edits' = edits + 1
    /\ form[t][field] # value
    /\ form' = [form EXCEPT ![t][field] = value]
    /\ sent' = IF field = "client_secret" THEN [sent EXCEPT ![t] = @ \ {value}] ELSE sent
    /\ UNCHANGED <<remote, phase, data, submitted, failed, accepted, saved, torn>>

-----------------------------------------------------------------------------
(* Save. Its button is disabled while a Save is pending. *)

Save(t) ==
    /\ phase[t] = "ready"
    /\ submitted' = [submitted EXCEPT ![t] = form[t]]
    /\ phase' = [phase EXCEPT ![t] = "patch"]
    /\ torn' = (torn \/ \E u \in Tabs \ {t} : Saving(u))
    /\ UNCHANGED <<remote, data, form, failed, edits, accepted, sent, saved>>

\* The Save has ended, and what it closed over is gone.
Ended(t, success) ==
    /\ phase' = [phase EXCEPT ![t] = "ready"]
    /\ submitted' = [submitted EXCEPT ![t] = Blank]
    /\ failed' = [failed EXCEPT ![t] = ~success]
    /\ saved' = success

\* onError
Failed(t) == Ended(t, FALSE) /\ UNCHANGED <<data, form>>

\* Mutant: the form keeps the secret that was saved.
SucceededKeepingSecret(t) == Ended(t, TRUE) /\ UNCHANGED <<data, form>>

\* onSuccess: the secret leaves the form. The summary is invalidated, see Refetch.
Succeeded(t) ==
    /\ Ended(t, TRUE)
    /\ form' = [form EXCEPT ![t].client_secret = ""]
    /\ UNCHANGED data

\* The plugin stores what was submitted. The body has every setting but an empty
\* secret, so that only the secret survives from what another tab has saved.
Patched(t) ==
    /\ submitted[t].rest \notin Refused
    /\ plugin' = [display_name |-> Trim(submitted[t].display_name),
                  rest |-> submitted[t].rest]
    /\ secret' = IF submitted[t].client_secret = "" THEN secret
                 ELSE submitted[t].client_secret
    /\ accepted' = accepted \cup {plugin'.display_name}
    /\ sent' = [sent EXCEPT ![t] = @ \cup ({submitted[t].client_secret} \ {""})]

PatchOK(t) ==
    /\ phase[t] = "patch"
    /\ Patched(t)
    /\ IF Installation = None
       THEN Succeeded(t)
       ELSE /\ phase' = [phase EXCEPT ![t] = "put"]
            /\ UNCHANGED <<submitted, data, form, failed, saved>>
    /\ UNCHANGED <<binding, edits, torn>>

\* Mutant: the binding is put although the PATCH has failed.
PatchFailedGoesOn(t) ==
    /\ phase[t] = "patch"
    /\ phase' = [phase EXCEPT ![t] = "put"]
    /\ UNCHANGED <<remote, data, form, submitted, failed, edits, history>>

\* The plugin refuses, or cannot be reached, or its answer is lost.
PatchFailed(t) ==
    /\ phase[t] = "patch"
    /\ Failed(t)
    /\ Patched(t) \/ UNCHANGED <<plugin, secret, accepted, sent>>
    /\ UNCHANGED <<binding, edits, torn>>

\* Mutant: the name is taken from the form as it is by now.
BoundLive(t) == binding' = Trim(form[t].display_name)

\* Mutant: the name is bound as it was typed.
BoundVerbatim(t) == binding' = submitted[t].display_name

Bound(t) == binding' = Trim(submitted[t].display_name)

PutOK(t) ==
    /\ phase[t] = "put"
    /\ Bound(t)
    /\ Succeeded(t)
    /\ UNCHANGED <<plugin, secret, edits, accepted, sent, torn>>

\* Mutant: a failed PUT is not reported.
PutFailedSilently(t) ==
    /\ phase[t] = "put"
    /\ Succeeded(t)
    /\ Bound(t) \/ UNCHANGED binding
    /\ UNCHANGED <<plugin, secret, edits, accepted, sent, torn>>

PutFailed(t) ==
    /\ phase[t] = "put"
    /\ Failed(t)
    /\ Bound(t) \/ UNCHANGED binding
    /\ UNCHANGED <<plugin, secret, edits, accepted, sent, torn>>

-----------------------------------------------------------------------------

Typing(t) ==
    \/ \E n \in Names : Edit(t, "display_name", n)
    \/ \E v \in Rests : Edit(t, "rest", v)
    \/ \E s \in Secrets : Edit(t, "client_secret", s)

Next ==
    \E t \in Tabs :
        \/ Load(t) \/ Refetch(t)
        \/ Typing(t)
        \/ Save(t)
        \/ PatchOK(t) \/ PatchFailed(t)
        \/ PutOK(t) \/ PutFailed(t)

\* A call ends, well or badly. Calls do not fail for ever, and an operator who is
\* told of an error saves again.
Fairness ==
    \A t \in Tabs :
        /\ WF_vars(PatchFailed(t) \/ PatchOK(t))
        /\ WF_vars(PutFailed(t) \/ PutOK(t))
        /\ SF_vars(PatchOK(t))
        /\ SF_vars(PutOK(t))
        /\ WF_vars(failed[t] /\ Save(t))

Spec == Init /\ [][Next]_vars /\ Fairness

-----------------------------------------------------------------------------
(* Correctness *)

Form == [display_name : Names \cup {Trim(n) : n \in Names} \cup {""},
         rest : Rests \cup {""}, client_secret : Secrets \cup {""}]

\* Type invariant of the plugin's settings, the binding and the tabs.
TypeOK ==
    /\ plugin \in [display_name : {Trim(n) : n \in Names}, rest : Rests \ Refused]
    /\ secret \in Secrets \cup {""}
    /\ binding \in {Trim(n) : n \in Names} \cup {None}
    /\ phase \in [Tabs -> {"loading", "ready", "patch", "put"}]
    /\ form \in [Tabs -> Form]
    /\ submitted \in [Tabs -> Form]
    /\ failed \in [Tabs -> BOOLEAN]

Agree == binding = plugin.display_name

\* The host's login button never carries a name the plugin has not stored: a
\* refused or failed PATCH, of any tab, leaves the binding alone.
BindingWasStored == binding # None => binding \in accepted

\* When the last Save to end was reported as saved, and no two Saves have
\* overlapped, plugin and host agree on the name, whatever has been typed since
\* and however many Saves had failed half-way before.
SavedMeansAgreed ==
    /\ Installation # None
    /\ saved /\ ~torn
    /\ \A t \in Tabs : ~Saving(t)
    => Agree

\* The plugin's secret changes only to one that a tab has submitted and, if that tab
\* has had it stored before and it was not typed again, only where the tab was told
\* that its last Save failed. So a secret whose Save was reported as saved does not
\* come back to undo what another tab has set since, and none clears it. A retry
\* after an error does send the secret again, over a rotation made meanwhile.
SecretResentOnlyAfterError ==
    [][secret' # secret =>
          \E t \in Tabs :
              /\ secret' = submitted[t].client_secret
              /\ secret' # ""
              /\ secret' \in sent[t] => failed[t]]_vars

\* Once the plugin has stored a name, plugin and host come to agree, over lost
\* answers and half-done Saves: the error is reported and saving again repeats
\* both halves. Two Saves that overlap may undo it, and a form left with refused
\* settings stops it.
HostCatchesUp ==
    (\A t \in Tabs : <>[](form[t].rest \notin Refused)) =>
        (accepted # {} ~> (Agree \/ torn))

=============================================================================
