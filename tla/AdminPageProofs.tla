-------------------------- MODULE AdminPageProofs ---------------------------
(***************************************************************************)
(* Proofs about module AdminPage, for any number of tabs, any names and    *)
(* settings, and whether or not the page knows its installation.           *)
(***************************************************************************)
EXTENDS AdminPage, TLAPS

Trimmed == {Trim(n) : n \in Names}

\* A form that a summary has filled and an operator may have edited.
Filled == [display_name : Names \cup Trimmed, rest : Rests,
           client_secret : Secrets \cup {""}]

Summaries == [display_name : Trimmed, rest : Rests, has_client_secret : BOOLEAN]

\* Why the plugin stores only names and settings of the model: the first summary
\* differs from the empty cache and fills the form, which can be saved only then.
FillInv ==
    /\ data \in [Tabs -> Summaries \cup {None}]
    /\ \A t \in Tabs : phase[t] = "loading" => data[t] = None
    /\ \A t \in Tabs : phase[t] # "loading" => form[t] \in Filled
    /\ \A t \in Tabs : Saving(t) => submitted[t] \in Filled

TypeInv == TypeOK /\ FillInv

\* A tab that puts the binding has seen its own name stored.
PutStored ==
    \A t \in Tabs : phase[t] = "put" => Trim(submitted[t].display_name) \in accepted

StoredInv == BindingWasStored /\ PutStored

\* Without overlap one tab saves at a time, and while it puts the binding the
\* plugin still holds the name it has stored.
OneSaves ==
    ~torn => /\ \A t, u \in Tabs : Saving(t) /\ Saving(u) => t = u
             /\ \A t \in Tabs : phase[t] = "put" =>
                    plugin.display_name = Trim(submitted[t].display_name)

AgreeInv == OneSaves /\ SavedMeansAgreed

\* A tab that holds a secret it has had stored is still at that Save, or was told
\* that it failed; and so was one that sends it once more.
SecretInv ==
    /\ sent \in [Tabs -> SUBSET Secrets]
    /\ \A t \in Tabs :
          form[t].client_secret \in sent[t] => failed[t] \/ phase[t] = "put"
    /\ \A t \in Tabs :
          phase[t] = "patch" /\ submitted[t].client_secret \in sent[t] => failed[t]

-----------------------------------------------------------------------------
(* Type correctness *)

LEMMA TrimAgain == \A n \in Names \cup Trimmed : Trim(n) \in Trimmed
BY PageAssumption DEF PageAssumption, Trimmed

LEMMA FilledIsForm == Filled \subseteq Form /\ Blank \in Form
BY DEF Filled, Form, Trimmed, Blank

LEMMA SummaryType == TypeOK => Summary \in Summaries /\ Summary # None
<1>1. TypeOK => Summary \in Summaries
  BY DEF TypeOK, Summary, Summaries, Trimmed
<1>2. None \notin Summaries
  BY PageAssumption DEF PageAssumption, Summaries, Trimmed
<1>3. QED
  BY <1>1, <1>2

\* Receiving a summary leaves a filled form: a form that was not yet filled is
\* filled, because the cache was empty.
LEMMA ReceiveFills ==
    ASSUME TypeInv, NEW t \in Tabs, Receive(t)
    PROVE  /\ data' \in [Tabs -> Summaries \cup {None}]
           /\ form' \in [Tabs -> Form]
           /\ form'[t] \in Filled
           /\ \A u \in Tabs \ {t} : data'[u] = data[u] /\ form'[u] = form[u]
<1> DEFINE f == [display_name |-> plugin.display_name, rest |-> plugin.rest,
                 client_secret |-> ""]
<1>1. f \in Filled
  BY DEF TypeInv, TypeOK, Filled, Trimmed
<1>2. data' = [data EXCEPT ![t] = Summary] /\ Summary \in Summaries /\ Summary # None
  BY SummaryType DEF Receive, TypeInv
<1>3. data \in [Tabs -> Summaries \cup {None}] /\ form \in [Tabs -> Form]
  BY DEF TypeInv, TypeOK, FillInv
<1>4. CASE Summary = data[t]
  <2>1. form' = form
    BY <1>4 DEF Receive
  <2>2. form[t] \in Filled
    BY <1>2, <1>4 DEF TypeInv, FillInv
  <2>3. QED
    BY <1>2, <1>3, <2>1, <2>2
<1>5. CASE Summary # data[t]
  <2>1. form' = [form EXCEPT ![t] = f]
    BY <1>5 DEF Receive
  <2>2. f \in Form
    BY <1>1, FilledIsForm
  <2>3. QED
    BY <1>1, <1>2, <1>3, <2>1, <2>2
<1>6. QED
  BY <1>4, <1>5

LEMMA EditFills ==
    ASSUME TypeInv, NEW t \in Tabs, Typing(t)
    PROVE  /\ form' \in [Tabs -> Form]
           /\ form'[t] \in Filled
           /\ \A u \in Tabs \ {t} : form'[u] = form[u]
           /\ phase[t] # "loading"
           /\ UNCHANGED <<remote, phase, data, submitted, failed, accepted, saved, torn>>
<1>1. phase[t] # "loading"
  BY DEF Typing, Edit
<1>2. form \in [Tabs -> Form] /\ form[t] \in Filled
  BY <1>1 DEF TypeInv, TypeOK, FillInv
<1>3. PICK g : form' = [form EXCEPT ![t] = g] /\ g \in Filled
  <2>1. CASE \E n \in Names : Edit(t, "display_name", n)
    BY <1>2, <2>1 DEF Edit, Filled
  <2>2. CASE \E v \in Rests : Edit(t, "rest", v)
    BY <1>2, <2>2 DEF Edit, Filled
  <2>3. CASE \E s \in Secrets : Edit(t, "client_secret", s)
    BY <1>2, <2>3 DEF Edit, Filled
  <2>4. QED
    BY <2>1, <2>2, <2>3 DEF Typing
<1>4. g \in Form
  BY <1>3, FilledIsForm
<1>5. UNCHANGED <<remote, phase, data, submitted, failed, accepted, saved, torn>>
  BY DEF Typing, Edit
<1>6. QED
  BY <1>1, <1>2, <1>3, <1>4, <1>5

\* What the plugin stores is of its types, because it comes from a filled form.
LEMMA PatchedType ==
    ASSUME TypeInv, NEW t \in Tabs, Saving(t), Patched(t)
    PROVE  /\ plugin' \in [display_name : Trimmed, rest : Rests \ Refused]
           /\ secret' \in Secrets \cup {""}
<1>1. submitted[t] \in Filled
  BY DEF TypeInv, FillInv
<1>2. Trim(submitted[t].display_name) \in Trimmed
  BY <1>1, TrimAgain DEF Filled
<1>3. QED
  BY <1>1, <1>2 DEF TypeInv, TypeOK, Patched, Filled

LEMMA EndedType ==
    ASSUME TypeInv, NEW t \in Tabs, Saving(t), NEW b \in BOOLEAN, Ended(t, b)
    PROVE  /\ phase' \in [Tabs -> {"loading", "ready", "patch", "put"}]
           /\ submitted' \in [Tabs -> Form]
           /\ failed' \in [Tabs -> BOOLEAN]
           /\ phase'[t] = "ready" /\ phase[t] # "loading"
           /\ \A u \in Tabs \ {t} : phase'[u] = phase[u] /\ submitted'[u] = submitted[u]
BY FilledIsForm DEF TypeInv, TypeOK, Ended, Saving

\* A Save that ends, well or badly, leaves the tab with a filled form.
LEMMA EndType ==
    ASSUME TypeInv, NEW t \in Tabs, Saving(t), Succeeded(t) \/ Failed(t)
    PROVE  /\ phase' \in [Tabs -> {"loading", "ready", "patch", "put"}]
           /\ form' \in [Tabs -> Form]
           /\ submitted' \in [Tabs -> Form]
           /\ failed' \in [Tabs -> BOOLEAN]
           /\ FillInv'
<1>1. form \in [Tabs -> Form] /\ form[t] \in Filled
  BY DEF TypeInv, TypeOK, FillInv, Saving
<1>2. /\ phase' \in [Tabs -> {"loading", "ready", "patch", "put"}]
      /\ submitted' \in [Tabs -> Form]
      /\ failed' \in [Tabs -> BOOLEAN]
      /\ phase'[t] = "ready" /\ phase[t] # "loading"
      /\ \A u \in Tabs \ {t} : phase'[u] = phase[u] /\ submitted'[u] = submitted[u]
  BY EndedType DEF Succeeded, Failed
<1>3. /\ form' \in [Tabs -> Form] /\ form'[t] \in Filled
      /\ data' = data
      /\ \A u \in Tabs \ {t} : form'[u] = form[u]
  <2>1. CASE Failed(t)
    BY <1>1, <2>1 DEF Failed
  <2>2. CASE Succeeded(t)
    <3> DEFINE g == [form[t] EXCEPT !.client_secret = ""]
    <3>1. form' = [form EXCEPT ![t] = g] /\ g \in Filled
      <4>1. form' = [form EXCEPT ![t] = g]
        BY <2>2 DEF Succeeded
      <4>2. g \in Filled
        BY <1>1 DEF Filled
      <4>3. QED
        BY <4>1, <4>2
    <3>2. g \in Form
      BY <3>1, FilledIsForm
    <3>3. data' = data
      BY <2>2 DEF Succeeded
    <3>4. QED
      BY <1>1, <3>1, <3>2, <3>3
  <2>3. QED
    BY <2>1, <2>2
<1>4. FillInv'
  <2>1. \A u \in Tabs : phase'[u] = "loading" => data'[u] = None
    BY <1>2, <1>3 DEF TypeInv, FillInv
  <2>2. \A u \in Tabs : phase'[u] # "loading" => form'[u] \in Filled
    BY <1>2, <1>3 DEF TypeInv, FillInv
  <2>3. \A u \in Tabs : Saving(u)' => submitted'[u] \in Filled
    BY <1>2 DEF TypeInv, FillInv, Saving
  <2>4. QED
    BY <1>3, <2>1, <2>2, <2>3 DEF TypeInv, FillInv
<1>5. QED
  BY <1>2, <1>3, <1>4

LEMMA TypeInit == Init => TypeInv
<1> SUFFICES ASSUME Init PROVE TypeInv
  OBVIOUS
<1>1. TypeOK
  BY FilledIsForm, PageAssumption DEF Init, TypeOK, PageAssumption
<1>2. FillInv
  BY DEF Init, FillInv, Saving
<1>3. QED
  BY <1>1, <1>2 DEF TypeInv

LEMMA TypeStep == TypeInv /\ [Next]_vars => TypeInv'
<1> SUFFICES ASSUME TypeInv, [Next]_vars PROVE TypeInv'
  OBVIOUS
<1> USE DEF remote, tab, history
<1>1. ASSUME NEW t \in Tabs, Load(t) PROVE TypeInv'
  <2>1. /\ data' \in [Tabs -> Summaries \cup {None}]
        /\ form' \in [Tabs -> Form]
        /\ form'[t] \in Filled
        /\ \A u \in Tabs \ {t} : data'[u] = data[u] /\ form'[u] = form[u]
    BY <1>1, ReceiveFills DEF Load
  <2>2. TypeOK'
    BY <1>1, <2>1 DEF Load, TypeInv, TypeOK
  <2>3. FillInv'
    BY <1>1, <2>1 DEF Load, TypeInv, TypeOK, FillInv, Saving
  <2>4. QED
    BY <2>2, <2>3 DEF TypeInv
<1>2. ASSUME NEW t \in Tabs, Refetch(t) PROVE TypeInv'
  <2>1. phase[t] # "loading"
    BY <1>2 DEF Refetch
  <2>2. /\ data' \in [Tabs -> Summaries \cup {None}]
        /\ form' \in [Tabs -> Form]
        /\ form'[t] \in Filled
        /\ \A u \in Tabs \ {t} : data'[u] = data[u] /\ form'[u] = form[u]
    BY <1>2, ReceiveFills DEF Refetch
  <2>3. TypeOK'
    BY <1>2, <2>2 DEF Refetch, TypeInv, TypeOK
  <2>4. FillInv'
    BY <1>2, <2>1, <2>2 DEF Refetch, TypeInv, TypeOK, FillInv, Saving
  <2>5. QED
    BY <2>3, <2>4 DEF TypeInv
<1>3. ASSUME NEW t \in Tabs, Typing(t) PROVE TypeInv'
  <2>1. /\ form' \in [Tabs -> Form]
        /\ form'[t] \in Filled
        /\ \A u \in Tabs \ {t} : form'[u] = form[u]
        /\ UNCHANGED <<remote, phase, data, submitted, failed, accepted, saved, torn>>
    BY <1>3, EditFills
  <2>2. TypeOK'
    BY <2>1 DEF TypeInv, TypeOK
  <2>3. FillInv'
    BY <2>1 DEF TypeInv, FillInv, Saving
  <2>4. QED
    BY <2>2, <2>3 DEF TypeInv
<1>4. ASSUME NEW t \in Tabs, Save(t) PROVE TypeInv'
  <2>1. form[t] \in Filled
    BY <1>4 DEF Save, TypeInv, FillInv
  <2>2. TypeOK'
    BY <1>4 DEF Save, TypeInv, TypeOK
  <2>3. FillInv'
    BY <1>4, <2>1 DEF Save, TypeInv, TypeOK, FillInv, Saving
  <2>4. QED
    BY <2>2, <2>3 DEF TypeInv
<1>5. ASSUME NEW t \in Tabs, PatchOK(t) PROVE TypeInv'
  <2>1. /\ plugin' \in [display_name : Trimmed, rest : Rests \ Refused]
        /\ secret' \in Secrets \cup {""}
        /\ Saving(t) /\ binding' = binding
    BY <1>5, PatchedType DEF PatchOK, Saving
  <2>2. CASE Installation = None
    BY <1>5, <2>1, <2>2, EndType DEF PatchOK, TypeInv, TypeOK, Trimmed
  <2>3. CASE Installation # None
    <3>1. /\ phase' = [phase EXCEPT ![t] = "put"]
          /\ UNCHANGED <<submitted, data, form, failed>>
      BY <1>5, <2>3 DEF PatchOK
    <3>2. TypeOK'
      BY <2>1, <3>1 DEF TypeInv, TypeOK, Trimmed
    <3>3. FillInv'
      BY <1>5, <3>1 DEF PatchOK, TypeInv, TypeOK, FillInv, Saving
    <3>4. QED
      BY <3>2, <3>3 DEF TypeInv
  <2>4. QED
    BY <2>2, <2>3
<1>6. ASSUME NEW t \in Tabs, PatchFailed(t) PROVE TypeInv'
  <2>1. Saving(t) /\ Failed(t) /\ binding' = binding
    BY <1>6 DEF PatchFailed, Saving
  <2>2. /\ plugin' \in [display_name : Trimmed, rest : Rests \ Refused]
        /\ secret' \in Secrets \cup {""}
    <3>1. CASE Patched(t)
      BY <2>1, <3>1, PatchedType
    <3>2. CASE UNCHANGED <<plugin, secret, accepted, sent>>
      BY <3>2 DEF TypeInv, TypeOK, Trimmed
    <3>3. QED
      BY <1>6, <3>1, <3>2 DEF PatchFailed
  <2>3. QED
    BY <2>1, <2>2, EndType DEF TypeInv, TypeOK, Trimmed
<1>7. ASSUME NEW t \in Tabs, PutOK(t) \/ PutFailed(t) PROVE TypeInv'
  <2>1. Saving(t) /\ (Succeeded(t) \/ Failed(t)) /\ UNCHANGED <<plugin, secret>>
    BY <1>7 DEF PutOK, PutFailed, Saving
  <2>2. binding' \in Trimmed \cup {None}
    <3>1. Trim(submitted[t].display_name) \in Trimmed
      BY <2>1, TrimAgain DEF TypeInv, FillInv, Filled
    <3>2. QED
      BY <1>7, <3>1 DEF PutOK, PutFailed, Bound, TypeInv, TypeOK, Trimmed
  <2>3. QED
    BY <2>1, <2>2, EndType DEF TypeInv, TypeOK, Trimmed
<1>8. CASE UNCHANGED vars
  BY <1>8 DEF vars, TypeInv, TypeOK, FillInv, Saving
<1>9. QED
  BY <1>1, <1>2, <1>3, <1>4, <1>5, <1>6, <1>7, <1>8 DEF Next

\* Whatever the tabs do and however their calls end, the plugin holds settings it
\* accepts and a name without blanks around it: a form is never saved before a
\* summary has filled it.
THEOREM TypeCorrect == Spec => []TypeOK
<1>1. TypeInv => TypeOK
  BY DEF TypeInv
<1>2. QED
  BY <1>1, TypeInit, TypeStep, PTL DEF Spec

-----------------------------------------------------------------------------
(* What a Save does to phase and to what was submitted, whatever comes of it. *)

\* A tab reaches the PUT only by a PATCH of its own that was answered; all that is
\* submitted stays as it is until that Save ends.
LEMMA StepOfPhase ==
    ASSUME TypeInv, [Next]_vars
    PROVE  \A t \in Tabs : phase'[t] = "put" =>
              /\ submitted'[t] = submitted[t]
              /\ \/ phase[t] = "put"
                 \/ PatchOK(t) /\ Installation # None
<1> USE DEF remote, tab, history, TypeInv, TypeOK
<1> SUFFICES ASSUME NEW t \in Tabs, phase'[t] = "put"
             PROVE  /\ submitted'[t] = submitted[t]
                    /\ phase[t] = "put" \/ (PatchOK(t) /\ Installation # None)
  OBVIOUS
<1>1. ASSUME NEW u \in Tabs, Load(u) \/ Refetch(u) \/ Typing(u) \/ Save(u)
      PROVE  submitted'[t] = submitted[t] /\ phase[t] = "put"
  BY <1>1 DEF Load, Refetch, Typing, Edit, Save
<1>2. ASSUME NEW u \in Tabs, PatchFailed(u) \/ PutOK(u) \/ PutFailed(u)
      PROVE  submitted'[t] = submitted[t] /\ phase[t] = "put"
  BY <1>2 DEF PatchFailed, PutOK, PutFailed, Succeeded, Failed, Ended
<1>3. ASSUME NEW u \in Tabs, PatchOK(u)
      PROVE  /\ submitted'[t] = submitted[t]
             /\ phase[t] = "put" \/ (PatchOK(t) /\ Installation # None)
  <2>1. CASE Installation = None
    BY <1>3, <2>1 DEF PatchOK, Succeeded, Ended
  <2>2. CASE Installation # None
    <3>1. phase' = [phase EXCEPT ![u] = "put"] /\ submitted' = submitted
      BY <1>3, <2>2 DEF PatchOK
    <3>2. QED
      BY <1>3, <2>2, <3>1
  <2>3. QED
    BY <2>1, <2>2
<1>4. CASE UNCHANGED vars
  BY <1>4 DEF vars
<1>5. QED
  BY <1>1, <1>2, <1>3, <1>4 DEF Next

-----------------------------------------------------------------------------
(* The binding *)

LEMMA StoredStep == TypeInv /\ StoredInv /\ [Next]_vars => StoredInv'
<1> SUFFICES ASSUME TypeInv, StoredInv, [Next]_vars PROVE StoredInv'
  OBVIOUS
<1> USE DEF remote, tab, history
<1>1. accepted \subseteq accepted'
  <2>1. ASSUME NEW t \in Tabs, PatchOK(t) \/ PatchFailed(t)
        PROVE  accepted \subseteq accepted'
    BY <2>1 DEF PatchOK, PatchFailed, Patched
  <2>2. ASSUME NEW t \in Tabs,
               \/ Load(t) \/ Refetch(t) \/ Typing(t) \/ Save(t)
               \/ PutOK(t) \/ PutFailed(t)
        PROVE  accepted \subseteq accepted'
    BY <2>2 DEF Load, Refetch, Typing, Edit, Save, PutOK, PutFailed
  <2>3. QED
    BY <2>1, <2>2 DEF Next, vars
<1>2. PutStored'
  <2> SUFFICES ASSUME NEW t \in Tabs, phase'[t] = "put"
               PROVE  Trim(submitted'[t].display_name) \in accepted'
    BY DEF PutStored
  <2>1. submitted'[t] = submitted[t]
    BY StepOfPhase
  <2>2. CASE phase[t] = "put"
    BY <1>1, <2>1, <2>2 DEF StoredInv, PutStored
  <2>3. CASE PatchOK(t)
    BY <2>1, <2>3 DEF PatchOK, Patched
  <2>4. QED
    BY <2>2, <2>3, StepOfPhase
<1>3. BindingWasStored'
  <2>1. CASE binding' = binding
    BY <1>1, <2>1 DEF StoredInv, BindingWasStored
  <2>2. ASSUME NEW t \in Tabs, phase[t] = "put", Bound(t) PROVE BindingWasStored'
    BY <1>1, <2>2 DEF StoredInv, PutStored, Bound, BindingWasStored
  <2>3. \/ binding' = binding
        \/ \E t \in Tabs : phase[t] = "put" /\ Bound(t)
    <3>1. ASSUME NEW t \in Tabs, PutOK(t) \/ PutFailed(t)
          PROVE  binding' = binding \/ (phase[t] = "put" /\ Bound(t))
      BY <3>1 DEF PutOK, PutFailed
    <3>2. ASSUME NEW t \in Tabs,
                 \/ Load(t) \/ Refetch(t) \/ Typing(t) \/ Save(t)
                 \/ PatchOK(t) \/ PatchFailed(t)
          PROVE  binding' = binding
      BY <3>2 DEF Load, Refetch, Typing, Edit, Save, PatchOK, PatchFailed
    <3>3. QED
      BY <3>1, <3>2 DEF Next, vars
  <2>4. QED
    BY <2>1, <2>2, <2>3
<1>4. QED
  BY <1>2, <1>3 DEF StoredInv

\* The host's login button never carries a name the plugin has not stored: the
\* PUT repeats what the same Save has seen accepted, not the form as it is by then.
THEOREM BoundNamesAreStored == Spec => []BindingWasStored
<1>1. Init => StoredInv
  BY DEF Init, StoredInv, BindingWasStored, PutStored
<1>2. StoredInv => BindingWasStored
  BY DEF StoredInv
<1>3. QED
  BY <1>1, <1>2, TypeInit, TypeStep, StoredStep, PTL DEF Spec

-----------------------------------------------------------------------------
(* Agreement of plugin and host *)

LEMMA OneSavesStep == TypeInv /\ OneSaves /\ [Next]_vars => OneSaves'
<1> SUFFICES ASSUME TypeInv, OneSaves, [Next]_vars, ~torn' PROVE OneSaves'
  BY DEF OneSaves
<1> USE DEF remote, tab, history
<1>1. ~torn
  <2>1. ASSUME NEW t \in Tabs, Save(t) PROVE ~torn
    BY <2>1 DEF Save
  <2>2. ASSUME NEW t \in Tabs,
               \/ Load(t) \/ Refetch(t) \/ Typing(t)
               \/ PatchOK(t) \/ PatchFailed(t) \/ PutOK(t) \/ PutFailed(t)
        PROVE  torn' = torn
    BY <2>2 DEF Load, Refetch, Typing, Edit, PatchOK, PatchFailed, PutOK, PutFailed
  <2>3. QED
    BY <2>1, <2>2 DEF Next, vars
<1>2. \A t, u \in Tabs : Saving(t) /\ Saving(u) => t = u
  BY <1>1 DEF OneSaves
<1>3. \A t, u \in Tabs : Saving(t)' /\ Saving(u)' => t = u
  <2>1. ASSUME NEW t \in Tabs, Save(t)
        PROVE  \A u, w \in Tabs : Saving(u)' /\ Saving(w)' => u = w
    <3>1. \A u \in Tabs \ {t} : ~Saving(u)
      BY <2>1 DEF Save
    <3>2. \A u \in Tabs \ {t} : ~Saving(u)'
      BY <2>1, <3>1 DEF Save, Saving, TypeInv, TypeOK
    <3>3. QED
      BY <3>2
  <2>2. ASSUME NEW t \in Tabs, Load(t)
        PROVE  \A u \in Tabs : Saving(u)' => Saving(u)
    BY <2>2 DEF Load, Saving, TypeInv, TypeOK
  <2>3. ASSUME NEW t \in Tabs, Refetch(t) \/ Typing(t)
        PROVE  \A u \in Tabs : Saving(u)' => Saving(u)
    BY <2>3 DEF Refetch, Typing, Edit, Saving
  <2>4. ASSUME NEW t \in Tabs, PatchOK(t)
        PROVE  \A u \in Tabs : Saving(u)' => Saving(u)
    BY <2>4 DEF PatchOK, Succeeded, Ended, Saving, TypeInv, TypeOK
  <2>5. ASSUME NEW t \in Tabs, PatchFailed(t) \/ PutOK(t) \/ PutFailed(t)
        PROVE  \A u \in Tabs : Saving(u)' => Saving(u)
    BY <2>5 DEF PatchFailed, PutOK, PutFailed, Succeeded, Failed, Ended, Saving,
                TypeInv, TypeOK
  <2>6. CASE UNCHANGED vars
    BY <1>2, <2>6 DEF vars, Saving
  <2>7. QED
    BY <1>2, <2>1, <2>2, <2>3, <2>4, <2>5, <2>6 DEF Next
<1>4. ASSUME NEW t \in Tabs, phase'[t] = "put"
      PROVE  plugin'.display_name = Trim(submitted'[t].display_name)
  <2>1. /\ submitted'[t] = submitted[t]
        /\ phase[t] = "put" \/ PatchOK(t)
    BY <1>4, StepOfPhase
  <2>2. CASE PatchOK(t)
    BY <2>1, <2>2 DEF PatchOK, Patched
  <2>3. CASE phase[t] = "put"
    <3>1. \A u \in Tabs : phase[u] # "patch"
      BY <1>2, <2>3 DEF Saving
    <3>2. plugin' = plugin
      <4>1. ASSUME NEW u \in Tabs,
                   \/ Load(u) \/ Refetch(u) \/ Typing(u) \/ Save(u)
                   \/ PutOK(u) \/ PutFailed(u)
            PROVE  plugin' = plugin
        BY <4>1 DEF Load, Refetch, Typing, Edit, Save, PutOK, PutFailed
      <4>2. ASSUME NEW u \in Tabs PROVE ~PatchOK(u) /\ ~PatchFailed(u)
        BY <3>1 DEF PatchOK, PatchFailed
      <4>3. QED
        BY <4>1, <4>2 DEF Next, vars
    <3>3. QED
      BY <1>1, <2>1, <2>3, <3>2 DEF OneSaves
  <2>4. QED
    BY <2>1, <2>2, <2>3
<1>5. QED
  BY <1>3, <1>4 DEF OneSaves

\* Only the end of a Save can establish agreement or be asked for it; a successful
\* one has just bound the name that the plugin holds.
LEMMA AgreeStep == TypeInv /\ AgreeInv /\ [Next]_vars => SavedMeansAgreed'
<1> SUFFICES ASSUME TypeInv, AgreeInv, [Next]_vars,
                    Installation # None, saved', ~torn',
                    \A t \in Tabs : ~Saving(t)'
             PROVE  Agree'
  BY DEF SavedMeansAgreed
<1> USE DEF remote, tab, history
<1>1. ASSUME NEW t \in Tabs, PutOK(t) PROVE Agree'
  <2>1. ~torn /\ phase[t] = "put"
    BY <1>1 DEF PutOK
  <2>2. plugin.display_name = Trim(submitted[t].display_name)
    BY <2>1 DEF AgreeInv, OneSaves
  <2>3. QED
    BY <1>1, <2>2 DEF PutOK, Bound, Agree
<1>2. ASSUME NEW t \in Tabs, PatchFailed(t) \/ PutFailed(t) PROVE FALSE
  BY <1>2 DEF PatchFailed, PutFailed, Failed, Ended
<1>3. ASSUME NEW t \in Tabs, Save(t) PROVE FALSE
  BY <1>3 DEF Save, Saving, TypeInv, TypeOK
<1>4. ASSUME NEW t \in Tabs, PatchOK(t) PROVE FALSE
  BY <1>4 DEF PatchOK, Saving, TypeInv, TypeOK
<1>5. ASSUME NEW t \in Tabs, Load(t) \/ Refetch(t) \/ Typing(t) PROVE Agree'
  <2>1. UNCHANGED <<plugin, binding, saved, torn>>
    BY <1>5 DEF Load, Refetch, Typing, Edit
  <2>2. \A u \in Tabs : ~Saving(u)
    BY <1>5 DEF Load, Refetch, Typing, Edit, Saving, TypeInv, TypeOK
  <2>3. QED
    BY <2>1, <2>2 DEF AgreeInv, SavedMeansAgreed, Agree
<1>6. CASE UNCHANGED vars
  BY <1>6 DEF vars, AgreeInv, SavedMeansAgreed, Agree, Saving
<1>7. QED
  BY <1>1, <1>2, <1>3, <1>4, <1>5, <1>6 DEF Next

\* When the last Save to end was reported as saved, and no two have overlapped,
\* plugin and host agree on the name.
THEOREM SavedAgrees == Spec => []SavedMeansAgreed
<1>1. Init => AgreeInv
  BY DEF Init, AgreeInv, OneSaves, SavedMeansAgreed, Saving
<1>2. TypeInv /\ AgreeInv /\ [Next]_vars => AgreeInv'
  BY OneSavesStep, AgreeStep DEF AgreeInv
<1>3. AgreeInv => SavedMeansAgreed
  BY DEF AgreeInv
<1>4. QED
  BY <1>1, <1>2, <1>3, TypeInit, TypeStep, PTL DEF Spec

-----------------------------------------------------------------------------
(* The secret *)

LEMMA SecretStep == TypeInv /\ SecretInv /\ [Next]_vars => SecretInv'
<1> SUFFICES ASSUME TypeInv, SecretInv, [Next]_vars PROVE SecretInv'
  OBVIOUS
<1> USE DEF remote, tab, history
<1>1. /\ sent \in [Tabs -> SUBSET Secrets]
      /\ form \in [Tabs -> Form] /\ submitted \in [Tabs -> Form]
      /\ phase \in [Tabs -> {"loading", "ready", "patch", "put"}]
      /\ failed \in [Tabs -> BOOLEAN]
  BY DEF SecretInv, TypeInv, TypeOK
<1>2. ASSUME NEW t \in Tabs, Load(t) \/ Refetch(t) PROVE SecretInv'
  <2>1. \A u \in Tabs :
          form'[u].client_secret \in {form[u].client_secret, ""}
    <3> DEFINE f == [display_name |-> plugin.display_name, rest |-> plugin.rest,
                     client_secret |-> ""]
    <3>1. form' = form \/ form' = [form EXCEPT ![t] = f]
      BY <1>2 DEF Load, Refetch, Receive
    <3>2. f.client_secret = ""
      OBVIOUS
    <3> HIDE DEF f
    <3>3. QED
      BY <1>1, <3>1, <3>2
  <2>2. /\ UNCHANGED <<sent, submitted, failed>>
        /\ \A u \in Tabs : phase[u] \in {"patch", "put"} => phase'[u] = phase[u]
        /\ \A u \in Tabs : phase'[u] = "patch" => phase[u] = "patch"
    BY <1>1, <1>2 DEF Load, Refetch
  <2>3. \A u \in Tabs : "" \notin sent[u]
    BY <1>1, PageAssumption DEF PageAssumption
  <2>4. QED
    BY <2>1, <2>2, <2>3 DEF SecretInv
<1>3. ASSUME NEW t \in Tabs, Typing(t) PROVE SecretInv'
  <2>1. ASSUME NEW s \in Secrets, Edit(t, "client_secret", s) PROVE SecretInv'
    <3>1. /\ sent' = [sent EXCEPT ![t] = @ \ {s}]
          /\ form' = [form EXCEPT ![t].client_secret = s]
          /\ UNCHANGED <<phase, submitted, failed>>
      BY <2>1 DEF Edit
    <3>2. form'[t].client_secret = s /\ \A u \in Tabs \ {t} : form'[u] = form[u]
      BY <1>1, <3>1 DEF Form
    <3>3. /\ sent' \in [Tabs -> SUBSET Secrets] /\ s \notin sent'[t]
          /\ \A u \in Tabs : sent'[u] \subseteq sent[u]
      BY <1>1, <3>1
    <3>4. QED
      BY <3>1, <3>2, <3>3 DEF SecretInv
  <2>2. ASSUME NEW f \in {"display_name", "rest"}, NEW v, Edit(t, f, v)
        PROVE  SecretInv'
    <3>1. \A u \in Tabs : form'[u].client_secret = form[u].client_secret
      <4>1. form' = [form EXCEPT ![t] = [form[t] EXCEPT ![f] = v]] /\ f # "client_secret"
        BY <2>2 DEF Edit
      <4>2. [form[t] EXCEPT ![f] = v].client_secret = form[t].client_secret
        <5>1. form[t] \in Form
          BY <1>1
        <5>2. CASE f = "display_name"
          BY <5>1, <5>2 DEF Form
        <5>3. CASE f = "rest"
          BY <5>1, <5>3 DEF Form
        <5>4. QED
          BY <2>2, <5>2, <5>3
      <4>3. QED
        BY <1>1, <4>1, <4>2
    <3>2. UNCHANGED <<phase, submitted, failed, sent>>
      BY <2>2 DEF Edit
    <3>3. QED
      BY <3>1, <3>2 DEF SecretInv
  <2>3. QED
    BY <1>3, <2>1, <2>2 DEF Typing
<1>4. ASSUME NEW t \in Tabs, Save(t) PROVE SecretInv'
  BY <1>1, <1>4 DEF Save, SecretInv
<1>5. ASSUME NEW t \in Tabs, Patched(t)
      PROVE  /\ sent' \in [Tabs -> SUBSET Secrets]
             /\ \A u \in Tabs \ {t} : sent'[u] = sent[u]
  BY <1>1, <1>5 DEF Patched, Form
<1>6. ASSUME NEW t \in Tabs, Succeeded(t) \/ Failed(t),
             sent' \in [Tabs -> SUBSET Secrets],
             \A u \in Tabs \ {t} : sent'[u] = sent[u]
      PROVE  SecretInv'
  <2>1. /\ phase'[t] = "ready"
        /\ \A u \in Tabs \ {t} : /\ phase'[u] = phase[u] /\ failed'[u] = failed[u]
                                 /\ submitted'[u] = submitted[u]
    BY <1>1, <1>6 DEF Succeeded, Failed, Ended
  <2>2. /\ form'[t].client_secret = "" \/ failed'[t]
        /\ \A u \in Tabs \ {t} : form'[u] = form[u]
    <3>1. CASE Succeeded(t)
      BY <1>1, <3>1 DEF Succeeded, Form
    <3>2. CASE Failed(t)
      BY <1>1, <3>2 DEF Failed, Ended
    <3>3. QED
      BY <1>6, <3>1, <3>2
  <2>3. "" \notin sent'[t]
    BY <1>6, PageAssumption DEF PageAssumption
  <2>4. \A u \in Tabs : form'[u].client_secret \in sent'[u] => failed'[u] \/ phase'[u] = "put"
    BY <1>6, <2>1, <2>2, <2>3 DEF SecretInv
  <2>5. \A u \in Tabs :
          phase'[u] = "patch" /\ submitted'[u].client_secret \in sent'[u] => failed'[u]
    BY <1>6, <2>1 DEF SecretInv
  <2>6. QED
    BY <1>6, <2>4, <2>5 DEF SecretInv
<1>7. ASSUME NEW t \in Tabs, PatchOK(t) PROVE SecretInv'
  <2>1. CASE Installation = None
    BY <1>5, <1>6, <1>7, <2>1 DEF PatchOK
  <2>2. CASE Installation # None
    <3>1. /\ phase' = [phase EXCEPT ![t] = "put"]
          /\ UNCHANGED <<submitted, form, failed>>
      BY <1>7, <2>2 DEF PatchOK
    <3>2. /\ sent' \in [Tabs -> SUBSET Secrets]
          /\ \A u \in Tabs \ {t} : sent'[u] = sent[u]
      BY <1>5, <1>7 DEF PatchOK
    <3>3. QED
      BY <1>1, <3>1, <3>2 DEF SecretInv
  <2>3. QED
    BY <2>1, <2>2
<1>8. ASSUME NEW t \in Tabs, PatchFailed(t) PROVE SecretInv'
  <2>1. /\ sent' \in [Tabs -> SUBSET Secrets]
        /\ \A u \in Tabs \ {t} : sent'[u] = sent[u]
    BY <1>1, <1>5, <1>8 DEF PatchFailed
  <2>2. QED
    BY <1>6, <1>8, <2>1 DEF PatchFailed
<1>9. ASSUME NEW t \in Tabs, PutOK(t) \/ PutFailed(t) PROVE SecretInv'
  <2>1. sent' = sent
    BY <1>9 DEF PutOK, PutFailed
  <2>2. QED
    BY <1>1, <1>6, <1>9, <2>1 DEF PutOK, PutFailed
<1>10. CASE UNCHANGED vars
  BY <1>10 DEF vars, SecretInv
<1>11. QED
  BY <1>2, <1>3, <1>4, <1>7, <1>8, <1>9, <1>10 DEF Next

LEMMA SecretsFromForms ==
    ASSUME SecretInv, [Next]_vars, secret' # secret
    PROVE  \E t \in Tabs :
              /\ secret' = submitted[t].client_secret
              /\ secret' # ""
              /\ secret' \in sent[t] => failed[t]
<1> USE DEF remote, tab, history
<1>1. ASSUME NEW t \in Tabs, PatchOK(t) \/ PatchFailed(t)
      PROVE  /\ secret' = submitted[t].client_secret
             /\ secret' # ""
             /\ secret' \in sent[t] => failed[t]
  <2>1. Patched(t) /\ phase[t] = "patch"
    BY <1>1 DEF PatchOK, PatchFailed
  <2>2. QED
    BY <2>1 DEF Patched, SecretInv
<1>2. ASSUME NEW t \in Tabs,
             \/ Load(t) \/ Refetch(t) \/ Typing(t) \/ Save(t)
             \/ PutOK(t) \/ PutFailed(t)
      PROVE  FALSE
  BY <1>2 DEF Load, Refetch, Typing, Edit, Save, PutOK, PutFailed
<1>3. QED
  BY <1>1, <1>2 DEF Next, vars

\* For any number of tabs: a secret that a tab has had stored is sent again, unless
\* it is typed again, only while the tab's last Save is reported as failed; and no
\* tab clears the plugin's secret.
THEOREM SavedSecretsAreNotResent == Spec => SecretResentOnlyAfterError
<1>1. Init => SecretInv
  <2> SUFFICES ASSUME Init PROVE SecretInv
    OBVIOUS
  <2>1. \A t \in Tabs : sent[t] = {} /\ phase[t] = "loading"
    BY DEF Init
  <2>2. sent \in [Tabs -> SUBSET Secrets]
    BY DEF Init
  <2>3. QED
    BY <2>1, <2>2 DEF SecretInv
<1>2. SecretInv /\ [Next]_vars =>
         [secret' # secret =>
             \E t \in Tabs :
                 /\ secret' = submitted[t].client_secret
                 /\ secret' # ""
                 /\ secret' \in sent[t] => failed[t]]_vars
  BY SecretsFromForms
<1>3. QED
  BY <1>1, <1>2, TypeInit, TypeStep, SecretStep, PTL
     DEF Spec, SecretResentOnlyAfterError

=============================================================================
