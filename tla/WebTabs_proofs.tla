--------------------------- MODULE WebTabs_proofs ---------------------------
(***************************************************************************)
(* Safety of WebTabs for any form, any files and any number of calls in    *)
(* flight.  The argument: a form behind its dialog is complete unless a    *)
(* file was loaded into it (DialogOK), a file is read against options the  *)
(* form has (ReadingOK), and the history tab is told of the request tab    *)
(* only between the two timers of a submission (OriginOK).                 *)
(***************************************************************************)
EXTENDS WebTabs, TLAPS

\* A file being read was uploaded, and its handler has seen no option that is gone.
ReadingOK ==
  \A u \in Uploads :
    reading[u] # NoFile => reading[u].file \in Files /\ reading[u].seen \subseteq options

\* The dialog is open for a form that is complete, or into which a file was loaded.
DialogOK == showModal => Complete \/ disturbed

\* The history tab is opened by the request tab until the second timer of a submission.
OriginOK == originTab = "request" => \E p \in Posts : posts[p] = "resetting"

\* The inductive invariant.
FormInv == FormTypeOK /\ ReadingOK /\ DialogOK /\ TagsMirrored /\ OnlyOfferedIsSelected
IInv == TypeOK /\ FormInv /\ OriginOK /\ LoaderMeansCall
-----------------------------------------------------------------------------
(* The request form *)

\* Cleared fields are those of an empty form.
LEMMA EmptyForm ==
  /\ NoChoice \in [Choices -> Options \union {None}] /\ \A c \in Choices : NoChoice[c] = None
  /\ NoTags \in [TagFields -> SUBSET Tags] /\ \A f \in TagFields : NoTags[f] = {}
BY DEF NoChoice, NoTags

\* Filling in the form by hand: only options that were fetched, only tags that match.
LEMMA EditStep ==
  ASSUME FormInv,
         \/ \E c \in Choices, o \in Options : SelectOption(c, o)
         \/ \E f \in TagFields, t \in Tags : HandleAddition(f, t) \/ HandleDelete(f, t)
         \/ ChangeJustification \/ PickStart \/ PickEnd \/ HandleClearForm
  PROVE  FormInv'
<1>0. ~showModal /\ UNCHANGED <<options, showModal, reading, uploads, disturbed, posts>>
  BY DEF CanEdit, SelectOption, HandleAddition, HandleDelete, ChangeJustification, PickStart,
     PickEnd, HandleClearForm
<1>1. ReadingOK' /\ DialogOK'
  BY <1>0 DEF FormInv, ReadingOK, DialogOK
<1>2. ASSUME NEW c \in Choices, NEW o \in Options, SelectOption(c, o) PROVE FormInv'
  <2>1. o \in options /\ choice' = [choice EXCEPT ![c] = o] /\ UNCHANGED <<tags, texts, dates, justification>>
    BY <1>2 DEF SelectOption
  <2>2. FormTypeOK'
    BY <1>0, <2>1 DEF FormInv, FormTypeOK
  <2>3. TagsMirrored' /\ OnlyOfferedIsSelected'
    BY <1>0, <2>1 DEF FormInv, FormTypeOK, TagsMirrored, OnlyOfferedIsSelected
  <2> QED BY <1>1, <2>2, <2>3 DEF FormInv
<1>3. ASSUME NEW f \in TagFields, NEW t \in Tags, HandleAddition(f, t) \/ HandleDelete(f, t)
      PROVE  FormInv'
  <2>1. PICK ts \in SUBSET Tags : /\ tags' = [tags EXCEPT ![f] = ts] /\ texts' = tags'
                                  /\ ts \subseteq tags[f] \union ValidTags
    <3>0. tags[f] \in SUBSET Tags
      BY DEF FormInv, FormTypeOK
    <3>1. CASE HandleAddition(f, t)
      <4>1. /\ tags' = [tags EXCEPT ![f] = tags[f] \union {t}] /\ texts' = tags'
            /\ t \in ValidTags
        BY <3>1 DEF HandleAddition, SetTags
      <4>2. tags[f] \union {t} \in SUBSET Tags /\ tags[f] \union {t} \subseteq tags[f] \union ValidTags
        BY <3>0, <4>1
      <4> QED BY <4>1, <4>2
    <3>2. CASE HandleDelete(f, t)
      <4>1. tags' = [tags EXCEPT ![f] = tags[f] \ {t}] /\ texts' = tags'
        BY <3>2 DEF HandleDelete, SetTags
      <4>2. tags[f] \ {t} \in SUBSET Tags /\ tags[f] \ {t} \subseteq tags[f] \union ValidTags
        BY <3>0
      <4> QED BY <4>1, <4>2
    <3> QED BY <1>3, <3>1, <3>2
  <2>2. UNCHANGED <<choice, dates, justification>>
    BY <1>3 DEF HandleAddition, HandleDelete
  <2>3. FormTypeOK'
    BY <1>0, <2>1, <2>2 DEF FormInv, FormTypeOK
  <2>4. TagsMirrored' /\ OnlyOfferedIsSelected'
    BY <1>0, <2>1, <2>2 DEF FormInv, FormTypeOK, TagsMirrored, OnlyOfferedIsSelected
  <2> QED BY <1>1, <2>3, <2>4 DEF FormInv
<1>4. CASE ChangeJustification \/ PickStart \/ PickEnd
  <2>1. UNCHANGED <<choice, tags, texts>> /\ dates' \subseteq {"start", "end"} /\ justification' \in BOOLEAN
    BY <1>4 DEF ChangeJustification, PickStart, PickEnd, FormInv, FormTypeOK
  <2> QED BY <1>0, <1>1, <2>1 DEF FormInv, FormTypeOK, TagsMirrored, OnlyOfferedIsSelected
<1>5. CASE HandleClearForm
  <2>1. choice' = NoChoice /\ tags' = NoTags /\ texts' = NoTags /\ dates' = {} /\ justification' = FALSE
    BY <1>5 DEF HandleClearForm, ClearFields, ResetTags, SetTags
  <2> QED BY <1>0, <1>1, <2>1, EmptyForm DEF FormInv, FormTypeOK, TagsMirrored, OnlyOfferedIsSelected
<1> QED BY <1>2, <1>3, <1>4, <1>5

\* The options arrive, a file is uploaded: nothing that was chosen or seen is gone.
LEMMA FetchOrUploadStep ==
  ASSUME FormInv, FetchRoles \/ \E file \in Files : HandleBulkUpload(file)
  PROVE  FormInv'
<1>1. CASE FetchRoles
  <2>1. options = {} /\ options' = Offered /\ Offered \subseteq Options
        /\ UNCHANGED <<fields, showModal, reading, uploads, disturbed, posts>>
    BY <1>1, FormAssumption DEF FetchRoles
  <2> QED
    BY <2>1 DEF fields, FormInv, FormTypeOK, ReadingOK, DialogOK, Complete, TagsMirrored,
       OnlyOfferedIsSelected
<1>2. ASSUME NEW file \in Files, HandleBulkUpload(file) PROVE FormInv'
  <2> DEFINE new == [file |-> file, seen |-> options]
  <2>1. reading' = [reading EXCEPT ![uploads'] = new] /\ ~showModal /\ uploads' \in Nat
        /\ UNCHANGED <<options, fields, showModal, disturbed, posts>>
    BY <1>2 DEF HandleBulkUpload, CanEdit, FormInv, FormTypeOK
  <2>2. new \in [file : Files \union {None}, seen : SUBSET Options] /\ new.file = file /\ new.seen = options
    BY DEF FormInv, FormTypeOK
  <2> HIDE DEF new
  <2>3. reading' \in [Uploads -> [file : Files \union {None}, seen : SUBSET Options]]
    BY <2>1, <2>2 DEF FormInv, FormTypeOK
  <2>4. ReadingOK'
    BY <2>1, <2>2 DEF FormInv, FormTypeOK, ReadingOK
  <2> QED
    BY <2>1, <2>3, <2>4 DEF fields, FormInv, FormTypeOK, DialogOK, TagsMirrored,
       OnlyOfferedIsSelected
<1> QED BY <1>1, <1>2

\* A file is loaded: its options are checked against those its handler has seen, its
\* tags against the field's expression.
LEMMA FileStep ==
  ASSUME FormInv, NEW u \in Uploads, FileLoaded(u)
  PROVE  FormInv'
<1> DEFINE file == reading[u].file
<1>0. /\ FormTypeOK /\ file \in Files /\ reading[u].seen \subseteq options
      /\ reading' = [reading EXCEPT ![u] = NoFile]
      /\ UNCHANGED <<options, dates, showModal, uploads, posts>>
      /\ tags' = [f \in TagFields |-> LoadedTags(u, f)] /\ texts' = tags'
      /\ disturbed' = (disturbed \/ (showModal /\ (file.throws => file.reads # {})))
  BY DEF FileLoaded, SetTags, FormInv, ReadingOK
<1>1. /\ \A f \in TagFields : LoadedTags(u, f) \subseteq ValidTags
      /\ \A f \in TagFields : LoadedTags(u, f) \in SUBSET Tags
  <2>1. \A f \in TagFields : LoadedTags(u, f) \subseteq ValidTags
    BY DEF LoadedTags, FormInv, TagsMirrored, OnlyOfferedIsSelected
  <2> QED BY <2>1, FormAssumption
<1>2. ReadingOK' /\ reading' \in [Uploads -> [file : Files \union {None}, seen : SUBSET Options]]
  <2>1. NoFile \in [file : Files \union {None}, seen : SUBSET Options]
    BY DEF NoFile
  <2> QED BY <1>0, <2>1 DEF ReadingOK, FormInv, FormTypeOK
<1>3. /\ choice' \in [Choices -> Options \union {None}]
      /\ \A c \in Choices : choice'[c] \in options \union {None}
      /\ justification' \in BOOLEAN
  <2>1. CASE ~file.throws
    <3>1. choice' = [c \in Choices |-> LoadedOption(u, c)] /\ justification' \in BOOLEAN
      BY <1>0, <2>1 DEF FileLoaded, FormTypeOK
    <3>2. \A c \in Choices : LoadedOption(u, c) \in options \union {None}
      BY <1>0 DEF LoadedOption, FormInv, OnlyOfferedIsSelected
    <3> QED BY <1>0, <3>1, <3>2 DEF FormTypeOK
  <2>2. CASE file.throws
    BY <1>0, <2>2 DEF FileLoaded, FormInv, FormTypeOK, OnlyOfferedIsSelected
  <2> QED BY <2>1, <2>2
<1>4. disturbed' \in BOOLEAN
  BY <1>0 DEF FormTypeOK
<1>5. DialogOK'
  <2>1. ASSUME file.throws, file.reads = {}
        PROVE  UNCHANGED <<choice, tags, texts, dates, justification>>
    <3>1. \A f \in TagFields : LoadedTags(u, f) = tags[f]
      BY <2>1 DEF LoadedTags
    <3>2. tags' = tags
      BY <1>0, <3>1 DEF FormTypeOK
    <3> QED BY <1>0, <2>1, <3>2 DEF FileLoaded, FormInv, TagsMirrored
  <2>3. CASE file.throws /\ file.reads = {}
    <3>1. UNCHANGED <<showModal, disturbed>>
      BY <1>0, <2>3 DEF FormTypeOK
    <3> QED BY <2>1, <2>3, <3>1 DEF FormInv, DialogOK, Complete
  <2>4. CASE ~(file.throws /\ file.reads = {})
    BY <1>0, <2>4 DEF DialogOK
  <2> QED BY <2>3, <2>4
<1>6. TagsMirrored' /\ OnlyOfferedIsSelected'
  BY <1>0, <1>1, <1>3 DEF TagsMirrored, OnlyOfferedIsSelected
<1>7. FormTypeOK'
  BY <1>0, <1>1, <1>2, <1>3, <1>4 DEF FormTypeOK
<1> QED BY <1>2, <1>5, <1>6, <1>7 DEF FormInv

\* Submitting: the dialog opens for a complete form only and closes with every answer;
\* a success leaves the form empty.
LEMMA SubmitStep ==
  ASSUME FormInv,
         \/ HandleSubmit \/ CancelSubmit
         \/ \E p \in Posts : \/ HandleConfirmSubmit(p) \/ SubmitRequest(p) \/ SubmitSucceeds(p)
                             \/ SubmitFails(p) \/ Redirect(p) \/ ResetOrigin(p)
  PROVE  FormInv'
<1>0. UNCHANGED <<options, reading, uploads>>
  BY DEF HandleSubmit, CancelSubmit, HandleConfirmSubmit, SubmitRequest, SubmitSucceeds,
     SubmitFails, Redirect, ResetOrigin
<1>1. CASE HandleSubmit \/ CancelSubmit
  <2>1. UNCHANGED <<fields, posts>> /\ showModal' \in BOOLEAN /\ disturbed' \in BOOLEAN
        /\ (showModal' => Complete)
    BY <1>1 DEF HandleSubmit, CancelSubmit, FormInv, FormTypeOK
  <2> QED
    BY <1>0, <2>1 DEF fields, FormInv, FormTypeOK, ReadingOK, DialogOK, Complete, TagsMirrored,
       OnlyOfferedIsSelected
<1>2. ASSUME NEW p \in Posts,
             \/ HandleConfirmSubmit(p) \/ SubmitRequest(p) \/ SubmitFails(p)
             \/ Redirect(p) \/ ResetOrigin(p)
      PROVE  FormInv'
  <2>1. /\ UNCHANGED <<fields, disturbed>> /\ (showModal' = showModal \/ showModal' = FALSE)
        /\ \E s \in PostStates : posts' = [posts EXCEPT ![p] = s]
    BY <1>2 DEF HandleConfirmSubmit, SubmitRequest, SubmitFails, Redirect, ResetOrigin, PostStates
  <2>2. posts' \in [Posts -> PostStates] /\ showModal' \in BOOLEAN
    BY <2>1 DEF FormInv, FormTypeOK
  <2>3. FormTypeOK'
    BY <1>0, <2>1, <2>2 DEF fields, FormInv, FormTypeOK
  <2>4. Complete' = Complete
    BY <2>1 DEF fields, Complete
  <2>5. ReadingOK' /\ DialogOK'
    BY <1>0, <2>1, <2>4 DEF FormInv, ReadingOK, DialogOK
  <2>6. TagsMirrored' /\ OnlyOfferedIsSelected'
    BY <1>0, <2>1 DEF fields, FormInv, TagsMirrored, OnlyOfferedIsSelected
  <2> QED BY <2>3, <2>5, <2>6 DEF FormInv
<1>3. ASSUME NEW p \in Posts, SubmitSucceeds(p) PROVE FormInv'
  <2>1. /\ choice' = NoChoice /\ tags' = NoTags /\ texts' = NoTags /\ dates' = {} /\ justification' = FALSE
        /\ showModal' = FALSE /\ disturbed' = disturbed
        /\ posts' = [posts EXCEPT ![p] = "redirecting"] /\ "redirecting" \in PostStates
    BY <1>3 DEF SubmitSucceeds, ClearFields, ResetTags, SetTags, PostStates
  <2> QED
    BY <1>0, <2>1, EmptyForm DEF FormInv, FormTypeOK, ReadingOK, DialogOK, TagsMirrored,
       OnlyOfferedIsSelected
<1> QED BY <1>1, <1>2, <1>3

\* The form's part of the invariant, through every step of the page.
LEMMA FormStep ==
  ASSUME FormInv, [Next]_vars
  PROVE  FormInv'
<1>1. CASE UNCHANGED formVars
  BY <1>1 DEF formVars, fields, FormInv, FormTypeOK, ReadingOK, DialogOK, Complete, TagsMirrored,
     OnlyOfferedIsSelected
<1>2. CASE FormNext
  BY <1>2, EditStep, FetchOrUploadStep, FileStep, SubmitStep DEF FormNext
<1> QED BY <1>1, <1>2 DEF Next, SelectTab, Form, History, Admin, vars
-----------------------------------------------------------------------------
(* The page: the tab that is shown, and the loader *)

\* A redirection is remembered by its own post until its second timer has run.
LEMMA OriginStep ==
  ASSUME FormTypeOK, OriginOK, [Next]_vars
  PROVE  OriginOK'
<1>1. CASE UNCHANGED <<originTab, posts>>
  BY <1>1 DEF OriginOK
<1>2. ASSUME NEW p \in Posts,
             HandleConfirmSubmit(p) \/ SubmitRequest(p) \/ SubmitSucceeds(p) \/ SubmitFails(p)
      PROVE  OriginOK'
  <2>1. /\ UNCHANGED tabs /\ posts[p] # "resetting"
        /\ \A q \in Posts \ {p} : posts'[q] = posts[q]
    BY <1>2 DEF HandleConfirmSubmit, SubmitRequest, SubmitSucceeds, SubmitFails, FormTypeOK
  <2> QED BY <2>1 DEF OriginOK, tabs
<1>3. ASSUME NEW p \in Posts, Redirect(p) PROVE OriginOK'
  <2>1. posts'[p] = "resetting"
    BY <1>3 DEF Redirect, FormTypeOK
  <2> QED BY <2>1 DEF OriginOK
<1>4. ASSUME NEW p \in Posts, ResetOrigin(p) PROVE OriginOK'
  BY <1>4 DEF ResetOrigin, OriginOK
<1>5. CASE FormNext
  <2>1. CASE \/ FetchRoles
             \/ \E c \in Choices, o \in Options : SelectOption(c, o)
             \/ \E f \in TagFields, t \in Tags : HandleAddition(f, t) \/ HandleDelete(f, t)
             \/ ChangeJustification \/ PickStart \/ PickEnd \/ HandleClearForm
             \/ \E file \in Files : HandleBulkUpload(file)
             \/ \E u \in Uploads : FileLoaded(u)
             \/ HandleSubmit \/ CancelSubmit
    BY <1>1, <2>1 DEF FetchRoles, SelectOption, HandleAddition, HandleDelete, ChangeJustification,
       PickStart, PickEnd, HandleClearForm, HandleBulkUpload, FileLoaded, HandleSubmit,
       CancelSubmit, tabs
  <2> QED BY <1>2, <1>3, <1>4, <1>5, <2>1 DEF FormNext
<1>6. CASE History
  BY <1>1, <1>6 DEF History, HistoryUser, HistoryPage, HandleSearch, ChangeCriteria, GetRecords,
     FetchEnds, Render, RunEffect, PermissionsArrive, tabs, formVars
<1>7. CASE Admin
  BY <1>1, <1>7 DEF Admin, AdminNext, AskCleanup, CancelCleanup, HandleCleanExpired,
     CleanExpiredEnds, tabs, formVars
<1>8. CASE \E t \in Pages : SelectTab(t)
  BY <1>1, <1>8 DEF SelectTab, formVars
<1>9. CASE UNCHANGED vars
  BY <1>1, <1>9 DEF vars, formVars, tabs
<1> QED BY <1>5, <1>6, <1>7, <1>8, <1>9 DEF Next, Form

\* A step of the form leaves calls and loader alone, leaves a call in flight, or ends the loader.
LEMMA FormLoader ==
  ASSUME FormTypeOK, FormNext
  PROVE  \/ ~loadingInCard'
         \/ FormCalls' # {}
         \/ loadingInCard' = loadingInCard /\ FormCalls' = FormCalls
<1>1. ASSUME NEW p \in Posts, HandleConfirmSubmit(p) PROVE FormCalls' # {}
  <2>1. posts'[p] = "sent"
    BY <1>1 DEF HandleConfirmSubmit, FormTypeOK
  <2> QED BY <2>1 DEF FormCalls
<1>2. ASSUME NEW p \in Posts, SubmitRequest(p) PROVE FormCalls' # {}
  <2>1. posts'[p] \in {"ok", "error"}
    BY <1>2 DEF SubmitRequest, FormTypeOK
  <2> QED BY <2>1 DEF FormCalls
<1>3. ASSUME NEW p \in Posts, SubmitSucceeds(p) \/ SubmitFails(p) PROVE ~loadingInCard'
  BY <1>3 DEF SubmitSucceeds, SubmitFails
<1>4. ASSUME NEW p \in Posts, Redirect(p) \/ ResetOrigin(p)
      PROVE  loadingInCard' = loadingInCard /\ FormCalls' = FormCalls
  <2>1. /\ loadingInCard' = loadingInCard
        /\ posts[p] \in {"redirecting", "resetting"} /\ posts'[p] \in {"resetting", "done"}
        /\ \A q \in Posts \ {p} : posts'[q] = posts[q]
    BY <1>4 DEF Redirect, ResetOrigin, FormTypeOK
  <2>2. \A q \in Posts : posts'[q] \in {"sent", "ok", "error"} <=> posts[q] \in {"sent", "ok", "error"}
    BY <2>1
  <2> QED BY <2>1, <2>2 DEF FormCalls
<1>5. CASE \/ FetchRoles
           \/ \E c \in Choices, o \in Options : SelectOption(c, o)
           \/ \E f \in TagFields, t \in Tags : HandleAddition(f, t) \/ HandleDelete(f, t)
           \/ ChangeJustification \/ PickStart \/ PickEnd \/ HandleClearForm
           \/ \E file \in Files : HandleBulkUpload(file)
           \/ \E u \in Uploads : FileLoaded(u)
           \/ HandleSubmit \/ CancelSubmit
  <2>1. UNCHANGED <<posts, loadingInCard>>
    BY <1>5 DEF FetchRoles, SelectOption, HandleAddition, HandleDelete, ChangeJustification,
       PickStart, PickEnd, HandleClearForm, HandleBulkUpload, FileLoaded, HandleSubmit,
       CancelSubmit
  <2> QED BY <2>1 DEF FormCalls
<1> QED BY <1>1, <1>2, <1>3, <1>4, <1>5 DEF FormNext

\* So does a step of the history tab.
LEMMA HistoryLoader ==
  ASSUME HistoryTypeOK, HistoryUser \/ HistoryPage
  PROVE  \/ ~loadingInCard'
         \/ HistoryCalls' # {}
         \/ loadingInCard' = loadingInCard /\ HistoryCalls' = HistoryCalls
<1>1. ASSUME FetchRequests PROVE HistoryCalls' # {}
  <2>1. PICK i \in Fetches : fetches' = [fetches EXCEPT ![i] = "sent"]
    BY <1>1 DEF FetchRequests
  <2>2. fetches'[i] = "sent"
    BY <2>1 DEF HistoryTypeOK
  <2> QED BY <2>2 DEF HistoryCalls
<1>2. ASSUME NEW i \in Fetches, GetRecords(i) PROVE HistoryCalls' # {}
  <2>1. fetches'[i] = "answered"
    BY <1>2 DEF GetRecords, HistoryTypeOK
  <2> QED BY <2>1 DEF HistoryCalls
<1>3. ASSUME NEW i \in Fetches, FetchEnds(i) PROVE ~loadingInCard'
  BY <1>3 DEF FetchEnds
<1>4. CASE UNCHANGED <<fetches, loadingInCard>>
  BY <1>4 DEF HistoryCalls
<1>5. FetchRequests \/ UNCHANGED <<fetches, loadingInCard>>
      \/ \E i \in Fetches : GetRecords(i) \/ FetchEnds(i)
  BY DEF HistoryUser, HistoryPage, HandleSearch, ChangeCriteria, Render, RunEffect, PermissionsArrive,
     historyVars
<1> QED BY <1>1, <1>2, <1>3, <1>4, <1>5

\* So does a step of the admin tab.
LEMMA AdminLoader ==
  ASSUME AdminTypeOK, AdminNext
  PROVE  \/ ~loadingInCard'
         \/ AdminCalls' # {}
         \/ loadingInCard' = loadingInCard /\ AdminCalls' = AdminCalls
<1>1. ASSUME NEW i \in Cleanups, HandleCleanExpired(i) PROVE AdminCalls' # {}
  <2>1. cleanups'[i] = "sent"
    BY <1>1 DEF HandleCleanExpired, AdminTypeOK
  <2> QED BY <2>1 DEF AdminCalls
<1>2. ASSUME NEW i \in Cleanups, CleanExpiredEnds(i) PROVE ~loadingInCard'
  BY <1>2 DEF CleanExpiredEnds
<1>3. CASE AskCleanup \/ CancelCleanup
  BY <1>3 DEF AskCleanup, CancelCleanup, AdminCalls
<1> QED BY <1>1, <1>2, <1>3 DEF AdminNext

\* The loader through every step of the page: a tab that is not at work leaves its calls alone.
LEMMA LoaderStep ==
  ASSUME TypeOK, LoaderMeansCall, [Next]_vars
  PROVE  LoaderMeansCall'
<1>1. /\ UNCHANGED formVars => FormCalls' = FormCalls
      /\ UNCHANGED historyVars => HistoryCalls' = HistoryCalls
      /\ UNCHANGED adminVars => AdminCalls' = AdminCalls
  BY DEF formVars, historyVars, adminVars, FormCalls, HistoryCalls, AdminCalls
<1>2. CASE UNCHANGED <<formVars, historyVars, adminVars, loadingInCard>>
  BY <1>1, <1>2 DEF LoaderMeansCall
<1>3. CASE Form
  BY <1>1, <1>3, FormLoader DEF Form, TypeOK, LoaderMeansCall
<1>4. CASE History
  BY <1>1, <1>4, HistoryLoader DEF History, TypeOK, LoaderMeansCall
<1>5. CASE Admin
  BY <1>1, <1>5, AdminLoader DEF Admin, TypeOK, LoaderMeansCall
<1>6. CASE \E t \in Pages : SelectTab(t)
  BY <1>2, <1>6 DEF SelectTab
<1>7. CASE UNCHANGED vars
  BY <1>2, <1>7 DEF vars
<1> QED BY <1>3, <1>4, <1>5, <1>6, <1>7 DEF Next

\* The types of the shared variables and of the other two tabs.
LEMMA TabsTypeStep ==
  ASSUME TypeOK, [Next]_vars
  PROVE  AppTabsTypeOK' /\ HistoryTypeOK' /\ AdminTypeOK'
<1>1. CASE Form
  <2>1. UNCHANGED <<historyVars, adminVars>>
    BY <1>1 DEF Form
  <2>2. AppTabsTypeOK'
    BY <1>1 DEF Form, FormNext, TypeOK, AppTabsTypeOK, Pages, tabs, FetchRoles, SelectOption,
       HandleAddition, HandleDelete, ChangeJustification, PickStart, PickEnd, HandleClearForm,
       HandleBulkUpload, FileLoaded, HandleSubmit, CancelSubmit, HandleConfirmSubmit,
       SubmitRequest, SubmitSucceeds, SubmitFails, Redirect, ResetOrigin
  <2> QED BY <2>1, <2>2 DEF TypeOK, historyVars, adminVars, HistoryTypeOK, AdminTypeOK
<1>2. CASE History
  <2>1. UNCHANGED adminVars
    BY <1>2 DEF History
  <2>2. HistoryTypeOK'
    BY <1>2 DEF History, HistoryUser, HistoryPage, HandleSearch, ChangeCriteria, FetchRequests,
       GetRecords, FetchEnds, Render, RunEffect, PermissionsArrive, TypeOK, HistoryTypeOK,
       historyVars, OpenedByRequest
  <2>3. AppTabsTypeOK'
    BY <1>2 DEF History, HistoryUser, HistoryPage, HandleSearch, ChangeCriteria, FetchRequests,
       GetRecords, FetchEnds, Render, RunEffect, PermissionsArrive, TypeOK, AppTabsTypeOK, tabs
  <2> QED BY <2>1, <2>2, <2>3 DEF TypeOK, adminVars, AdminTypeOK
<1>3. CASE Admin
  <2>1. UNCHANGED <<historyVars, tabs>> /\ loadingInCard' \in BOOLEAN
    BY <1>3 DEF Admin, AdminNext, AskCleanup, CancelCleanup, HandleCleanExpired,
       CleanExpiredEnds, TypeOK, AppTabsTypeOK
  <2>2. AdminTypeOK'
    BY <1>3 DEF Admin, AdminNext, AskCleanup, CancelCleanup, HandleCleanExpired,
       CleanExpiredEnds, TypeOK, AdminTypeOK
  <2> QED BY <2>1, <2>2 DEF TypeOK, AppTabsTypeOK, HistoryTypeOK, historyVars, tabs
<1>4. CASE \E t \in Pages : SelectTab(t)
  BY <1>4 DEF SelectTab, TypeOK, AppTabsTypeOK, HistoryTypeOK, AdminTypeOK, historyVars, adminVars
<1>5. CASE UNCHANGED vars
  BY <1>5 DEF vars, TypeOK, AppTabsTypeOK, HistoryTypeOK, AdminTypeOK, historyVars, adminVars, tabs
<1> QED BY <1>1, <1>2, <1>3, <1>4, <1>5 DEF Next
-----------------------------------------------------------------------------
(* The theorems *)

\* At first the form is empty and nothing is under way.
LEMMA TabsStart == Init => IInv
<1> SUFFICES ASSUME Init PROVE IInv
  OBVIOUS
<1>1. FormInit /\ HistoryInit /\ AdminInit /\ AppTabsInit
  BY DEF Init
<1>2. reading \in [Uploads -> [file : Files \union {None}, seen : SUBSET Options]]
  BY <1>1 DEF FormInit, NoFile
<1>3. FormTypeOK
  BY <1>1, <1>2, EmptyForm DEF FormInit, FormTypeOK, PostStates
<1>4. ReadingOK /\ DialogOK /\ TagsMirrored /\ OnlyOfferedIsSelected
  BY <1>1, EmptyForm DEF FormInit, ReadingOK, DialogOK, TagsMirrored, OnlyOfferedIsSelected
<1>5. AppTabsTypeOK /\ HistoryTypeOK /\ AdminTypeOK
  BY <1>1 DEF AppTabsInit, AppTabsTypeOK, Pages, HistoryInit, HistoryTypeOK, AdminInit, AdminTypeOK
<1>6. OriginOK /\ LoaderMeansCall
  BY <1>1 DEF AppTabsInit, OriginOK, LoaderMeansCall
<1> QED BY <1>3, <1>4, <1>5, <1>6 DEF IInv, FormInv, TypeOK

\* The inductive invariant of the page: types, the form, the origin of the history
\* tab and the loader, which the steps of all tabs preserve.
THEOREM PageInductive == Spec => []IInv
<1>1. ASSUME IInv, [Next]_vars PROVE IInv'
  <2>1. TypeOK /\ FormInv /\ OriginOK /\ LoaderMeansCall
    BY <1>1 DEF IInv
  <2>2. FormInv'
    BY <1>1, <2>1, FormStep
  <2>3. AppTabsTypeOK' /\ HistoryTypeOK' /\ AdminTypeOK'
    BY <1>1, <2>1, TabsTypeStep
  <2>4. OriginOK'
    BY <1>1, <2>1, OriginStep DEF FormInv
  <2>5. LoaderMeansCall'
    BY <1>1, <2>1, LoaderStep
  <2> QED BY <2>2, <2>3, <2>4, <2>5 DEF IInv, FormInv, TypeOK
<1> QED BY <1>1, TabsStart, PTL DEF Spec

\* The variables of the request, history and admin tabs keep their types.
THEOREM PageTypeCorrect == Spec => []TypeOK
<1>1. IInv => TypeOK
  BY DEF IInv
<1> QED BY <1>1, PageInductive, PTL

\* What the tag fields of RequestTabPane show is what a request would be sent with.
THEOREM TagsAreMirrored == Spec => []TagsMirrored
<1>1. IInv => TagsMirrored
  BY DEF IInv, FormInv
<1> QED BY <1>1, PageInductive, PTL

\* The form holds only options that were fetched and tags that match, whatever files name.
THEOREM OfferedOnly == Spec => []OnlyOfferedIsSelected
<1>1. IInv => OnlyOfferedIsSelected
  BY DEF IInv, FormInv
<1> QED BY <1>1, PageInductive, PTL

\* The card shows the loader only while a call of one of the three tabs is in flight.
THEOREM LoaderHasCall == Spec => []LoaderMeansCall
<1>1. IInv => LoaderMeansCall
  BY DEF IInv
<1> QED BY <1>1, PageInductive, PTL

\* handleConfirmSubmit sends a form that is complete, or into which a file was loaded
\* while the dialog was open: it is out of reach unless the dialog is.
THEOREM CompleteWhenSent == Spec => SentIsComplete
<1>1. ASSUME IInv, [Next]_vars, NEW p \in Posts, posts[p] = "unused", posts'[p] = "sent"
      PROVE  Complete \/ disturbed
  <2>1. PICK q \in Posts : HandleConfirmSubmit(q)
    <3>1. ASSUME NEW q \in Posts,
                 \/ SubmitRequest(q) \/ SubmitSucceeds(q) \/ SubmitFails(q)
                 \/ Redirect(q) \/ ResetOrigin(q)
          PROVE  FALSE
      <4>1. posts[q] # "unused" /\ \E s : posts' = [posts EXCEPT ![q] = s]
        BY <3>1 DEF SubmitRequest, SubmitSucceeds, SubmitFails, Redirect, ResetOrigin
      <4>2. p # q
        BY <1>1, <4>1
      <4>3. posts'[p] = posts[p]
        BY <4>1, <4>2 DEF IInv, TypeOK, FormTypeOK
      <4> QED BY <1>1, <4>3
    <3>2. posts' # posts
      BY <1>1
    <3> QED
      BY <1>1, <3>1, <3>2 DEF Next, SelectTab, Form, History, Admin, vars, formVars, FormNext,
         FetchRoles, SelectOption, HandleAddition, HandleDelete, ChangeJustification, PickStart,
         PickEnd, HandleClearForm, HandleBulkUpload, FileLoaded, HandleSubmit, CancelSubmit
  <2>2. showModal
    BY <2>1 DEF HandleConfirmSubmit
  <2> QED BY <1>1, <2>2 DEF IInv, FormInv, DialogOK
<1>2. IInv /\ [Next]_vars
        => [\A p \in Posts : posts[p] = "unused" /\ posts'[p] = "sent" => Complete \/ disturbed]_posts
  BY <1>1
<1> QED BY <1>2, PageInductive, PTL DEF Spec, SentIsComplete

\* A render that makes the effect of HistoryTabPane search comes between the two timers
\* of a submission.
THEOREM SearchesAfterSubmission == Spec => OnlySubmissionsSearch
<1>1. ASSUME IInv, [Next]_vars, RenderSearches
      PROVE  \E p \in Posts : posts[p] = "resetting"
  <2>1. ~searchDue /\ searchDue'
    BY <1>1 DEF RenderSearches
  <2>2. UNCHANGED <<historyVars>> \/ History
    BY <1>1 DEF Next, SelectTab, Form, Admin, vars
  <2>3. Render
    BY <2>1, <2>2 DEF historyVars, History, HistoryUser, HistoryPage, HandleSearch,
       ChangeCriteria, GetRecords, FetchEnds, RunEffect, PermissionsArrive
  <2>4. originTab = "request"
    BY <2>1, <2>3 DEF Render, OpenedByRequest
  <2> QED BY <1>1, <2>4 DEF IInv, OriginOK
<1>2. IInv /\ [Next]_vars => [RenderSearches => \E p \in Posts : posts[p] = "resetting"]_vars
  BY <1>1
<1> QED BY <1>2, PageInductive, PTL DEF Spec, OnlySubmissionsSearch
=============================================================================
