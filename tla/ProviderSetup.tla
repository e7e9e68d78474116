---------------------------- MODULE ProviderSetup ----------------------------
(* The console's Agent provider: the settings a workspace has on disk, the   *)
(* adapter the process serves Agent calls with, the credentials it finds,    *)
(* and the Settings page.  Clients are threads that call the routes: the     *)
(* page's worker, and one that uses any of them.  A call is cut where        *)
(* another thread can run: around the provider's answer, and between reading *)
(* the settings, writing them, exchanging the adapter and noting the         *)
(* verification.  A base URL, a timeout and a retry count are compared and   *)
(* carried as the model is, and are left out; so is advancement_mode, which  *)
(* no answer here reads.                                                     *)
EXTENDS Naturals, Sequences

CONSTANTS Clients,       \* threads that can be inside the backend
          PageWorker,    \* the one that works for the Settings page
          Workspaces,    \* workspace directories
          Home,          \* the one a process starts in
          External,      \* the providers reached over the network
          Models,        \* model names
          Slashed,       \* those with a slash in them
          FactoryModel,  \* the adapter's own choice when no model is set
          PageModel,     \* what the page fills in when no model is set
          Good, Bad,     \* keys the provider accepts and refuses
          Unset,         \* no model, no key, no file
          Kept,          \* what the body of a settings write leaves out
          Offers,        \* the settings callers try, save and put in force
          Bodies,        \* the bodies of the settings writes they send
          StartKeys,     \* keys the environment may hold
          MaxCalls,      \* bound on calls of the backend
          MaxEdits,      \* bound on edits of the page's draft and of .env
          MaxRestarts    \* bound on restarts of the process

ASSUME ProviderAssumption ==
  /\ PageWorker \in Clients /\ Home \in Workspaces
  /\ {FactoryModel, PageModel} \cup Slashed \subseteq Models
  /\ {"local", "unsupported"} \cap External = {}
  /\ MaxCalls \in Nat /\ MaxEdits \in Nat /\ MaxRestarts \in Nat

VARIABLES config,        \* workspace_config.json of each workspace, or Unset
          created,       \* the workspaces that have a manifest
          root,          \* workspace_root
          adapter,       \* stage_runner.agent_adapter
          verification,  \* _provider_verification
          session,       \* _session_provider_api_keys
          processEnv,    \* the key in the process's environment
          dotEnv,        \* the key in the project's .env
          call,          \* what each client's call has come to
          form,          \* the Settings page's draft and badge
          proven,        \* history: the settings a real request has passed
          vouched,       \* history: those a settings write said were connected
          raced,         \* history: calls another one has cut into
          tainted,       \* history: such a call noted its verification
          settled,       \* history: the adapter was exchanged last
          calls, edits, restarts

setupVars == <<config, created, root, adapter, verification, session, processEnv,
          dotEnv, call, form, proven, vouched, raced, tainted, settled, calls,
          edits, restarts>>
memory == <<adapter, verification, session, root>>
disk == <<config, created>>
keys == <<processEnv, dotEnv>>
trusted == <<proven, vouched>>
history == <<trusted, raced, tainted, settled>>

Setting == [provider : {"local", "unsupported"}, model : {Unset}]
             \cup [provider : External, model : Models \cup {Unset}]
Keys == {Good, Bad}
Deterministic == [provider |-> "local", model |-> Unset, key |-> Unset]
NoEvidence == [status |-> "not_tested", provider |-> Unset, model |-> Unset]
Unverified == [status |-> "not_tested", provider |-> Unset, model |-> Unset,
               saved |-> FALSE]

(* What a settings file holds: the provider in use, and what was verified.   *)
Verified == [status : {"connected"}, provider : External \cup {"local"},
             model : Models \cup {Unset}] \cup {NoEvidence}
Config == [provider : External \cup {"local", "unsupported"},
           model : Models \cup {Unset}, evidence : Verified]

(* The body of a settings write: its caller's own word for a connection,    *)
(* too, if the caller gives it; an empty model takes the old one away.      *)
Body == [provider : External \cup {"local", "unsupported", Kept},
         model : Models \cup {Unset, Kept}, evidence : Verified \cup {Kept}]
Nothing == [provider |-> Kept, model |-> Kept, evidence |-> Kept]

ASSUME BodiesAssumption == Bodies \subseteq Body /\ Offers \subseteq Setting

ASSUME KeysAssumption == StartKeys \subseteq Keys \cup {Unset}
ASSUME UnsetAssumption == Unset \notin Models /\ Unset \notin Config
ASSUME KeptAssumption ==
  Kept \notin Models \cup External \cup {Unset, "local", "unsupported"} \cup Verified

Blank == [provider |-> "local", model |-> Unset, evidence |-> NoEvidence]
Draft == [provider : External, model : Models, key : Keys \cup {Unset}]
NoCall == [step |-> "idle"]
Closed == [status |-> "closed", draft |-> Unset, edited |-> FALSE]

-----------------------------------------------------------------------------
(* Credentials: the key typed in, the session's, the process environment's, *)
(* the project's .env.                                                      *)
Credential(sources) ==
  LET held == {i \in DOMAIN sources : sources[i] # Unset}
  IN  IF held = {} THEN Unset
      ELSE sources[CHOOSE i \in held : \A j \in held : i <= j]

ResolveCredential(p, typed) ==
  IF p \in External
  THEN Credential(<<typed, session[p], processEnv[p], dotEnv[p]>>)
  ELSE Unset

(* The factory builds an external adapter with no key as readily as with one. *)
MakeAdapter(setting, k) ==
  IF setting.provider \in External
  THEN [provider |-> setting.provider,
        model |-> IF setting.model = Unset THEN FactoryModel ELSE setting.model,
        key |-> k]
  ELSE Deterministic

SettingOf(c) == [provider |-> c.provider, model |-> c.model]

(* A workspace without the file has the local provider. *)
Saved(w) == IF config[w] = Unset THEN Blank ELSE config[w]

(* _safe_summary_text: a model name with a slash is written, and not read.   *)
ReadConfig(w) ==
  [Saved(w) EXCEPT !.model = IF @ \in Slashed THEN Unset ELSE @]

AdapterFor(c) == MakeAdapter(c, ResolveCredential(c.provider, Unset))

(* What the process noted of a saved verification, or else what the file has. *)
Evidence ==
  IF verification.saved
  THEN [status |-> verification.status, provider |-> verification.provider,
        model |-> verification.model]
  ELSE ReadConfig(root).evidence

Readiness ==
  LET c == ReadConfig(root)
  IN  IF \/ c.provider \notin External
         \/ ResolveCredential(c.provider, Unset) = Unset
      THEN "needs_setup"
      ELSE IF Evidence.status = "not_tested" THEN "needs_verification"
      ELSE IF Evidence.provider = c.provider /\ Evidence.model = c.model
      THEN "ready" ELSE "changed_since_test"

-----------------------------------------------------------------------------
SetupInit ==
  /\ config = [w \in Workspaces |-> Unset]
  /\ created = {}
  /\ root = Home
  /\ adapter = Deterministic
  /\ verification = Unverified
  /\ session = [p \in External |-> Unset]
  /\ processEnv \in [External -> StartKeys]
  /\ dotEnv = [p \in External |-> Unset]
  /\ call = [c \in Clients |-> NoCall]
  /\ form = Closed
  /\ proven = {} /\ vouched = {}
  /\ raced = {} /\ tainted = FALSE /\ settled = TRUE
  /\ calls = 0 /\ edits = 0 /\ restarts = 0

Free(c) == call[c].step = "idle" /\ calls < MaxCalls

(* The clients that have read or written the settings and are not done. *)
Writing == {c \in Clients : call[c].step \in {"write", "configure", "note"}}

(* A call of client c enters the backend. *)
Enter(c, first) ==
  /\ Free(c)
  /\ call' = [call EXCEPT ![c] = first]
  /\ calls' = calls + 1

(* test_provider_connection: an adapter of the draft, or the one in force, is *)
(* asked to read one requirement.                                            *)
Testing(made) == [step |-> "ask", kind |-> "test", made |-> made]

Asking(kind, setting, typed) ==
  LET made == MakeAdapter(setting, ResolveCredential(setting.provider, typed))
  IN  IF kind = "test" THEN Testing(made)
      ELSE [step |-> "ask", kind |-> "save", made |-> made,
            setting |-> setting, typed |-> typed]

AskCurrent(c) ==
  /\ c # PageWorker
  /\ Enter(c, Testing(adapter))
  /\ UNCHANGED <<memory, disk, keys, history, form, edits, restarts>>

AskDraft(c, kind, setting, typed) ==
  /\ c # PageWorker
  /\ setting.provider # "unsupported"
  /\ setting.provider \notin External => typed = Unset
  /\ Enter(c, Asking(kind, setting, typed))
  /\ UNCHANGED <<memory, disk, keys, history, form, edits, restarts>>

(* _record_provider_verification: a test is remembered as unsaved. *)
RecordVerification(made, ok) ==
  verification' = [status |-> IF ok THEN "connected" ELSE "failed",
                   provider |-> made.provider, model |-> made.model,
                   saved |-> FALSE]

(* The page's badge after its worker came back, unless the call goes on. *)
Badge(c, status) ==
  form' = IF c = PageWorker THEN [form EXCEPT !.status = status] ELSE form

(* A local adapter needs no request.  A request is refused for a wrong key,  *)
(* and can fail for any reason with a right one.                             *)
Passes(made) == made.provider = "local" \/ made.key = Good

(* Mutant: a save goes on whatever the test said. *)
TestFailsUnread(c) ==
  LET k == call[c]
  IN  /\ k.step = "ask" /\ k.made.provider \in External
      /\ RecordVerification(k.made, FALSE)
      /\ call' = [call EXCEPT ![c] =
                    IF k.kind = "test" THEN NoCall ELSE [k EXCEPT !.step = "read"]]
      /\ Badge(c, "failed")
      /\ UNCHANGED <<adapter, session, root, disk, keys, history, calls, edits,
                     restarts>>

TestFails(c) ==
  LET k == call[c]
  IN  /\ k.step = "ask" /\ k.made.provider \in External
      /\ RecordVerification(k.made, FALSE)
      /\ call' = [call EXCEPT ![c] = NoCall]
      /\ Badge(c, "failed")
      /\ UNCHANGED <<adapter, session, root, disk, keys, history, calls, edits,
                     restarts>>

TestPasses(c) ==
  LET k == call[c]
      stores == k.kind = "save" /\ k.typed # Unset /\ k.setting.provider \in External
  IN  /\ k.step = "ask" /\ Passes(k.made)
      /\ RecordVerification(k.made, TRUE)
      /\ proven' = proven \cup {SettingOf(k.made)}
      /\ session' = IF stores
                    THEN [session EXCEPT ![k.setting.provider] = k.typed]
                    ELSE session
      /\ settled' = (settled /\ ~stores)
      /\ call' = [call EXCEPT ![c] =
                    IF k.kind = "test" THEN NoCall ELSE [k EXCEPT !.step = "read"]]
      /\ IF k.kind = "test" THEN Badge(c, "connected") ELSE form' = form
      /\ UNCHANGED <<adapter, root, disk, keys, vouched, raced, tainted, calls,
                     edits, restarts>>

-----------------------------------------------------------------------------
(* write_workspace_config(merge=True): the route hands on the whole body.    *)
BeginWrite(c, body) ==
  /\ c # PageWorker
  /\ Enter(c, [step |-> "read", kind |-> "write", body |-> body])
  /\ vouched' = vouched \cup {SettingOf(e) : e \in {body.evidence} \ {Kept, NoEvidence}}
  /\ UNCHANGED <<memory, disk, keys, form, proven, raced, tainted, settled, edits,
                 restarts>>

(* A saved draft brings its evidence, and its empty model replaces the old  *)
(* one; the page's last write and that of a new workspace name nothing that *)
(* is modelled.                                                             *)
BodyOf(k) ==
  IF k.kind = "save"
  THEN [provider |-> k.setting.provider, model |-> k.setting.model,
        evidence |-> [status |-> "connected", provider |-> k.setting.provider,
                      model |-> IF k.setting.model = Unset THEN k.made.model
                                ELSE k.setting.model]]
  ELSE IF k.kind = "write" THEN k.body ELSE Nothing

Merge(current, body) ==
  LET Said(new, old) == IF new = Kept THEN old ELSE new
  IN  [provider |-> Said(body.provider, current.provider),
       model |-> Said(body.model, current.model),
       evidence |-> Said(body.evidence, current.evidence)]

ReadForMerge(c) ==
  LET k == call[c]
  IN  /\ k.step = "read"
      /\ call' = [call EXCEPT ![c] = [step |-> "write", kind |-> k.kind,
                                      next |-> Merge(ReadConfig(root), BodyOf(k)),
                                      model |-> IF k.kind = "save"
                                                THEN k.made.model ELSE Unset]]
      /\ UNCHANGED <<memory, disk, keys, history, form, calls, edits, restarts>>

(* Calls that overlap in time are marked; the marks are not the program's.   *)
WriteFile(c) ==
  /\ call[c].step = "write"
  /\ config' = [config EXCEPT ![root] = call[c].next]
  /\ call' = [call EXCEPT ![c].step = "configure"]
  /\ raced' = raced \cup (IF Writing = {c} THEN {} ELSE Writing)
  /\ settled' = FALSE
  /\ UNCHANGED <<memory, created, keys, trusted, tainted, form, calls, edits, restarts>>

(* configure_provider: the file is written already when it refuses.  The     *)
(* page's worker goes on to its last write after a save; when that one       *)
(* refuses, nothing takes the badge off "testing".                           *)
Configure(c) ==
  LET k == call[c]
  IN  /\ k.step = "configure"
      /\ IF k.next.provider = "unsupported"
         THEN /\ call' = [call EXCEPT ![c] = NoCall]
              /\ UNCHANGED <<adapter, settled, form>>
         ELSE /\ adapter' = AdapterFor(k.next)
              /\ call' = [call EXCEPT ![c] =
                            IF k.kind = "save" THEN [k EXCEPT !.step = "note"]
                            ELSE NoCall]
              /\ settled' = /\ c \notin raced
                            /\ \A d \in Clients \ {c} : call[d].step # "configure"
              /\ form' = IF c = PageWorker /\ k.kind = "rewrite"
                         THEN [form EXCEPT !.status = "connected",
                                           !.draft.key = Unset]
                         ELSE form
      /\ raced' = IF call'[c] = NoCall THEN raced \ {c} ELSE raced
      /\ UNCHANGED <<verification, session, root, disk, keys, trusted, tainted,
                     calls, edits, restarts>>

(* The verification of a save takes the provider of the adapter and the      *)
(* model of the file as they are now.                                        *)
NoteVerification(c) ==
  LET k == call[c]
      m == ReadConfig(root).model
  IN  /\ k.step = "note"
      /\ verification' = [status |-> "connected", provider |-> adapter.provider,
                          model |-> IF m = Unset THEN k.model ELSE m,
                          saved |-> TRUE]
      /\ tainted' = (tainted \/ c \in raced)
      /\ raced' = raced \ {c}
      /\ call' = [call EXCEPT ![c] = IF c = PageWorker
                                     THEN [step |-> "read", kind |-> "rewrite"]
                                     ELSE NoCall]
      /\ UNCHANGED <<adapter, session, root, disk, keys, trusted, settled, form,
                     calls, edits, restarts>>

(* The route that exchanges the adapter and writes nothing. *)
ConfigureProvider(c, setting) ==
  /\ c # PageWorker
  /\ setting.provider # "unsupported"
  /\ Free(c)
  /\ calls' = calls + 1
  /\ adapter' = AdapterFor(setting)
  /\ raced' = raced \cup Writing
  /\ settled' = FALSE
  /\ UNCHANGED <<verification, session, root, disk, keys, trusted, tainted, call,
                 form, edits, restarts>>

-----------------------------------------------------------------------------
(* load_workspace changes the root and nothing else. *)
LoadWorkspace(w) ==
  /\ w \in created /\ w # root
  /\ calls < MaxCalls /\ calls' = calls + 1
  /\ root' = w
  /\ raced' = raced \cup Writing
  /\ settled' = FALSE
  /\ UNCHANGED <<adapter, verification, session, disk, keys, trusted, tainted,
                 call, form, edits, restarts>>

(* create_workspace goes on to a settings write where there are no settings, *)
(* or when it was given an advancement mode.                                *)
CreateWorkspace(c, w, given) ==
  /\ c # PageWorker
  /\ Enter(c, IF config[w] = Unset \/ given
              THEN [step |-> "read", kind |-> "write", body |-> Nothing] ELSE NoCall)
  /\ root' = w
  /\ created' = created \cup {w}
  /\ raced' = raced \cup (IF w = root THEN {} ELSE Writing)
  /\ settled' = (settled /\ w = root)
  /\ UNCHANGED <<adapter, verification, session, config, keys, trusted, tainted,
                 form, edits, restarts>>

(* The user edits .env while the process runs: it is read at every use. *)
EditDotEnv(p, k) ==
  /\ edits < MaxEdits /\ edits' = edits + 1
  /\ k # dotEnv[p]
  /\ dotEnv' = [dotEnv EXCEPT ![p] = k]
  /\ settled' = FALSE
  /\ UNCHANGED <<memory, disk, processEnv, call, form, trusted, raced, tainted,
                 calls, restarts>>

(* Mutant: the saved settings are not restored. *)
RestartLocal ==
  LET c == ReadConfig(Home)
  IN  /\ restarts < MaxRestarts /\ restarts' = restarts + 1
      /\ root' = Home
      /\ session' = [p \in External |-> Unset]
      /\ verification' = Unverified
      /\ adapter' = Deterministic
      /\ call' = [d \in Clients |-> NoCall]
      /\ form' = Closed
      /\ raced' = {} /\ tainted' = FALSE
      /\ settled' = (c.provider # "unsupported")
      /\ UNCHANGED <<disk, keys, trusted, calls, edits>>

(* A new process: the settings of its workspace are restored, their keys     *)
(* looked for, and everything typed or noted is gone.                        *)
Restart ==
  LET c == ReadConfig(Home)
  IN  /\ restarts < MaxRestarts /\ restarts' = restarts + 1
      /\ root' = Home
      /\ session' = [p \in External |-> Unset]
      /\ verification' = Unverified
      /\ adapter' = MakeAdapter(c, IF c.provider \in External
                                   THEN Credential(<<processEnv[c.provider],
                                                     dotEnv[c.provider]>>)
                                   ELSE Unset)
      /\ call' = [d \in Clients |-> NoCall]
      /\ form' = Closed
      /\ raced' = {} /\ tainted' = FALSE
      /\ settled' = (c.provider # "unsupported")
      /\ UNCHANGED <<disk, keys, trusted, calls, edits>>

-----------------------------------------------------------------------------
(* What the page fills in for a model that is not set. *)
Displayed(m) == IF m = Unset THEN PageModel ELSE m

(* The Settings page: a draft of the saved settings is made once, and its    *)
(* badge says connected when the workspace is ready.                         *)
OpenSettings ==
  LET c == ReadConfig(root)
  IN  /\ form.status = "closed"
      /\ \E p \in External :
           /\ c.provider \in External => p = c.provider
           /\ form' = [status |-> IF Readiness = "ready" THEN "connected"
                                  ELSE "not_tested",
                       draft |-> [provider |-> p,
                                  model |-> Displayed(c.model),
                                  key |-> Unset],
                       edited |-> FALSE]
      /\ UNCHANGED <<memory, disk, keys, history, call, calls, edits, restarts>>

(* Mutant: an edit leaves the badge. *)
EditDraftQuietly(draft) ==
  /\ form.status # "closed" /\ draft # form.draft
  /\ edits < MaxEdits /\ edits' = edits + 1
  /\ form' = [form EXCEPT !.draft = draft, !.edited = @ \/ form.status = "testing"]
  /\ UNCHANGED <<memory, disk, keys, history, call, calls, restarts>>

(* An edit takes back a badge that says connected, and only that one. *)
EditDraft(draft) ==
  /\ form.status # "closed" /\ draft # form.draft
  /\ edits < MaxEdits /\ edits' = edits + 1
  /\ form' = [status |-> IF form.status = "connected" THEN "changed_since_test"
                         ELSE form.status,
              draft |-> draft,
              edited |-> form.edited \/ form.status = "testing"]
  /\ UNCHANGED <<memory, disk, keys, history, call, calls, restarts>>

(* Both buttons are disabled while a test runs. *)
PressButton(kind) ==
  /\ form.status \notin {"closed", "testing"}
  /\ Enter(PageWorker, Asking(kind, SettingOf(form.draft), form.draft.key))
  /\ form' = [form EXCEPT !.status = "testing", !.edited = FALSE]
  /\ UNCHANGED <<memory, disk, keys, history, edits, restarts>>

-----------------------------------------------------------------------------
Ask(c) ==
  \/ AskCurrent(c)
  \/ \E kind \in {"test", "save"}, s \in Offers, k \in Keys \cup {Unset} :
       AskDraft(c, kind, s, k)

Work(c) == \/ TestFails(c) \/ TestPasses(c)
           \/ ReadForMerge(c) \/ WriteFile(c) \/ Configure(c) \/ NoteVerification(c)

SetupNext ==
  \/ \E c \in Clients :
       \/ Ask(c) \/ Work(c)
       \/ \E b \in Bodies : BeginWrite(c, b)
       \/ \E s \in Offers : ConfigureProvider(c, s)
       \/ \E w \in Workspaces, given \in BOOLEAN : CreateWorkspace(c, w, given)
  \/ \E w \in Workspaces : LoadWorkspace(w)
  \/ \E p \in External, k \in Keys \cup {Unset} : EditDotEnv(p, k)
  \/ Restart
  \/ OpenSettings
  \/ \E d \in Draft : EditDraft(d)
  \/ \E kind \in {"test", "save"} : PressButton(kind)

SetupSpec == SetupInit /\ [][SetupNext]_setupVars

-----------------------------------------------------------------------------
(* Somebody stands for these settings: a request they passed, or the caller *)
(* of a settings write that said they were connected.                       *)
Vouchers == proven \cup vouched

(* The verification in a workspace's file is of a provider and a model that  *)
(* passed a real request together, or that a settings write itself brought,  *)
(* whatever calls overlapped, whichever workspace was switched to meanwhile, *)
(* and however often the process restarted.                                  *)
SavedEvidenceIsReal ==
  \A w \in Workspaces :
    LET e == ReadConfig(w).evidence IN e.status = "connected" => SettingOf(e) \in Vouchers

(* The console says ready only of settings that passed a request exactly as  *)
(* they are in force, or were so vouched for.  Excepted are processes in     *)
(* which another call cut into a save between its reading the settings and   *)
(* its noting the verification: that note takes the model of whatever file   *)
(* is there.                                                                 *)
ReadyWasProven ==
  Readiness = "ready" /\ ~tainted => SettingOf(ReadConfig(root)) \in Vouchers

(* What the file and the console say to be verified passed a request, or is  *)
(* the word of a settings write's caller.                                    *)
VerifiedWasProven == SavedEvidenceIsReal /\ ReadyWasProven

(* After a save, a settings write, a new workspace or a restart which no     *)
(* other call cut into, Agent calls are served with the workspace's own      *)
(* settings and the credential found now, until the workspace is switched,   *)
(* .env is edited or the adapter is exchanged by itself.  The settings are   *)
(* those that are saved or those that are read: a model name with a slash    *)
(* makes the difference.                                                     *)
AgentServesSettings ==
  settled => adapter \in {AdapterFor(Saved(root)), AdapterFor(ReadConfig(root))}

(* The badge says connected only of a draft that passed a request as it is   *)
(* shown, or of settings vouched for as the page shows them, unless the      *)
(* draft was edited while its test was running.                              *)
ConnectedWasTested ==
  form.status = "connected" /\ ~form.edited /\ ~tainted =>
    SettingOf(form.draft) \in proven \cup {[v EXCEPT !.model = Displayed(@)] : v \in vouched}
=============================================================================
