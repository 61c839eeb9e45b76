----------------------------- MODULE Assistant -----------------------------
(***************************************************************************)
(* The creator's assistant.  A message, with the files it names, is kept   *)
(* before the language model is asked; the model answers, fails, or plans  *)
(* one action, which is carried out under a row of the audit log.  Nothing *)
(* of this is a transaction: every statement is a step, and a conversation *)
(* can be deleted between any two.                                         *)
(***************************************************************************)
EXTENDS Naturals, FiniteSets

CONSTANTS
    Calls,      \* requests to chat; c also names the messages request c leaves
    Dialogs,    \* conversation ids
    Files,      \* attachments of the creator
    Terms,      \* what min_price_usdc, target_price_usdc and visibility can be together
    MaxCrashes, \* bound: requests whose worker dies
    Nothing

VARIABLES
    parallel,  \* how many requests the server handles at once
    call,      \* call[c]: how far request c is, with what it has read
    said,      \* requests whose user message is stored,
    replied,   \*   and whose assistant message is
    files,     \* files[f]: the message attachment f is linked to
    rows,      \* rows[c]: the status of c's AssistantAction row
    spent,     \* requests whose CreatorExpense row is stored
    terms,     \* of the asset the plans are about
    wrote,     \* history: requests that changed terms
    crashes

chatVars == <<parallel, call, said, replied, files, rows, spent, terms, wrote, crashes>>

Plans == {"record_expense", "update_asset_terms", "prepare_registration", "unsupported"}
Statuses == {"completed", "awaiting_input", "rejected", "failed"}
Ended == {"idle", "done", "dead"}
Absent == "absent"     \* a file that is not uploaded yet
Unsent == "unsent"     \* source_message is null

Fresh == [at |-> "idle", dialog |-> Nothing, files |-> {}, plan |-> Nothing, terms |-> Nothing,
          status |-> Nothing]
Call == [at: Ended \cup {"checked", "linking", "asking", "planned", "acting", "verifying",
                         "finishing", "replying"},
         dialog: Dialogs \cup {Nothing}, files: SUBSET Files, plan: Plans \cup {Nothing},
         terms: Terms \cup {Nothing}, status: Statuses \cup {Nothing}]

ChatTypeOK ==
    /\ call \in [Calls -> Call]
    /\ said \subseteq Calls
    /\ replied \subseteq Calls
    /\ files \in [Files -> Calls \cup {Absent, Unsent}]
    /\ rows \in [Calls -> Statuses \cup {Nothing}]
    /\ spent \subseteq Calls
    /\ terms \in Terms

ChatInit ==
    /\ parallel \in 1..Cardinality(Calls)
    /\ call = [c \in Calls |-> Fresh]
    /\ said = {} /\ replied = {}
    /\ files = [f \in Files |-> Absent]
    /\ rows = [c \in Calls |-> Nothing]
    /\ spent = {}
    /\ terms \in Terms
    /\ wrote = {}
    /\ crashes = 0

----------------------------------------------------------------------------
\* What an ended request had read is of no use to anybody.
Move(c, at) == call' = [call EXCEPT ![c] = IF at \in Ended THEN [Fresh EXCEPT !.at = at, !.dialog = call[c].dialog]
                                                         ELSE [@ EXCEPT !.at = at]]
Decide(c, status) == call' = [call EXCEPT ![c].at = "finishing", ![c].status = status]

\* attach: a file that cannot be stored leaves nothing behind.
Upload(f) ==
    /\ files[f] = Absent
    /\ files' = [files EXCEPT ![f] = Unsent]
    /\ UNCHANGED <<parallel, call, said, replied, rows, spent, terms, wrote, crashes>>

\* _attachments_for_message: only files of the creator no message has taken.
Usable_Linked(fs) == \A f \in fs : files[f] # Absent
Usable(fs) == \A f \in fs : files[f] = Unsent

\* ask up to the first write; a refusal is 422.
Ask(c, d, fs) ==
    /\ call[c].at = "idle"
    /\ Cardinality({x \in Calls : call[x].at \notin Ended}) < parallel
    /\ call' = [call EXCEPT ![c] = IF Usable(fs)
                                   THEN [Fresh EXCEPT !.at = "checked", !.dialog = d, !.files = fs]
                                   ELSE [Fresh EXCEPT !.at = "done"]]
    /\ UNCHANGED <<parallel, said, replied, files, rows, spent, terms, wrote, crashes>>

Say(c) ==
    /\ call[c].at = "checked"
    /\ said' = said \cup {c}
    /\ Move(c, IF call[c].files = {} THEN "asking" ELSE "linking")
    /\ UNCHANGED <<parallel, replied, files, rows, spent, terms, wrote, crashes>>

\* The update names its rows only by id; a deleted message breaks the foreign key: 500.
Link(c) ==
    /\ call[c].at = "linking"
    /\ IF c \in said
       THEN /\ files' = [f \in Files |-> IF f \in call[c].files THEN c ELSE files[f]]
            /\ Move(c, "asking")
       ELSE UNCHANGED files /\ Move(c, "done")
    /\ UNCHANGED <<parallel, said, replied, rows, spent, terms, wrote, crashes>>

\* The model answers, or registration metadata, an analysis of the files, or any
\* error (503, with the message and its files kept).
Answered(c) ==
    /\ call[c].at = "asking"
    /\ \E at \in {"replying", "done"} : Move(c, at)
    /\ UNCHANGED <<parallel, said, replied, files, rows, spent, terms, wrote, crashes>>

Planned(c, p, t) ==
    /\ call[c].at = "asking"
    /\ call' = [call EXCEPT ![c].at = "planned", ![c].plan = p, ![c].terms = t]
    /\ UNCHANGED <<parallel, said, replied, files, rows, spent, terms, wrote, crashes>>

----------------------------------------------------------------------------
\* execute: the row comes first, as if the plan were rejected.  It refers to the
\* user message: without it, 500.
Record(c) ==
    /\ call[c].at = "planned"
    /\ IF c \in said THEN rows' = [rows EXCEPT ![c] = "rejected"] /\ Move(c, "acting")
                     ELSE UNCHANGED rows /\ Move(c, "done")
    /\ UNCHANGED <<parallel, said, replied, files, spent, terms, wrote, crashes>>

\* Handlers refuse arguments that are no numbers, or an asset that is not the
\* creator's; an exception is a failure.  Nothing is written then.
Refused(c) ==
    \/ call[c].plan \in {"unsupported", "record_expense", "update_asset_terms"} /\ Decide(c, "rejected")
    \/ call[c].plan \in {"record_expense", "update_asset_terms"} /\ Decide(c, "failed")
    \/ call[c].plan = "prepare_registration" /\ Decide(c, "awaiting_input")

\* The row created is compared in memory, so a stored expense is always verified.
Spend(c) ==
    /\ call[c].plan = "record_expense"
    /\ spent' = spent \cup {c}
    /\ Decide(c, "completed")
    /\ UNCHANGED <<terms, wrote>>

WriteTerms(c) ==
    /\ call[c].plan = "update_asset_terms"
    /\ terms' = call[c].terms
    /\ wrote' = wrote \cup {c}
    /\ Move(c, "verifying")
    /\ UNCHANGED spent

Act(c) ==
    /\ call[c].at = "acting"
    /\ \/ Refused(c) /\ UNCHANGED <<spent, terms, wrote>>
       \/ Spend(c)
       \/ WriteTerms(c)
    /\ UNCHANGED <<parallel, said, replied, files, rows, crashes>>

\* The asset is read again: somebody else's change in between is a failure.
VerifyTerms(c) ==
    /\ call[c].at = "verifying"
    /\ Decide(c, IF terms = call[c].terms THEN "completed" ELSE "failed")
    /\ UNCHANGED <<parallel, said, replied, files, rows, spent, terms, wrote, crashes>>

Finish_OnlyVerified(c) ==
    /\ call[c].at = "finishing"
    /\ rows' = IF call[c].status = "completed" THEN [rows EXCEPT ![c] = call[c].status] ELSE rows
    /\ Move(c, "replying")
    /\ UNCHANGED <<parallel, said, replied, files, spent, terms, wrote, crashes>>
Finish(c) ==
    /\ call[c].at = "finishing"
    /\ rows' = [rows EXCEPT ![c] = call[c].status]
    /\ Move(c, "replying")
    /\ UNCHANGED <<parallel, said, replied, files, spent, terms, wrote, crashes>>

\* The answer refers to no message: it is stored whether or not the question still is.
Reply(c) ==
    /\ call[c].at = "replying"
    /\ replied' = replied \cup {c}
    /\ Move(c, "done")
    /\ UNCHANGED <<parallel, said, files, rows, spent, terms, wrote, crashes>>

----------------------------------------------------------------------------
\* delete_conversation, a transaction: the messages go, what refers to them stays.
DeleteConversation(d) ==
    LET gone == {c \in Calls : call[c].dialog = d}
    IN  /\ gone \cap (said \cup replied) # {}
        /\ said' = said \ gone
        /\ replied' = replied \ gone
        /\ files' = [f \in Files |-> IF files[f] \in gone \cap said THEN Unsent ELSE files[f]]
        /\ UNCHANGED <<parallel, call, rows, spent, terms, wrote, crashes>>

\* The creator edits the same asset on its page.
EditAsset(t) ==
    /\ terms # t
    /\ terms' = t
    /\ UNCHANGED <<parallel, call, said, replied, files, rows, spent, wrote, crashes>>

WorkerDies(c) ==
    /\ call[c].at \notin Ended
    /\ crashes < MaxCrashes
    /\ crashes' = crashes + 1
    /\ Move(c, "dead")
    /\ UNCHANGED <<parallel, said, replied, files, rows, spent, terms, wrote>>

ChatNext ==
    \/ \E f \in Files : Upload(f)
    \/ \E c \in Calls : \E d \in Dialogs, fs \in SUBSET Files : Ask(c, d, fs)
    \/ \E c \in Calls : Say(c) \/ Link(c) \/ Answered(c)
    \/ \E c \in Calls : \E p \in Plans \ {"update_asset_terms"} : Planned(c, p, Nothing)
    \/ \E c \in Calls : \E t \in Terms : Planned(c, "update_asset_terms", t)
    \/ \E c \in Calls : Record(c) \/ Act(c) \/ VerifyTerms(c) \/ Finish(c) \/ Reply(c)
    \/ \E d \in Dialogs : DeleteConversation(d)
    \/ \E t \in Terms : EditAsset(t)
    \/ \E c \in Calls : WorkerDies(c)

ChatSpec == ChatInit /\ [][ChatNext]_chatVars

----------------------------------------------------------------------------
(* Properties.                                                             *)

\* The audit log of the assistant can be trusted (execute's docstring): whatever
\* it changed has a row, a row that says completed has its change, and a request
\* that got to its end never leaves a change under a row that says rejected.
\* Only a worker that dies between the change and the row's update does.
ChangesAreRecorded ==
    \A c \in Calls :
        /\ c \in spent \cup wrote => rows[c] # Nothing
        /\ rows[c] = "completed" => c \in spent \cup wrote
        /\ rows[c] = "rejected" /\ c \in spent \cup wrote =>
              call[c].at \in {"verifying", "finishing", "dead"}

\* A file sent with a message stays with it as long as the message does, so that
\* an old conversation keeps its files.  Two requests at once can both find the
\* file unsent, and the later one takes it.
FilesStayWithMessage ==
    [][parallel = 1 => \A f \in Files : files[f] \in said' => files'[f] = files[f]]_chatVars
=============================================================================
