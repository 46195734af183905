---------------------------- MODULE Notification ----------------------------
(***************************************************************************)
(* Who is notified of a message, of one thread of one channel or           *)
(* conversation: the notify-channel job of its sender's request            *)
(* (notification.processor), the notice to the subscribers of the thread   *)
(* (createReplyNotifications), and the settings both read                  *)
(* (src/src/notification).                                                 *)
(*                                                                         *)
(* An action is a statement with the reads it follows from.  Texts, pages  *)
(* of notices and whether they were read are left out; the settings are    *)
(* four cases.                                                             *)
(***************************************************************************)
EXTENDS Naturals, FiniteSets

CONSTANTS
    Users,         \* members of the channel or conversation
    MaxPosts,      \* bound: messages sent
    MaxChanges,    \* bound: settings and subscriptions changed by hand
    Attempts       \* attempts of a job

VARIABLES
    direct,     \* a conversation, where only those mentioned are notified
    author,     \* author of the message the thread is about, 0 before the first
                \* reply
    setting,    \* setting[u]: the override of the target, or the default
    sub,        \* sub[u]: the row of thread_subscriptions
    post,       \* post[m]: the request that sends m, and its job
    notice,     \* notice[m][u]: how many rows of notifications u was given for m
    changes,    \* how often something was changed by hand
    moved       \* history: moved[m]: users whose subscription changed between
                \* the two reads, or whose notice a second attempt repeated

vars == <<direct, author, setting, sub, post, notice, changes, moved>>

Posts    == 1 .. MaxPosts
Settings == {"default", "everything", "nothing", "no_replies"}
NoPost   == [pc |-> "none", job |-> "none", tries |-> 0, sender |-> 0, reply |-> FALSE,
             who |-> {}, group |-> "none", to |-> {}, jobTo |-> {}, reads |-> {}]

Subscribed == {u \in Users : sub[u] = "on"}
Set(m, q)  == post' = [post EXCEPT ![m] = q]

\* one of the two has read the subscriptions and the other has not, or its
\* job may read them again
Between(m) ==
    /\ post[m].reads # {}
    /\ post[m].job \notin {"done", "failed"} \/ post[m].pc \notin {"reply", "over"}
Subscribe(u, as) ==
    /\ sub' = [sub EXCEPT ![u] = as]
    /\ moved' = [m \in Posts |-> IF Between(m) /\ sub[u] # as THEN moved[m] \cup {u} ELSE moved[m]]

(***************************************************************************)
(* The request: createMessage from its job on                              *)
(***************************************************************************)
Sending(u, reply, who, group) ==
    [NoPost EXCEPT !.pc = "enqueue", !.sender = u, !.reply = reply, !.who = who, !.group = group]

Send(m) ==
    \E u \in Users, reply \in BOOLEAN, group \in {"none", "channel", "here"} : \E who \in SUBSET (Users \ {u}) :
        /\ post[m].pc = "none" /\ \A n \in 1 .. (m - 1) : post[n].pc # "none"
        /\ Set(m, Sending(u, reply, who, group))
        /\ author' \in IF reply /\ author = 0 THEN Users ELSE {author}
        /\ UNCHANGED <<direct, setting, sub, notice, changes, moved>>

\* without Redis the request runs the job itself, once
Enqueue(m) ==
    LET q == post[m] IN
    /\ q.pc = "enqueue"
    /\ \/ Set(m, [q EXCEPT !.pc = "replier", !.job = "queued", !.tries = Attempts])
       \/ Set(m, [q EXCEPT !.pc = "inline", !.job = "queued", !.tries = 1])
    /\ UNCHANGED <<direct, author, setting, sub, notice, changes, moved>>

Returned(m) ==
    /\ post[m].pc = "inline" /\ post[m].job \in {"done", "failed"}
    /\ Set(m, [post[m] EXCEPT !.pc = IF post[m].job = "done" THEN "replier" ELSE "over"])
    /\ UNCHANGED <<direct, author, setting, sub, notice, changes, moved>>

\* ensureThreadSubscription of the sender, then of the author
Replier(m) ==
    LET q == post[m] IN
    /\ q.pc \in {"replier", "author"}
    /\ IF ~q.reply THEN Set(m, [q EXCEPT !.pc = "over"]) /\ UNCHANGED <<sub, moved>>
       ELSE LET u == IF q.pc = "replier" THEN q.sender ELSE author IN
            /\ Set(m, [q EXCEPT !.pc = IF q.pc = "replier" THEN "author" ELSE "subscribers"])
            /\ IF sub[u] = "none" THEN Subscribe(u, "on") ELSE UNCHANGED <<sub, moved>>
    /\ UNCHANGED <<direct, author, setting, notice, changes>>

\* createReplyNotifications reads the subscriptions and the settings
Subscribers(m) ==
    LET q == post[m] IN
    /\ q.pc = "subscribers"
    /\ Set(m, [q EXCEPT !.pc = "reply", !.reads = @ \cup {"reply"},
                        !.to = {u \in Subscribed \ {q.sender} : setting[u] # "no_replies"}])
    /\ UNCHANGED <<direct, author, setting, sub, notice, changes, moved>>

Give(m, to) == notice' = [notice EXCEPT ![m] = [u \in Users |-> IF u \in to THEN @[u] + 1 ELSE @[u]]]

Reply(m) ==
    LET q == post[m] IN
    /\ q.pc = "reply"
    /\ Give(m, q.to)
    /\ Set(m, [q EXCEPT !.pc = "over"])
    /\ UNCHANGED <<direct, author, setting, sub, changes, moved>>

(***************************************************************************)
(* The job: handleNotifyChannel                                            *)
(***************************************************************************)
Mention(q, u) == IF u \in q.who THEN "direct" ELSE q.group

ShouldNotify(u, mention) ==
    /\ setting[u] # "nothing"
    /\ setting[u] = "everything" \/ mention # "none"

\* mutation: subscribers of the thread are not left to the other notice
ForJobAll(q, here) ==
    {u \in Users \ {q.sender} :
        /\ direct => Mention(q, u) # "none"
        /\ Mention(q, u) = "here" => u \in here
        /\ ShouldNotify(u, Mention(q, u))}

\* those connected and not away are here
ForJob(q, here) ==
    {u \in Users \ {q.sender} :
        /\ direct => Mention(q, u) # "none"
        /\ Mention(q, u) = "here" => u \in here
        /\ ~(q.reply /\ u \in Subscribed)
        /\ ShouldNotify(u, Mention(q, u))}

JobReads(m) ==
    LET q == post[m] IN
    /\ q.job = "queued"
    /\ \E here \in {{}, Users} :
         Set(m, [q EXCEPT !.job = "insert", !.jobTo = ForJob(q, here), !.reads = @ \cup {"job"}])
    /\ UNCHANGED <<direct, author, setting, sub, notice, changes, moved>>

JobInserts(m) ==
    LET q == post[m] IN
    /\ q.job = "insert"
    /\ Give(m, q.jobTo)
    /\ Set(m, [q EXCEPT !.job = "mentions"])
    /\ UNCHANGED <<direct, author, setting, sub, changes, moved>>

\* the rows of mentions
JobEnds(m) ==
    /\ post[m].job = "mentions"
    /\ Set(m, [post[m] EXCEPT !.job = "done"])
    /\ UNCHANGED <<direct, author, setting, sub, notice, changes, moved>>

\* the job fails before a statement and is attempted again from the start
JobFails(m) ==
    LET q == post[m] IN
    /\ q.job \in {"insert", "mentions"}
    /\ Set(m, [q EXCEPT !.job = IF q.tries > 1 THEN "queued" ELSE "failed", !.tries = @ - 1])
    /\ moved' = IF q.job = "mentions" THEN [moved EXCEPT ![m] = @ \cup q.jobTo] ELSE moved
    /\ UNCHANGED <<direct, author, setting, sub, notice, changes>>

(***************************************************************************)
(* Members                                                                 *)
(***************************************************************************)
\* updateChannelOverride
SetOverride(u) ==
    /\ changes < MaxChanges /\ changes' = changes + 1
    /\ \E s \in Settings \ {setting[u]} : setting' = [setting EXCEPT ![u] = s]
    /\ UNCHANGED <<direct, author, sub, post, notice, moved>>

\* toggleThreadMute
MuteThread(u) ==
    /\ changes < MaxChanges /\ changes' = changes + 1
    /\ \E as \in {"on", "muted"} : Subscribe(u, as)
    /\ UNCHANGED <<direct, author, setting, post, notice>>

Init ==
    /\ direct \in BOOLEAN /\ author = 0
    /\ setting = [u \in Users |-> "default"] /\ sub = [u \in Users |-> "none"]
    /\ post = [m \in Posts |-> NoPost] /\ notice = [m \in Posts |-> [u \in Users |-> 0]]
    /\ changes = 0 /\ moved = [m \in Posts |-> {}]

Next ==
    \/ \E m \in Posts : \/ Send(m) \/ Enqueue(m) \/ Returned(m) \/ Replier(m) \/ Subscribers(m) \/ Reply(m)
                        \/ JobReads(m) \/ JobInserts(m) \/ JobEnds(m) \/ JobFails(m)
    \/ \E u \in Users : SetOverride(u) \/ MuteThread(u)

Spec == Init /\ [][Next]_vars

(***************************************************************************)
(* Properties                                                              *)
(***************************************************************************)
\* Nobody is notified twice of one message, by the job and by the notice to
\* the thread, unless its subscription changed between the two or the job
\* was attempted again after it had inserted the notices.
OneNotice == \A m \in Posts, u \in Users : notice[m][u] > 1 => u \in moved[m]

=============================================================================
