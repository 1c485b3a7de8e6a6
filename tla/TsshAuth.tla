------------------------------ MODULE TsshAuth ------------------------------
(* What tssh asks and offers while it logs in: the keys of the servers     *)
(* (tssh/known_hosts.go), the keys of the user and the questions of the    *)
(* server (tssh/auth_method.go), and the list of sessions to attach to     *)
(* (tssh/attach.go).                                                       *)
EXTENDS Component, Integers, Sequences, SequencesExt, FiniteSets

CONSTANTS
  HostKeys,       \* keys a server may present
  Questions,      \* questions of keyboard-interactive authentication
  MaxAsked,       \* bound: questions asked
  PickItems,      \* tsshd processes to attach to
  PickHeights     \* heights of the terminal

-----------------------------------------------------------------------------
(* Keys of the servers.  Hop 1 logs in, then hop 2; each may exchange keys  *)
(* again at any time, which calls its callback again.  A line is a host     *)
(* with a key; db is what a hop read of file when its login began.          *)
Hops == {1, 2}

HostKeyInit ==
  \E host \in {[c \in Hops |-> 1], [c \in Hops |-> c]}, strict \in {"yes", "accept-new", "no", "ask"},
     primary \in BOOLEAN, file \in SUBSET {<<1, k>> : k \in HostKeys} :
    st = [part |-> "hostkey", host |-> host, strict |-> strict, primary |-> primary, file |-> file,
          db |-> [c \in Hops |-> {}], at |-> [c \in Hops |-> "start"], line |-> [c \in Hops |-> <<0, "none">>],
          in |-> {}, success |-> FALSE, lock |-> 0, accepted |-> {}, atLogin |-> {}, agreed |-> {}, again |-> FALSE]

HostKeyAt(c, at) == Is("hostkey") /\ st.at[c] = at

HostKeyGoes(c, at) == [at |-> [st.at EXCEPT ![c] = at]]

(* The callback returns: nil lets the login, or the exchange, go on.        *)
HostKeyTrusted(c) == [in |-> st.in \cup {c}] @@ HostKeyGoes(c, "idle")

HostKeyRefused(c) == [in |-> st.in \ {c}] @@ HostKeyGoes(c, "failed")

(* getHostKeyCallback: the files are read when the login of a hop begins,   *)
(* after the login of the hop before it.                                    *)
LoadKnownHosts(c) ==
  /\ HostKeyAt(c, "start") /\ (c = 2 => 1 \in st.in)
  /\ Becomes([db |-> [st.db EXCEPT ![c] = st.file]] @@ HostKeyGoes(c, "idle"))

PresentKey(c) ==
  /\ HostKeyAt(c, "idle")
  /\ \E k \in HostKeys :
       Becomes([line |-> [st.line EXCEPT ![c] = <<st.host[c], k>>]] @@ HostKeyGoes(c, "verify"))

(* hostKeyCallback: a known key is trusted; a changed one only without      *)
(* checking; an unknown one goes to addHostKey.                             *)
HostKeyCallback(c) ==
  LET known == {l \in st.db[c] : l[1] = st.host[c]}
  IN /\ HostKeyAt(c, "verify")
     /\ Becomes(CASE st.line[c] \in known -> HostKeyTrusted(c)
                  [] known = {} /\ st.primary /\ st.strict = "yes" -> HostKeyRefused(c)
                  [] known = {} /\ st.primary /\ st.strict # "yes" -> HostKeyGoes(c, "lock")
                  [] (known # {} /\ st.line[c] \notin known) \/ (known = {} /\ ~st.primary) ->
                       IF st.strict = "no" THEN HostKeyTrusted(c) ELSE HostKeyRefused(c))

\* Mutant: what was accepted is looked up before the lock is taken.
AddHostKeyUnlocked(c) ==
  /\ HostKeyAt(c, "lock")
  /\ IF st.line[c] \in st.accepted THEN Becomes(HostKeyTrusted(c))
     ELSE IF st.success THEN Becomes(HostKeyRefused(c))
     ELSE Becomes(HostKeyGoes(c, IF st.strict = "ask" THEN "ask" ELSE "add"))

(* addHostKey, with its mutex: what was accepted before stays so; after the *)
(* login nothing else is; before it the user is asked, or not.              *)
AddHostKey(c) ==
  /\ HostKeyAt(c, "lock") /\ st.lock = 0
  /\ IF st.line[c] \in st.accepted THEN Becomes(HostKeyTrusted(c))
     ELSE IF st.success THEN Becomes(HostKeyRefused(c))
     ELSE Becomes([lock |-> c] @@ HostKeyGoes(c, IF st.strict = "ask" THEN "ask" ELSE "add"))

(* The user: yes or the fingerprint, no or the end of the input; anything   *)
(* else is asked for again.                                                 *)
UserSaysYes(c) ==
  /\ HostKeyAt(c, "ask")
  /\ Becomes([agreed |-> st.agreed \cup {st.line[c]}, again |-> st.again \/ st.line[c] \in st.agreed]
             @@ HostKeyGoes(c, "add"))

UserSaysNo(c) == HostKeyAt(c, "ask") /\ Becomes([lock |-> 0] @@ HostKeyRefused(c))

(* writeKnownHost may fail: a warning.                                      *)
WriteKnownHost(c) ==
  /\ HostKeyAt(c, "add")
  /\ \E file \in {st.file, st.file \cup {st.line[c]}} :
       Becomes([accepted |-> st.accepted \cup {st.line[c]}, file |-> file, lock |-> 0] @@ HostKeyTrusted(c))

(* sshConnect: after the last hop.  atLogin are the keys accepted by then,  *)
(* and the one that is being added.                                         *)
LoginSucceeded ==
  /\ Is("hostkey") /\ st.in = Hops /\ ~st.success
  /\ Becomes([success |-> TRUE, atLogin |-> st.accepted \cup {st.line[c] : c \in Hops \cap {st.lock}}])

HostKeyNext ==
  \/ LoginSucceeded
  \/ \E c \in Hops : LoadKnownHosts(c) \/ PresentKey(c) \/ HostKeyCallback(c) \/ AddHostKey(c)
                     \/ UserSaysYes(c) \/ UserSaysNo(c) \/ WriteKnownHost(c)

(* A hop is logged in, at rest, with a key that it read or that was         *)
(* accepted, unless keys are not checked; the user agrees to a key once;    *)
(* and once tssh is logged in no further key is accepted, but for the one   *)
(* the user is still being asked about.                                     *)
HostKeysAreAgreed ==
  Is("hostkey") =>
    /\ \A c \in st.in : st.at[c] = "idle" /\ st.strict # "no" => st.line[c] \in st.db[c] \cup st.accepted
    /\ ~st.again
    /\ st.success => st.accepted \subseteq st.atLogin

-----------------------------------------------------------------------------
(* Keys of the user.  identities are the paths that the command line ("b")  *)
(* and the configuration ("a", one of the usual files) name; each stands    *)
(* for a key, its file may be missing, its public key lie beside it, and    *)
(* its certificate too.                                                     *)
Paths == {"a", "b"}

UserKeys == {"u1", "u2"}

SignersInit ==
  \E keyOf \in [Paths -> UserKeys], files, pubs \in SUBSET Paths, implicit \in SUBSET {"b"}, explicit \in SUBSET {"u1"},
     identities \in {<<>>, <<"a">>, <<"b">>, <<"b", "a">>},
     agent \in {<<>>, <<"u1">>, <<"u2">>, <<"u1", "u2">>, <<"u2", "u1">>},
     only, openssh \in BOOLEAN :
    /\ keyOf["a"] = "u1"
    /\ st = [part |-> "signers", keyOf |-> keyOf, files |-> files, pubs |-> pubs, implicit |-> implicit,
             explicit |-> explicit, identities |-> identities, agent |-> agent, only |-> only,
             openssh |-> openssh, signers |-> <<>>, at |-> "collect"]

Signer(key, via, path) == [key |-> key, cert |-> FALSE, via |-> via, path |-> path]

(* getSigner: what the file holds, if it can be read.                       *)
GetSigner(path) == IF path \in st.files THEN <<Signer(st.keyOf[path], "file", path)>> ELSE <<>>

(* appendSignerCerts: after the key, the certificate that a CertificateFile *)
(* or the file beside the key holds for it.                                 *)
WithCerts(path, signer) ==
  LET cert == <<[signer EXCEPT !.cert = TRUE]>>
  IN <<signer>> \o (IF signer.key \in st.explicit THEN cert ELSE <<>>)
                \o (IF path \in st.implicit /\ st.keyOf[path] = signer.key THEN cert ELSE <<>>)

\* Mutant: a key is known by the path that it comes from.
AddPubKeySignersByPath(have, signers) ==
  FoldLeft(LAMBDA acc, s : IF \E i \in DOMAIN acc : acc[i].path = s.path /\ acc[i].cert = s.cert
                           THEN acc ELSE Append(acc, s), have, signers)

(* addPubKeySigners: a public key is offered once.                          *)
AddPubKeySigners(have, signers) ==
  FoldLeft(LAMBDA acc, s : IF \E i \in DOMAIN acc : acc[i].key = s.key /\ acc[i].cert = s.cert
                           THEN acc ELSE Append(acc, s), have, signers)

(* One identity: the agent signs for a key it holds.                        *)
IdentitySigners(path) ==
  LET key == st.keyOf[path]
      held == key \in ToSet(st.agent)
  IN CASE path \in st.pubs /\ held -> WithCerts("", Signer(key, "agent", path))
       [] ~(path \in st.pubs /\ held) /\ GetSigner(path) = <<>> -> <<>>
       [] ~(path \in st.pubs /\ held) /\ GetSigner(path) # <<>> ->
            WithCerts(path, IF held THEN Signer(key, "agent", path) ELSE GetSigner(path)[1])

Identities == SelectSeq(st.identities, LAMBDA path : path = "b" \/ ~st.openssh \/ path \in st.files)

AgentSigners == FlattenSeq([i \in DOMAIN st.agent |-> WithCerts("", Signer(st.agent[i], "agent", "ssh-agent"))])

(* getDefaultSigners: the usual files of the user.                          *)
DefaultSigners == FlattenSeq([i \in DOMAIN GetSigner("a") |-> WithCerts("a", GetSigner("a")[i])])

(* getPublicKeysAuthMethod: the identities, the agent unless only the       *)
(* identities are wanted, and without any identity the usual files.         *)
GetPublicKeysAuthMethod ==
  /\ Is("signers") /\ st.at = "collect"
  /\ LET named == FlattenSeq([i \in DOMAIN Identities |-> IdentitySigners(Identities[i])])
         agent == IF st.only THEN <<>> ELSE AgentSigners
         usual == IF Identities = <<>> THEN DefaultSigners ELSE <<>>
     IN Becomes([at |-> "done", signers |-> AddPubKeySigners(<<>>, named \o agent \o usual)])

(* Every key of a usable identity is offered, ahead of every other, and no  *)
(* key twice: servers count the offers.  The file is not used for a named   *)
(* key that the agent holds, and with IdentitiesOnly nothing but the        *)
(* identities is offered.                                                   *)
KeysAreOfferedOnce ==
  Is("signers") /\ st.at = "done" =>
    LET offered == st.signers
        usable == {p \in ToSet(Identities) : p \in st.files \/ (p \in st.pubs /\ st.keyOf[p] \in ToSet(st.agent))}
        named == {st.keyOf[p] : p \in usable}
    IN /\ \A i, j \in DOMAIN offered :
            offered[i].key = offered[j].key /\ offered[i].cert = offered[j].cert => i = j
       /\ named \subseteq {s.key : s \in ToSet(offered)}
       /\ \A i, j \in DOMAIN offered : offered[i].key \notin named /\ offered[j].key \in named => j < i
       /\ \A s \in ToSet(offered) : s.via = "file" /\ s.key \in named => s.key \notin ToSet(st.agent)
       /\ st.only /\ Identities # <<>> => {s.key : s \in ToSet(offered)} \subseteq named

-----------------------------------------------------------------------------
(* Questions of the server.  method is what is being tried; byQuestion and  *)
(* byIndex are the questions and the numbers that have a configured answer  *)
(* (a password is one question); used counts, for a question, the           *)
(* configured answers given to it.                                          *)
AskInit ==
  \E method \in {"kbd", "password"}, byQuestion \in SUBSET Questions, byIndex \in SUBSET (1..MaxAsked) :
    st = [part |-> "ask", method |-> method, byQuestion |-> byQuestion, byIndex |-> byIndex, idx |-> 0,
          seen |-> {}, tried |-> {}, warned |-> {}, used |-> [q \in Questions |-> 0], wrong |-> FALSE,
          tries |-> 1, at |-> "asked"]

(* readQuestionAnswerConfig: by the question, else by its number.           *)
Configured(q) == q \in st.byQuestion \/ st.idx + 1 \in st.byIndex

Answered(q, how) ==
  [idx |-> st.idx + 1, used |-> [st.used EXCEPT ![q] = IF how = "config" THEN @ + 1 ELSE @],
   wrong |-> st.wrong \/ (how = "config" /\ q \in st.seen)]

(* One question of a round: configured the first time, else the user, with  *)
(* a warning when the configured answer was not right.                      *)
AnswerQuestion(q) ==
  /\ Is("ask") /\ st.at = "asked" /\ st.method = "kbd" /\ st.idx < MaxAsked
  /\ Becomes(IF q \notin st.seen /\ Configured(q)
             THEN [seen |-> st.seen \cup {q}, tried |-> st.tried \cup {q}] @@ Answered(q, "config")
             ELSE [seen |-> st.seen \cup {q}, warned |-> st.warned \cup (st.tried \cap {q})] @@ Answered(q, "user"))

(* getPasswordAuthMethod: the configured password is the first.             *)
AnswerPassword(q) ==
  /\ Is("ask") /\ st.at = "asked" /\ st.method = "password" /\ st.idx < MaxAsked /\ st.seen \subseteq {q}
  /\ Becomes((IF st.idx = 0 /\ q \in st.byQuestion
              THEN [seen |-> {q}, tried |-> {q}, at |-> "sent"] @@ Answered(q, "config")
              ELSE [seen |-> {q}, warned |-> IF st.idx = 1 THEN st.tried ELSE st.warned, at |-> "sent"]
                   @@ Answered(q, "user")))

(* The answers of a round go to the server, ...                             *)
SendAnswers == Is("ask") /\ st.at = "asked" /\ st.method = "kbd" /\ Becomes([at |-> "sent"])

(* ... which accepts them, asks further, or refuses: RetryableAuthMethod    *)
(* tries three times.  The user may end it.                                 *)
ServerReplies ==
  /\ Is("ask") /\ st.at = "sent"
  /\ \/ Becomes([at |-> "in"])
     \/ st.method = "kbd" /\ Becomes([at |-> "asked"])
     \/ Becomes(IF st.tries < 3 THEN [at |-> "asked", tries |-> st.tries + 1] ELSE [at |-> "refused"])

UserEndsInput == Is("ask") /\ st.at = "asked" /\ Becomes([at |-> "refused"])

AskNext ==
  SendAnswers \/ ServerReplies \/ UserEndsInput \/ \E q \in Questions : AnswerQuestion(q) \/ AnswerPassword(q)

(* A configured answer is given to a question once, the first time that it  *)
(* is asked, however the rounds and the tries repeat it; the warning is     *)
(* only about an answer that was given.                                     *)
AnswersAreGivenOnce ==
  Is("ask") => /\ \A q \in Questions : st.used[q] <= 1
               /\ ~st.wrong /\ st.warned \subseteq {q \in Questions : st.used[q] = 1}

(* Authentication offers no key twice and no configured answer twice: a     *)
(* server closes the connection after a few failures.                       *)
AuthenticationIsSparing == KeysAreOfferedOnce /\ AnswersAreGivenOnce

-----------------------------------------------------------------------------
(* The list of sessions.  Row 0 is a new session, row i the i-th process.   *)
(* fetches are the rows whose preview is being fetched; preview is the row  *)
(* that is shown, Loading or Blank; View drew rows rows from offset on, and *)
(* fresh says that nothing has moved since.                                 *)
Loading == -1
Blank   == -2

PickInit ==
  st = [part |-> "pick", cursor |-> 0, offset |-> 0, height |-> 0, preview |-> Blank, fetches |-> {0},
        rows |-> 0, fresh |-> FALSE, chosen |-> 0, at |-> "running", result |-> <<"none">>]

Picking == Is("pick") /\ st.at = "running"

PickResize ==
  Picking /\ \E h \in PickHeights \ {st.height} : Becomes([height |-> h, fresh |-> FALSE])

PickTick == Picking /\ Becomes([fetches |-> st.fetches \cup {st.cursor}])

\* Mutant: a preview is shown whichever row is selected by now.
PreviewResultAny(i) ==
  Picking /\ i \in st.fetches /\ Becomes([fetches |-> st.fetches \ {i}, preview |-> i])

(* A preview that arrives for another row is dropped.                       *)
PreviewResult(i) ==
  /\ Picking /\ i \in st.fetches
  /\ Becomes([fetches |-> st.fetches \ {i}, preview |-> IF i = st.cursor THEN i ELSE st.preview])

(* The keys: up and down, round the ends.                                   *)
PickMove ==
  /\ Picking
  /\ \E by \in {-1, 1} :
       LET cursor == (st.cursor + by) % (PickItems + 1)
       IN Becomes([cursor |-> cursor, preview |-> Loading, fetches |-> st.fetches \cup {cursor}, fresh |-> FALSE])

PickEnter == Picking /\ Becomes([chosen |-> st.cursor, at |-> "chosen", fetches |-> {}])

PickQuit == Picking /\ Becomes([chosen |-> -1, at |-> "chosen", fetches |-> {}])

(* View: two lines of footer, two of border, two of title; a low window     *)
(* shows no list.  The first row follows the cursor.                        *)
PickView ==
  LET box == st.height - 4
      rows == box - 2
  IN /\ Picking /\ ~st.fresh
     /\ Becomes(IF box < 5 THEN [rows |-> 0, fresh |-> TRUE]
                ELSE [rows |-> rows, fresh |-> TRUE,
                      offset |-> CASE st.cursor < st.offset -> st.cursor
                                   [] st.cursor >= st.offset + rows -> st.cursor - rows + 1
                                   [] st.offset <= st.cursor /\ st.cursor < st.offset + rows -> st.offset])

(* attachToSession, getAttachCommand: the process, and its first session if *)
(* it is known to have one.                                                 *)
AttachToSession ==
  /\ Is("pick") /\ st.at = "chosen"
  /\ \E session \in BOOLEAN :
       Becomes([at |-> "done",
                result |-> CASE st.chosen < 0 -> <<"cancelled">>
                             [] st.chosen = 0 -> <<"new">>
                             [] st.chosen > 0 -> <<"attach", st.chosen, session>>])

PickNext ==
  \/ PickResize \/ PickTick \/ PickMove \/ PickEnter \/ PickQuit \/ PickView \/ AttachToSession
  \/ \E i \in 0..PickItems : PreviewResult(i)

(* The preview is of the selected row, however late the previews come; the  *)
(* selected row is among those that are drawn, whatever the height was      *)
(* before; and the process attached to is the selected one.                 *)
PickIsAsShown ==
  Is("pick") =>
    /\ st.preview \in {Blank, Loading, st.cursor}
    /\ st.fresh /\ st.rows > 0 => st.cursor \in st.offset..(st.offset + st.rows - 1) /\ st.offset <= PickItems
    /\ st.result[1] = "attach" => st.result[2] = st.cursor
=============================================================================
