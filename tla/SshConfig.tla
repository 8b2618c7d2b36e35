----------------------------- MODULE SshConfig -----------------------------
(***************************************************************************)
(* How sqsh finds out where to connect, and as whom: the target of the     *)
(* command line, ~/.ssh/config, the options, $USER and the defaults        *)
(* (config.rs, target.rs); and how a run with ControlPersist passes what   *)
(* it found to the background master, which is another run of the program  *)
(* and reads ~/.ssh/config again (spawn_master in control.rs).             *)
(*                                                                         *)
(* A text is the sequence of its characters, an argument is a text, and a  *)
(* line is a keyword in lower case with its arguments. The quotes and      *)
(* comments that tokenize_config_line takes care of are left out, and so   *)
(* are empty options, signs before numbers, the home directory in paths,   *)
(* and further spellings of a value (sec and second for s, ask for auto).  *)
(* The arguments of a forward are the parts between its colons.            *)
(***************************************************************************)
EXTENDS Integers, SequencesExt

CONSTANTS
    Chars,    \* the characters
    Files,    \* what ~/.ssh/config may hold; a missing file is an empty one
    Targets,  \* the targets that a user may give
    Options,  \* the options that a user may give
    UserEnv   \* $USER, or None

None == <<>>
Text == Seq(Chars)
Scalars ==
    {"hostname", "user", "port", "identityfile", "controlpath", "controlmaster", "controlpersist"}
Forwards == {"localforward", "remoteforward"}
Line == [keyword : STRING, args : Seq(Text)]

VARIABLES
    file,      \* ~/.ssh/config
    target,    \* the target this run was given
    options,   \* the options it was given
    status,    \* "target", "lines", "resolved" or "failed"
    dest,      \* the target, parsed
    next,      \* the line to read next
    active,    \* whether the lines are for this host
    found,     \* found[k]: the arguments of the first line for k, or None
    forwards,  \* the forwards of the lines read so far
    config,    \* what was resolved (ClientConfig)
    asked      \* config of the run that spawned this one

given == <<file, target, options, asked>>
reading == <<next, active, found, forwards>>
vars == <<given, reading, status, dest, config>>

-----------------------------------------------------------------------------
Digit == [c \in {"0", "1", "2", "3", "4", "5", "6", "7", "8", "9"} |->
    CASE c = "0" -> 0 [] c = "1" -> 1 [] c = "2" -> 2 [] c = "3" -> 3 [] c = "4" -> 4
      [] c = "5" -> 5 [] c = "6" -> 6 [] c = "7" -> 7 [] c = "8" -> 8 [] c = "9" -> 9]

IsNumber(s) == s # None /\ \A i \in DOMAIN s : s[i] \in DOMAIN Digit
Number(s) == FoldLeft(LAMBDA n, c : 10 * n + Digit[c], 0, s)
IsPort(s) == IsNumber(s) /\ Number(s) < 2 ^ 16

Decimal[n \in Nat] ==
    LET last == <<CHOOSE c \in DOMAIN Digit : Digit[c] = n % 10>> IN
        IF n < 10 THEN last ELSE Decimal[n \div 10] \o last

Or(a, b) == IF a # None THEN a ELSE b

\* args.join(" ")
Joined(args) == FoldLeft(LAMBDA s, t : IF s = None THEN t ELSE s \o <<" ">> \o t, None, args)

\* Target::parse: [user@]host[:port], the host in brackets if it has colons.
ParseTarget(s) ==
    LET at == SelectInSeq(s, LAMBDA c : c = "@")
        rest == SubSeq(s, at + 1, Len(s))
        bracket == rest # None /\ rest[1] = "["
        close == SelectInSeq(rest, LAMBDA c : c = "]")
        colon == SelectLastInSeq(rest, LAMBDA c : c = ":")
        end == IF bracket THEN close ELSE IF colon > 1 THEN colon ELSE Len(rest) + 1
        host == SubSeq(rest, IF bracket THEN 2 ELSE 1, end - 1)
        after == SubSeq(rest, IF bracket THEN end + 1 ELSE end, Len(rest))
    IN  [user |-> SubSeq(s, 1, at - 1), host |-> host,
         port |-> IF after = None THEN None ELSE Tail(after),
         ok |-> /\ s # None /\ at # 1 /\ host # None
                /\ bracket => close # 0
                /\ after # None => after[1] = ":" /\ IsPort(Tail(after))]

Lower(c) == CASE c = "A" -> "a" [] c = "B" -> "b" [] OTHER -> c

\* wildcard_match, of a pattern and a value
Wildcard[pv \in Text \X Text] ==
    LET p == pv[1]
        v == pv[2]
    IN  CASE p = None -> v = None
          [] p # None /\ p[1] = "*" ->
                Wildcard[<<Tail(p), v>>] \/ (v # None /\ Wildcard[<<p, Tail(v)>>])
          [] OTHER -> /\ v # None
                      /\ p[1] = "?" \/ Lower(p[1]) = Lower(v[1])
                      /\ Wildcard[<<Tail(p), Tail(v)>>]

\* Faulty variant: a negated pattern is just one that does not match.
MatchIgnoringNegation(patterns, h) ==
    \E i \in DOMAIN patterns : patterns[i][1] # "!" /\ Wildcard[<<patterns[i], h>>]

\* host_patterns_match
PatternsMatch(patterns, h) ==
    /\ \E i \in DOMAIN patterns : patterns[i][1] # "!" /\ Wildcard[<<patterns[i], h>>]
    /\ ~ \E i \in DOMAIN patterns : patterns[i][1] = "!" /\ Wildcard[<<Tail(patterns[i]), h>>]

\* ForwardSpec::parse
IsForward(parts) ==
    /\ Len(parts) \in {3, 4}
    /\ IsPort(parts[Len(parts) - 2]) /\ IsPort(parts[Len(parts)])
ForwardSpec(l) ==
    IF Len(l.args) = 4 THEN l ELSE [l EXCEPT !.args = <<<<"127.0.0.1">>>> \o @]

\* expand_ssh_path: what the pieces of a path stand for.
Expand(path, conf) ==
    [i \in DOMAIN path |->
        CASE path[i] = "%h" -> conf.host
          [] path[i] = "%n" -> conf.original
          [] path[i] = "%p" -> Decimal[conf.port]
          [] path[i] = "%r" -> conf.user
          [] OTHER -> <<path[i]>>]

Units == [s |-> 1, m |-> 60, h |-> 3600]
Yes == {<<"y", "e", "s">>, <<"t", "r", "u", "e">>}
No == {<<"n", "o">>, <<"f", "a", "l", "s", "e">>}
Disabled == [kind |-> "disabled", secs |-> 0]

\* ControlPersist::parse and parse_duration; an unknown unit is an error.
Unit(s) == IF s # None /\ s[Len(s)] \in DOMAIN Units THEN s[Len(s)] ELSE "s"
Amount(s) == IF s # None /\ s[Len(s)] \in DOMAIN Units THEN Front(s) ELSE s
IsPersist(s) == s \in {None} \cup Yes \cup No \/ IsNumber(Amount(s))
Persist(s) ==
    CASE s \in Yes -> [kind |-> "forever", secs |-> 0]
      [] s \in No \cup {None} -> Disabled
      [] OTHER -> [kind |-> "timeout", secs |-> Number(Amount(s)) * Units[Unit(s)]]

\* What tokenize_config_line makes of a file: no argument is empty. What clap
\* makes of the options: a port is one.
ASSUME ConfigAssumption ==
    /\ DOMAIN Digit \cup {" "} \subseteq Chars
    /\ Files \subseteq Seq(Line) /\ Targets \subseteq Text
    /\ \A f \in Files : \A i \in DOMAIN f :
        f[i].keyword \notin Forwards => None \notin Range(f[i].args)
    /\ \A o \in Options : {o.port, o.persist} \subseteq Text /\ (o.port = None \/ IsPort(o.port))

\* ControlPersist::as_arg
PersistArg(p) == IF p.kind = "timeout" THEN Decimal[p.secs] ELSE <<"y", "e", "s">>

-----------------------------------------------------------------------------
Nothing == [k \in Scalars |-> None]

Init ==
    /\ file \in Files /\ target \in Targets /\ options \in Options
    /\ status = "target" /\ dest = None /\ config = None /\ asked = None
    /\ next = 1 /\ active = TRUE /\ found = Nothing /\ forwards = None

GivenTarget ==
    /\ status = "target"
    /\ dest' = ParseTarget(target)
    /\ status' = IF dest'.ok THEN "lines" ELSE "failed"
    /\ UNCHANGED <<given, reading, config>>

(***************************************************************************)
(* SshHostConfig::parse, line by line.                                     *)
(***************************************************************************)
line == file[next]
Reading == status = "lines" /\ next <= Len(file)
Applies == Reading /\ line.keyword # "host" /\ active /\ line.args # None

ReadHost ==
    /\ Reading /\ line.keyword = "host"
    /\ active' = PatternsMatch(line.args, dest.host)
    /\ next' = next + 1
    /\ UNCHANGED <<given, status, dest, found, forwards, config>>

\* A line for another host, without a value, or of no keyword that is known.
Skip ==
    /\ Reading /\ line.keyword # "host"
    /\ ~active \/ line.args = None \/ line.keyword \notin Scalars \cup Forwards
    /\ next' = next + 1
    /\ UNCHANGED <<given, status, dest, active, found, forwards, config>>

\* Faulty variant: set, not set_once.
ReadScalarAgain ==
    /\ Applies /\ line.keyword \in Scalars
    /\ found' = [found EXCEPT ![line.keyword] = line.args]
    /\ next' = next + 1
    /\ UNCHANGED <<given, status, dest, active, forwards, config>>

\* Only the first value counts; a port that counts must be one.
ReadScalar ==
    /\ Applies /\ line.keyword \in Scalars
    /\ found[line.keyword] = None /\ line.keyword = "port" => IsPort(Joined(line.args))
    /\ found' = [found EXCEPT ![line.keyword] = Or(@, line.args)]
    /\ next' = next + 1
    /\ UNCHANGED <<given, status, dest, active, forwards, config>>

ReadForward ==
    /\ Applies /\ line.keyword \in Forwards /\ IsForward(line.args)
    /\ forwards' = Append(forwards, ForwardSpec(line))
    /\ next' = next + 1
    /\ UNCHANGED <<given, status, dest, active, found, config>>

ReadFails ==
    /\ Applies
    /\ \/ line.keyword = "port" /\ found["port"] = None /\ ~IsPort(Joined(line.args))
       \/ line.keyword \in Forwards /\ ~IsForward(line.args)
    /\ status' = "failed"
    /\ UNCHANGED <<given, reading, dest, config>>

(***************************************************************************)
(* resolve_with_home, after the file was read.                             *)
(***************************************************************************)
Value(k) == Joined(found[k])
PersistValue == Or(options.persist, Value("controlpersist"))
AtEnd == status = "lines" /\ next > Len(file)
Resolvable == IsPersist(PersistValue) /\ \A i \in DOMAIN options.forwards : IsForward(options.forwards[i].args)

Resolve ==
    /\ AtEnd /\ Resolvable
    /\ config' =
        LET conf == [host |-> Or(Value("hostname"), dest.host), original |-> dest.host,
                     user |-> Or(options.user, Or(dest.user,
                                  Or(Value("user"), Or(UserEnv, <<"r", "o", "o", "t">>)))),
                     port |-> Number(Or(options.port, Or(dest.port,
                                  Or(Value("port"), <<"2", "2", "2", "2">>))))]
            PathOf(k, default) ==
                IF found[k] = None THEN default ELSE Expand(Value(k), conf)
        IN  [host |-> conf.host, original |-> conf.original, user |-> conf.user, port |-> conf.port,
             identity |-> Or(options.identity, PathOf("identityfile", <<<<"id">>>>)),
             path |-> Or(options.path,
                 PathOf("controlpath", <<conf.user, conf.host, Decimal[conf.port]>>)),
             explicit |-> options.path # None \/ found["controlpath"] # None,
             auto |-> Value("controlmaster") \in Yes \cup {<<"a", "u", "t", "o">>},
             forwards |-> forwards
                 \o [i \in DOMAIN options.forwards |-> ForwardSpec(options.forwards[i])],
             persist |-> Persist(PersistValue), master |-> options.master]
    /\ status' = "resolved"
    /\ UNCHANGED <<given, reading, dest>>

ResolveFails ==
    /\ AtEnd /\ ~Resolvable
    /\ status' = "failed"
    /\ UNCHANGED <<given, reading, dest, config>>

\* Faulty variant: the user is not passed on.
SpawnOptionsButUser ==
    [user |-> None, port |-> Decimal[config.port], identity |-> config.identity,
     path |-> config.path, persist |-> PersistArg(config.persist), forwards |-> None,
     master |-> TRUE, subsystem |-> FALSE]

\* What spawn_master gives the program as options; its target is the host. The
\* port of the ssh fallback is not among them: the master's is always 22.
SpawnOptions ==
    [user |-> config.user, port |-> Decimal[config.port], identity |-> config.identity,
     path |-> config.path, persist |-> PersistArg(config.persist), forwards |-> None,
     master |-> TRUE, subsystem |-> FALSE]

\* A run with ControlPersist that finds no master spawns one. Whether it finds
\* one is ControlMaster's matter: here it may always not.
Spawn ==
    /\ status = "resolved" /\ ~options.subsystem /\ ~config.master
    /\ config.persist # Disabled
    /\ target' = config.host /\ options' = SpawnOptions /\ asked' = config
    /\ status' = "target" /\ dest' = None /\ config' = None
    /\ next' = 1 /\ active' = TRUE /\ found' = Nothing /\ forwards' = None
    /\ UNCHANGED file

Parse == ReadHost \/ Skip \/ ReadScalar \/ ReadForward \/ ReadFails
Next == GivenTarget \/ Parse \/ Resolve \/ ResolveFails \/ Spawn

Spec == Init /\ [][Next]_vars

-----------------------------------------------------------------------------
\* "host matching supports `*`, `?`, and negated patterns" (docs/client.md):
\* cut[i] is where in v the part ends that the i-th character of p stands for.
Stands(p, v) ==
    \E cut \in [0..Len(p) -> 0..Len(v)] :
        /\ cut[0] = 0 /\ cut[Len(p)] = Len(v)
        /\ \A i \in 1..Len(p) :
            IF p[i] = "*" THEN cut[i - 1] <= cut[i]
            ELSE /\ cut[i] = cut[i - 1] + 1
                 /\ p[i] = "?" \/ Lower(p[i]) = Lower(v[cut[i]])

Negated(p) == p[1] = "!"
Names(p, h) == Stands(IF Negated(p) THEN Tail(p) ELSE p, h)
IsHost(i) == file[i].keyword = "host"

\* The lines that are read are those whose Host line names the host, with
\* a pattern and with no negated one; however the file arranges them.
MatchesAsDocumented ==
    status = "lines" =>
        active = \A j \in 1..(next - 1) :
            (IsHost(j) /\ \A i \in (j + 1)..(next - 1) : ~IsHost(i)) =>
                {Negated(p) : p \in {q \in Range(file[j].args) : Names(q, dest.host)}} = {FALSE}

\* Line i is for host h: no Host line is before it, or the last one matches.
IsFor(i, h) ==
    \A j \in 1..(i - 1) :
        (IsHost(j) /\ \A k \in (j + 1)..(i - 1) : ~IsHost(k)) => PatternsMatch(file[j].args, h)

Supplies(i, k, h) == file[i].keyword = k /\ file[i].args # None /\ IsFor(i, h)

\* "scalar values follow OpenSSH's first-match-wins behavior"
\* (docs/client.md): what was found for a keyword is the value of the first
\* line for it among those that are for the host, and nothing if there is
\* none, wherever in the file they are.
FirstMatchWins ==
    status \in {"lines", "resolved"} =>
        \A k \in Scalars :
            \/ found[k] = None /\ \A i \in 1..(next - 1) : ~Supplies(i, k, dest.host)
            \/ \E i \in 1..(next - 1) :
                /\ Supplies(i, k, dest.host) /\ found[k] = file[i].args
                /\ \A j \in 1..(i - 1) : ~Supplies(j, k, dest.host)

\* Target::parse takes the whole of h for the host.
IsHostName(h) == h[1] # "[" /\ \A i \in DOMAIN h : h[i] \notin {":", "@"}

\* A line for a port or a forward that ends the program.
IsInvalid(l) ==
    \/ l.keyword = "port" /\ ~IsPort(Joined(l.args))
    \/ l.keyword \in Forwards /\ ~IsForward(l.args)

\* The background master connects to where the run that spawned it was to
\* connect, as the same user with the same key, listens where that run waits
\* for it, and stays as long; or it fails at a port or a forward of the file
\* that is for the resolved host and is not one. Unless ~/.ssh/config has a
\* HostName for the resolved host too, or the host is not one that can be given
\* as a target (it has colons and no brackets around it, or an @).
MasterDialsSameDestination ==
    (asked # None /\ IsHostName(asked.host)
        /\ ~ \E i \in DOMAIN file : Supplies(i, "hostname", asked.host)) =>
            /\ status = "resolved" =>
                \A f \in {"host", "user", "port", "identity", "path", "persist"} :
                    config[f] = asked[f]
            /\ status = "failed" =>
                \E i \in DOMAIN file :
                    Supplies(i, file[i].keyword, asked.host) /\ IsInvalid(file[i])
=============================================================================
