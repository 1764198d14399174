----------------------------- MODULE UserConfig -----------------------------
(***************************************************************************)
(* The user's OpenSSH configuration as the connection's settings are read  *)
(* from it: the expansion of Include into one flat list of the directives  *)
(* that are active for a host (kaduox-ssh-openssh: openssh_include.rs,     *)
(* with the patterns of openssh_match.rs).  The expansion is the recursion *)
(* of expand_connection_file, written with its stack.  Without a host the  *)
(* files are expanded whole, for the list of hosts to choose from          *)
(* (host_catalog.rs).                                                      *)
(*                                                                         *)
(* A file is a sequence of lines [kind, pats, paths]: an "option", a       *)
(* "host" or "match" line with its patterns, an "include" with the path    *)
(* patterns it names, or a line that is refused: an "unsupported" Match,   *)
(* an "invalid" option where it is not active.  A pattern is a sequence of *)
(* characters, "*", "?" and "esc" (a backslash) among them.                *)
(***************************************************************************)
EXTENDS Naturals, Sequences, FiniteSets, SequencesExt

CONSTANTS
    Configs,            \* what the user's files may hold: name -> lines
    Order,              \* all names, in the order of their paths
    Root,               \* ~/.ssh/config
    Hosts,              \* the names a connection may be asked for, NoHost for the catalog
    MaxIncludeDepth, MaxIncludeFiles, MaxConfigLines

VARIABLES
    files, host,
    stack,      \* the files being expanded, the innermost last
    entered,    \* files_seen
    read,       \* the lines read so far
    out,        \* the lines emitted, each with the Includes it came through
    result      \* "running", "ok" or "err"

vars == <<files, host, stack, entered, read, out, result>>

NoHost == <<>>

TypeOK ==
    /\ result \in {"running", "ok", "err"}
    /\ Len(stack) <= MaxIncludeDepth + 1
    /\ entered <= MaxIncludeFiles /\ read <= MaxConfigLines
    /\ \A d \in DOMAIN stack : stack[d].at \in 0..Len(files[stack[d].file])
    /\ result = "ok" => stack = <<>>

Init ==
    /\ files \in Configs /\ host \in Hosts
    /\ stack = <<>> /\ entered = 0 /\ read = 0 /\ out = <<>>
    /\ result = "running"

-----------------------------------------------------------------------------
(* Patterns *)
\* glob_match and wildcard_match.  A trailing "esc" does not get this far
\* (parse_arguments), and the patterns of Match have none.
GlobMatch(p, s) ==
    LET next(i) == CHOOSE n \in i..(Len(p) + 1) :
                      /\ \A k \in i..(n - 1) : p[k] = "*"
                      /\ n > Len(p) \/ p[n] # "*"
        m[i \in 1..(Len(p) + 1), j \in 1..(Len(s) + 1)] ==
            IF i > Len(p) THEN j > Len(s)
            ELSE CASE p[i] = "*" -> LET n == next(i)
                                    IN n > Len(p) \/ \E k \in j..(Len(s) + 1) : m[n, k]
                   [] p[i] = "?" -> j <= Len(s) /\ m[i + 1, j + 1]
                   [] p[i] = "esc" -> j <= Len(s) /\ s[j] = p[i + 1] /\ m[i + 2, j + 1]
                   [] OTHER -> j <= Len(s) /\ s[j] = p[i] /\ m[i + 1, j + 1]
    IN m[1, 1]

\* match_hostname_pattern_list: the list is read in order, and a negated pattern
\* that matches ends it.
PatternListMatches(pats) ==
    LET hit(i) == GlobMatch(pats[i].pat, host)
    IN /\ \E i \in DOMAIN pats : ~pats[i].neg /\ hit(i)
       /\ \A i \in DOMAIN pats : pats[i].neg => ~hit(i)

\* expand_path_pattern, for each argument of an Include: the files there are, in the
\* order of their paths.  No name here starts with a period.
PathsOf(line) ==
    LET found(i) == SelectSeq(Order, LAMBDA f : f \in DOMAIN files /\ GlobMatch(line.paths[i], f))
    IN FlattenSeq([i \in DOMAIN line.paths |->
                      [k \in DOMAIN found(i) |-> [file |-> found(i)[k], arg |-> i]]])

-----------------------------------------------------------------------------
(* ExpansionState *)
Stop(r) == result' = r /\ UNCHANGED <<stack, entered, read, out>>

Top == stack[Len(stack)]
WithTop(frame) == [stack EXCEPT ![Len(stack)] = frame]

\* enter_file and read_config, by expand_connection_file.  An inactive Include is
\* entered too, for its errors; nothing in it can become active (never_match).
Enter(f, arg, rest, active, never) ==
    IF \/ Len(stack) > MaxIncludeDepth
       \/ entered >= MaxIncludeFiles
       \/ \E d \in DOMAIN stack : stack[d].file = f
       \/ read + Len(files[f]) > MaxConfigLines
    THEN Stop("err")
    ELSE /\ stack' = Append(rest, [file |-> f, arg |-> arg, at |-> 0, todo |-> <<>>,
                                   active |-> active /\ ~never, never |-> never])
         /\ entered' = entered + 1
         /\ read' = read + Len(files[f])
         /\ UNCHANGED <<out, result>>

Start ==
    /\ result = "running" /\ entered = 0
    /\ Enter(Root, 0, <<>>, TRUE, FALSE)
    /\ UNCHANGED <<files, host>>

\* The next file of the Include at hand.
EnterIncludeFresh ==
    /\ result = "running" /\ stack # <<>> /\ Top.todo # <<>>
    /\ LET next == Head(Top.todo)
       IN Enter(next.file, next.arg, WithTop([Top EXCEPT !.todo = Tail(@)]), Top.active, FALSE)
    /\ UNCHANGED <<files, host>>

EnterInclude ==
    /\ result = "running" /\ stack # <<>> /\ Top.todo # <<>>
    /\ LET next == Head(Top.todo)
       IN Enter(next.file, next.arg, WithTop([Top EXCEPT !.todo = Tail(@)]), Top.active,
                Top.never \/ ~Top.active)
    /\ UNCHANGED <<files, host>>

\* The chain of lines an emitted line came through.
Trail == [d \in DOMAIN stack |-> [file |-> stack[d].file, arg |-> stack[d].arg,
                                  line |-> stack[d].at + IF d = Len(stack) THEN 1 ELSE 0]]

\* One line of the innermost file.
Line ==
    /\ result = "running" /\ stack # <<>> /\ Top.todo = <<>> /\ host # NoHost
    /\ Top.at < Len(files[Top.file])
    /\ LET line == files[Top.file][Top.at + 1]
           On(a) == stack' = WithTop([Top EXCEPT !.at = @ + 1, !.active = a])
       IN CASE line.kind \in {"host", "match"} ->
                 /\ On(~Top.never /\ PatternListMatches(line.pats))
                 /\ UNCHANGED <<entered, read, out, result>>
            [] line.kind = "include" ->
                 /\ stack' = WithTop([Top EXCEPT !.at = @ + 1, !.todo = PathsOf(line)])
                 /\ UNCHANGED <<entered, read, out, result>>
            [] line.kind \in {"option", "invalid"} /\ Top.active ->
                 /\ On(TRUE)
                 /\ out' = Append(out, Trail)
                 /\ UNCHANGED <<entered, read, result>>
            [] line.kind = "option" /\ ~Top.active ->
                 On(FALSE) /\ UNCHANGED <<entered, read, out, result>>
            [] OTHER -> Stop("err")
    /\ UNCHANGED <<files, host>>

\* The same for the catalog, where every line is kept and only Includes are looked at.
CatalogLine ==
    /\ result = "running" /\ stack # <<>> /\ Top.todo = <<>> /\ host = NoHost
    /\ Top.at < Len(files[Top.file])
    /\ LET line == files[Top.file][Top.at + 1]
       IN /\ stack' = WithTop([Top EXCEPT !.at = @ + 1, !.todo = PathsOf(line)])
          /\ out' = IF line.kind = "include" THEN out ELSE Append(out, Trail)
    /\ UNCHANGED <<files, host, entered, read, result>>

\* The includer goes on in the state it was in.
Return ==
    /\ result = "running" /\ stack # <<>> /\ Top.todo = <<>>
    /\ Top.at = Len(files[Top.file])
    /\ stack' = Front(stack)
    /\ result' = IF Len(stack) = 1 THEN "ok" ELSE "running"
    /\ UNCHANGED <<files, host, entered, read, out>>

Next == Start \/ EnterInclude \/ Line \/ CatalogLine \/ Return

\* parse_host_catalog: the names of the Host lines that stand for one host each.
Aliases ==
    LET line(t) == files[Last(t).file][Last(t).line]
        concrete(p) == ~p.neg /\ ToSet(p.pat) \intersect {"*", "?"} = {}
    IN {p.pat : p \in {q \in UNION {ToSet(line(t).pats) :
                                    t \in {u \in ToSet(out) : line(u).kind = "host"}} : concrete(q)}}

Spec == Init /\ [][Next]_vars
FairSpec == Spec /\ WF_vars(Next)

-----------------------------------------------------------------------------
(* What the files mean, said without the recursion. *)
\* A pattern denotes the names it can be laid over, each of its signs a stretch.
Denotes(p, s) ==
    LET run(i) == Cardinality({k \in 1..(i - 1) : \A n \in k..(i - 1) : p[n] = "esc"})
        literal(i) == run(i) % 2 = 1
    IN \E cut \in [0..Len(p) -> 0..Len(s)] :
          /\ cut[0] = 0 /\ cut[Len(p)] = Len(s)
          /\ \A i \in 1..Len(p) :
                LET w == SubSeq(s, cut[i - 1] + 1, cut[i])
                IN /\ cut[i - 1] <= cut[i]
                   /\ CASE literal(i) -> w = <<p[i]>>
                        [] ~literal(i) /\ p[i] = "esc" -> w = <<>>
                        [] ~literal(i) /\ p[i] = "?" -> Len(w) = 1
                        [] ~literal(i) /\ p[i] = "*" -> TRUE
                        [] OTHER -> w = <<p[i]>>

Includes(f, n, i, g) ==
    /\ files[f][n].kind = "include" /\ g \in DOMAIN files /\ i \in DOMAIN files[f][n].paths
    /\ Denotes(files[f][n].paths[i], g)

\* The line a trail leads to.
LineAt(t) == files[Last(t).file][Last(t).line]

\* The ways from the root through Includes to a line, up to the depth allowed.
Trails ==
    LET on(f, i) == {[file |-> f, arg |-> i, line |-> n] : n \in DOMAIN files[f]}
        further(t) == UNION {IF Includes(Last(t).file, Last(t).line, i, g) THEN on(g, i) ELSE {} :
                                g \in DOMAIN files, i \in DOMAIN LineAt(t).paths}
        trails[n \in 1..(MaxIncludeDepth + 1)] ==
            IF n = 1 THEN {<<x>> : x \in on(Root, 0)}
            ELSE trails[n - 1] \union UNION {{Append(t, x) : x \in further(t)} : t \in trails[n - 1]}
    IN trails[MaxIncludeDepth + 1]

\* The heading a line of a file stands under, 0 for none.
Heading(f, n) ==
    LET above == {k \in 1..(n - 1) : files[f][k].kind \in {"host", "match"}}
    IN IF above = {} THEN 0 ELSE CHOOSE k \in above : \A j \in above : j <= k

UnderMatching(x) ==
    LET h == Heading(x.file, x.line)
        pats == files[x.file][h].pats
    IN h = 0 \/ /\ \E i \in DOMAIN pats : ~pats[i].neg /\ Denotes(pats[i].pat, host)
                /\ ~\E i \in DOMAIN pats : pats[i].neg /\ Denotes(pats[i].pat, host)

\* The trails of the options that hold for the host.
Holding == {t \in Trails : /\ LineAt(t).kind \in {"option", "invalid"}
                           /\ \A d \in DOMAIN t : UnderMatching(t[d])}

Place(f) == CHOOSE i \in DOMAIN Order : Order[i] = f

\* Trail t comes before u: at the first place they differ.
Before(t, u) ==
    \E d \in DOMAIN t \intersect DOMAIN u :
        /\ SubSeq(t, 1, d - 1) = SubSeq(u, 1, d - 1)
        /\ \/ t[d].arg < u[d].arg
           \/ t[d].arg = u[d].arg /\ Place(t[d].file) < Place(u[d].file)
           \/ t[d].arg = u[d].arg /\ t[d].file = u[d].file /\ t[d].line < u[d].line

(* The expansion emits the options that hold for the host, in the order in    *)
(* which the files and Includes put them, and nothing else: a Host or Match   *)
(* block of an included file neither escapes the Include's own block nor      *)
(* changes the includer's (expand_connection_file_inner, glob_match,          *)
(* match_hostname_pattern_list).                                              *)
Resolved ==
    result = "ok" /\ host # NoHost =>
        /\ ToSet(out) = Holding
        /\ \A i \in 1..(Len(out) - 1) : Before(out[i], out[i + 1])

(* The catalog lists each host the user could name: those of every Host line  *)
(* an Include leads to, wherever the Include stands, and no pattern           *)
(* (expand_catalog_file_inner, parse_host_catalog).                           *)
Catalogued ==
    result = "ok" /\ host = NoHost =>
        Aliases = {n \in UNION {{p.pat : p \in {q \in ToSet(LineAt(t).pats) : ~q.neg}} :
                                   t \in {u \in Trails : LineAt(u).kind = "host"}} :
                      \A i \in DOMAIN n : n[i] \notin {"*", "?"}}

(* A configuration is refused only for a cause: a line that is refused, an    *)
(* Include that leads back to a file it came through, or a limit.  In         *)
(* particular a file may be included more than once (active_paths).           *)
RefusedForCause ==
    result = "err" =>
        \/ \E t \in Trails :
              \/ LineAt(t).kind = "unsupported" /\ host # NoHost
              \/ LineAt(t).kind = "invalid" /\ host # NoHost /\ \E d \in DOMAIN t : ~UnderMatching(t[d])
              \/ LineAt(t).kind = "include" /\ \E g \in DOMAIN files, i \in DOMAIN LineAt(t).paths :
                    /\ Includes(Last(t).file, Last(t).line, i, g)
                    /\ Len(t) > MaxIncludeDepth \/ \E d \in DOMAIN t : t[d].file = g
        \/ entered = MaxIncludeFiles
        \/ \E f \in DOMAIN files : read + Len(files[f]) > MaxConfigLines

(* Whatever the files include, the expansion ends (enter_file).               *)
ExpansionEnds == <>(result # "running")
=============================================================================
