------------------------------ MODULE Sources ------------------------------
(***************************************************************************)
(* ruler.yaml (internal/source): how the sources and the alertmanagers of  *)
(* the file are read, their secrets and TLS material resolved, exemptions  *)
(* kept, refused or expired, and which sources a selector reaches.         *)
(*                                                                         *)
(* The file is what its author wrote and what the disk and the environment *)
(* answer.  A value is "" when it is left out; a file on disk is "none"    *)
(* when no path is written, and else "unreadable", "empty" or its content; *)
(* an environment variable likewise, "unset" when it is not set.  A client *)
(* certificate and its key also have the pair of paths they are at.  The   *)
(* operators give what the reading produces and, beside it, the checks it  *)
(* raises about each subject.                                              *)
(***************************************************************************)
EXTENDS Policy

When(cond, check) == IF cond THEN {check} ELSE {}

(* Match and selects: every term of the selector is what the source's      *)
(* labels say, and a label it lacks reads as ""; an empty selector reaches *)
(* no source.                                                              *)
LabelOf(src, k) == IF k \in DOMAIN src.labels THEN src.labels[k] ELSE ""
selects(selector, src) == \A k \in DOMAIN selector : LabelOf(src, k) = selector[k]
Match(sources, selector) ==
    IF DOMAIN selector = {} THEN {} ELSE {s \in sources : selects(selector, s)}

(* resolveSecret: a secret comes from one place and is never empty; on any *)
(* problem the value is "".                                                *)
SecretFails(s) ==
    \/ s.file # "none" /\ s.env # "none"
    \/ s.file \in {"unreadable", "empty"}
    \/ s.env \in {"unset", "empty"}
resolveSecret(s) ==
    IF SecretFails(s) THEN "" ELSE IF s.file # "none" THEN s.file
    ELSE IF s.env # "none" THEN s.env ELSE ""

(* tlsReader.resolve: the CA is read, and dropped when it cannot be used;  *)
(* of the client certificate the two paths are kept, for the handshakes to *)
(* read, when both halves can be read now and are a pair.                  *)
Unusable(f) == f \in {"unreadable", "empty"}
CAFails(ref) == Unusable(ref.ca) \/ ref.ca = "noPEM"
PairFails(ref) ==
    \/ (ref.cert = "none") # (ref.key = "none")
    \/ ref.cert # "none" /\ ref.key # "none"
       /\ (Unusable(ref.cert) \/ Unusable(ref.key) \/ ref.cert # ref.key)
NoTLS == [on |-> FALSE, ca |-> "none", paths |-> "none", insecure |-> FALSE]
resolve(ref) ==
    [on |-> TRUE, ca |-> IF CAFails(ref) THEN "none" ELSE ref.ca,
     paths |-> IF PairFails(ref) THEN "none" ELSE ref.paths, insecure |-> ref.insecure]
MaterialFails(ref) == CAFails(ref) \/ PairFails(ref)

(* Source.resolveTLS: `secure: false` beside a tls_config contradicts it.  *)
Contradicts(s) == s.tls.set /\ s.secure = "false"
Plain(s) == ~s.tls.set /\ s.secure # "true"
SourceTLS(s) == IF Contradicts(s) \/ Plain(s) THEN NoTLS ELSE resolve(s.tls)
SourceTLSFails(s) == Contradicts(s) \/ (~Plain(s) /\ MaterialFails(s.tls))

(* parseExemption and checkExemptionCheck: an exemption is kept when it    *)
(* names a configurable check, says why, and says until when.  until is an *)
(* instant, NoUntil when it is left out or does not parse.                 *)
NoUntil == -1
Exemptable(e) == Configurable(e.check) /\ e.reason # "" /\ e.until # NoUntil
parseExemptions(raw) == {e \in raw : Exemptable(e)}
ExemptionProblems(raw) == When(\E e \in raw : ~Exemptable(e), "source/exemption")

(* exempts and expired: an exemption holds strictly before its end.        *)
exempts(list, check, now) == \E e \in list : e.check = check /\ now < e.until
Expired(list, now) == \E e \in list : ~(now < e.until)

(* checkConnection and checkQueryTarget: what is missing, what is no bare  *)
(* identifier, which numbers are negative.  A number that does not parse   *)
(* is reported by its type and reads as zero, with no default.             *)
Caps == {"source/evaluation-delay", "source/max-rows", "source/max-execution-time",
         "source/max-memory-usage", "source/max-concurrent-queries"}
checkConnection(s) ==
    When(s.address = "", "source/address") \union When(s.database = "", "source/database")
    \union When(s.username = "", "source/username")
checkQueryTarget(s) ==
    When(s.table \in {"", "notBare"}, "source/table")
    \union When(s.timestamp \in {"", "notBare"}, "source/timestamp-column")
    \union {c \in Caps : s.caps[c] = "negative"}
Cap(written, c) ==
    CASE written = "" /\ c = "source/max-concurrent-queries" -> "zero"
      [] written = "" -> "default"
      [] written = "malformed" -> "zero"
      [] OTHER -> written

(* parseSource: one entry of the list, whatever is wrong with it.          *)
parseSource(s) ==
    [name |-> s.name, address |-> s.address, table |-> s.table, labels |-> s.labels,
     password |-> resolveSecret(s.secret), tls |-> SourceTLS(s),
     caps |-> [c \in Caps |-> Cap(s.caps[c], c)],
     policy |-> Parse(s.checks), exemptions |-> parseExemptions(s.exempt)]

(* checkName, given the names the entries before it took.                  *)
checkName(s, earlier) == When(s.name = "" \/ s.name \in earlier, "source/name")

SourceProblems(s, earlier) ==
    checkName(s, earlier) \union checkConnection(s)
    \union When(SecretFails(s.secret), "source/password")
    \union When(SourceTLSFails(s), "source/tls") \union checkQueryTarget(s)
    \union When(\E c \in Caps : s.caps[c] = "malformed", "yaml/type")
    \union ParseProblems(s.checks) \union ExemptionProblems(s.exempt)

-----------------------------------------------------------------------------
(* The alertmanagers block: only its first entry is read.                  *)

(* parseAlertmanagerURLs: what does not parse, carries a credential, has   *)
(* another scheme or no host, and what is given twice, is left out.        *)
GoodURL(u) == u.scheme \in {"http", "https"} /\ ~u.userinfo /\ u.host # ""
URLs(raw) ==
    FoldLeft(LAMBDA urls, u : IF GoodURL(u) /\ \A i \in 1..Len(urls) : urls[i] # u
                              THEN Append(urls, u) ELSE urls, <<>>, raw)
URLProblems(raw) == When(Len(URLs(raw)) # Len(raw) \/ raw = <<>>, "alertmanager/url")

(* Alertmanager.resolveTLS: a tls_config needs every url to be https.      *)
AllHTTPS(urls) == \A i \in 1..Len(urls) : urls[i].scheme = "https"
AlertmanagerTLS(a) == IF ~a.tls.set \/ ~AllHTTPS(URLs(a.urls)) THEN NoTLS ELSE resolve(a.tls)
AlertmanagerTLSFails(a) == a.tls.set /\ (~AllHTTPS(URLs(a.urls)) \/ MaterialFails(a.tls))

(* The credential, and Credential(): basic auth before authorization; none *)
(* when both are written or basic auth has no user name.                   *)
AuthFails(a) ==
    \/ a.basic.set /\ a.authz.set
    \/ a.basic.set /\ (a.basic.username = "" \/ SecretFails(a.basic.secret))
    \/ a.authz.set /\ SecretFails(a.authz.secret)
Credential(a) ==
    CASE a.basic.set /\ a.authz.set -> <<>>
      [] a.basic.set -> IF a.basic.username = "" THEN <<>>
                        ELSE <<"Basic", a.basic.username, resolveSecret(a.basic.secret)>>
      [] a.authz.set -> <<IF a.authz.kind = "" THEN "Bearer" ELSE a.authz.kind,
                          resolveSecret(a.authz.secret)>>
      [] OTHER -> <<>>

parseAlertmanager(a) ==
    [urls |-> URLs(a.urls), credential |-> Credential(a), tls |-> AlertmanagerTLS(a),
     exemptions |-> parseExemptions(a.exempt)]
AlertmanagerProblems(a) ==
    URLProblems(a.urls) \union When(AuthFails(a), "alertmanager/auth")
    \union When(AlertmanagerTLSFails(a), "alertmanager/tls") \union ExemptionProblems(a.exempt)
parseAlertmanagers(raw) == IF raw = <<>> THEN <<>> ELSE <<parseAlertmanager(Head(raw))>>
Subject(a) == IF a.urls = <<>> THEN "" ELSE a.urls[1].host

-----------------------------------------------------------------------------
(* The whole file, a sequence of source entries and one of alertmanager    *)
(* entries, and loadSources: the file read, then what has expired and what *)
(* connects without verification at this moment.                           *)
Findings(subject, names) ==
    {NewProblem("ruler.yaml", subject, c, checks[c].severity) : c \in names}
EarlierNames(raw, i) == {raw[j].name : j \in 1..(i - 1)} \ {""}
ParseFile(f) ==
    [sources |-> {parseSource(f.sources[i]) : i \in 1..Len(f.sources)},
     alertmanagers |-> parseAlertmanagers(f.alertmanagers)]
FileProblems(f) ==
    (UNION {Findings(f.sources[i].name, SourceProblems(f.sources[i], EarlierNames(f.sources, i)))
            : i \in 1..Len(f.sources)})
    \union (IF f.alertmanagers = <<>> THEN {}
            ELSE Findings("", AlertmanagerProblems(Head(f.alertmanagers))))
    \union Findings("", When(Len(f.alertmanagers) > 1, "alertmanager/url"))

ExpiredExemptions(file, now) ==
    (UNION {Findings(s.name, When(Expired(s.exemptions, now), "source/exemption")) : s \in file.sources})
    \union UNION {Findings(Subject(a), When(Expired(a.exemptions, now), "source/exemption"))
                  : a \in Range(file.alertmanagers)}

InsecureTLS(file, now) ==
    (UNION {Findings(s.name, When(s.tls.insecure /\ ~exempts(s.exemptions, "source/tls-insecure", now),
                                  "source/tls-insecure")) : s \in file.sources})
    \union UNION {Findings(Subject(a),
                    When(a.tls.insecure /\ ~exempts(a.exemptions, "alertmanager/tls-insecure", now),
                         "alertmanager/tls-insecure")) : a \in Range(file.alertmanagers)}

loadSources(f, now) ==
    LET file == ParseFile(f) IN
    [file |-> file,
     problems |-> FileProblems(f) \union ExpiredExemptions(file, now) \union InsecureTLS(file, now)]
=============================================================================
