----------------------------- MODULE HostReport -----------------------------
(***************************************************************************)
(* From a Shodan host report to findings: MapHost of internal/shodan       *)
(* (mapping.go), a pure function.                                          *)
(*                                                                         *)
(* A report says of a host: the open ports, CVEs it merely names, whether  *)
(* a default password is tagged, and one entry per service that was seen.  *)
(* The same port may be seen several times (one entry per virtual host),   *)
(* and a CVE is mentioned wherever it applies.  The wording of findings,   *)
(* their order and the address of the host are left out.                   *)
(***************************************************************************)
EXTENDS Integers, SequencesExt

databaseModules == {"mongodb", "elastic", "elasticsearch", "redis", "mysql", "postgresql",
                    "postgres", "cassandra", "memcached", "memcache", "couchdb", "influxdb",
                    "kibana", "riak", "etcd", "clickhouse"}

remoteDesktopModules == {"vnc", "rdp", "rfb", "rtsp", "x11", "team-viewer"}

\* Versions that mapCert takes for weak: any name with "SSL" in it, also one
\* with the sign that the server does not offer it; "TLSv1" is not among them.
weakVersions == {"SSLv2", "SSLv3", "-SSLv2", "-SSLv3", "TLSv1.0", "TLSv1.1"}

\* Absent: no common name, no module.
NoName == ""

\* What the decoder makes of a response, as far as MapHost reads it: any number
\* of entries, ports and names, in any order and with repetitions.
IsReport(report) ==
    /\ report.ports \in Seq(Int)
    /\ report.vulns \in Seq(STRING)
    /\ report.data \in Seq(Range(report.data))
    /\ \A s \in Range(report.data) :
          /\ IsFiniteSet(s.shares) /\ s.anonymous \in BOOLEAN
          /\ IsFiniteSet(DOMAIN s.vulns) /\ DOMAIN s.vulns \subseteq STRING
          /\ \A c \in DOMAIN s.vulns : s.vulns[c].cvss \in Int /\ s.vulns[c].verified \in BOOLEAN

\* CVSS in tenths.
severityFromCVSS(cvss) ==
    CASE cvss >= 90 -> "critical"
      [] cvss \in 70..89 -> "high"
      [] cvss \in 40..69 -> "medium"
      [] cvss \in 1..39 -> "low"
      [] OTHER -> "info"

(***************************************************************************)
(* kind, name and port identify a finding.  flag is what its Detail adds   *)
(* for the score: verified, anonymous or remote_desktop.  seen: the entry  *)
(* of the report it is from, 0 for the host, so that two entries that give *)
(* the same finding give it twice.                                         *)
(***************************************************************************)
Finding(seen, kind, name, port, severity, flag) ==
    [seen |-> seen, kind |-> kind, name |-> name, port |-> port,
     severity |-> severity, cvss |-> 0, flag |-> flag]

\* The finding, if there is reason for it.
Where(finding, reason) == {f \in {finding} : reason}

----------------------------------------------------------------------------
(* CVEs *)

\* Wrong variant of addCVE: the last mention counts.
addLastCVE(found, mention) ==
    IF mention.cve = NoName THEN found
    ELSE [c \in {mention.cve} |->
             [cvss |-> mention.cvss, severity |-> severityFromCVSS(mention.cvss),
              verified |-> mention.verified]] @@ found

\* found: CVE -> what the mentions so far make of it.
addCVE(found, mention) ==
    LET cve == mention.cve
        new == [cvss |-> mention.cvss, severity |-> severityFromCVSS(mention.cvss),
                verified |-> mention.verified]
        worse == cve \in DOMAIN found /\ mention.cvss > found[cve].cvss
        same == cve \in DOMAIN found /\ ~worse
    IN  CASE cve = NoName -> found
          [] worse -> [found EXCEPT ![cve] = [new EXCEPT !.verified = @ \/ found[cve].verified]]
          [] same  -> [found EXCEPT ![cve].verified = @ \/ mention.verified]
          [] OTHER -> [c \in DOMAIN found \union {cve} |-> IF c = cve THEN new ELSE found[c]]

\* The host names a CVE without rating it, a service rates it.
Mentions(report) ==
    LET ofHost == [i \in 1..Len(report.vulns) |->
                      [cve |-> report.vulns[i], cvss |-> 0, verified |-> FALSE]]
        ofService(s) == SetToSeq({[cve |-> c, cvss |-> s.vulns[c].cvss,
                                   verified |-> s.vulns[c].verified] : c \in DOMAIN s.vulns})
    IN  ofHost \o FlattenSeq([i \in 1..Len(report.data) |-> ofService(report.data[i])])

CVEs(report) ==
    LET found == FoldLeft(addCVE, <<>>, Mentions(report)) IN
    {[Finding(0, "cve", c, 0, found[c].severity, found[c].verified) EXCEPT !.cvss = found[c].cvss] :
        c \in DOMAIN found}

----------------------------------------------------------------------------
(* Services *)

moduleOr(service) ==
    CASE service.module # NoName    -> service.module
      [] service.module = NoName /\ service.transport # NoName -> service.transport
      [] OTHER                      -> "unknown"

\* With a remote desktop on it.
Remote(service) ==
    service.screenshot # "none"
        /\ (service.module \in remoteDesktopModules \/ service.screenshot = "remote desktop")

isSelfSigned(ssl) == ssl.subject # NoName /\ ssl.issuer # NoName /\ ssl.subject = ssl.issuer

mapCert(i, s) ==
    Where(Finding(i, "cert", "cert_expired", s.port, "medium", FALSE), s.ssl.expired)
    \union Where(Finding(i, "cert", "cert_selfsigned", s.port, "medium", FALSE), isSelfSigned(s.ssl))
    \union {Finding(i, "cert", v, s.port, "medium", FALSE) : v \in s.ssl.versions \intersect weakVersions}

MapService(i, s) ==
    Where(Finding(i, "service", moduleOr(s), s.port, "info", FALSE), s.product \/ s.module # NoName)
    \union Where(Finding(i, "weakness", "exposed_database", s.port, "high", FALSE),
                 s.module \in databaseModules)
    \union Where(Finding(i, "screenshot", NoName, s.port, IF Remote(s) THEN "high" ELSE "medium",
                         Remote(s)), s.screenshot # "none")
    \union Where(Finding(i, "weakness", "remote_desktop", s.port, "high", FALSE), Remote(s))
    \union {Finding(i, "smb_share", share, s.port, IF s.anonymous THEN "high" ELSE "medium",
                    s.anonymous) : share \in s.shares}
    \union Where(Finding(i, "mqtt_topic", NoName, s.port, "medium", FALSE),
                 s.module = "mqtt" /\ s.mqtt)
    \union mapCert(i, s)

\* The ports are listed per host; one that is listed twice counts once.
MapHost(report) ==
    {Finding(0, "port", NoName, p, "info", FALSE) : p \in Range(report.ports)}
    \union CVEs(report)
    \union (UNION {MapService(i, report.data[i]) : i \in 1..Len(report.data)})
    \union Where(Finding(0, "weakness", "default_password", 0, "critical", FALSE),
                 report.defaultPassword)

=============================================================================
