------------------------------ MODULE Scoring ------------------------------
(***************************************************************************)
(* The score and grade of a set of findings: Score and Grade of            *)
(* internal/scoring, pure functions.  Weights and the multiplier are in    *)
(* tenths, penalties in hundredths of a point, so that the arithmetic is   *)
(* exact; the findings are those of HostReport.                            *)
(***************************************************************************)
EXTENDS Integers, FiniteSetsExt

Points(n) == 10 * n

DefaultWeights ==
    [CVECritical |-> Points(15), CVEHigh |-> Points(8), CVEMedium |-> Points(3),
     CVELow |-> Points(1), VerifiedMultiplier |-> 15, DefaultPassword |-> Points(40),
     RemoteDesktop |-> Points(25), ExposedDatabase |-> Points(25), AnonymousSMB |-> Points(20),
     SMBShare |-> Points(5), CertIssue |-> Points(5), WeakTLS |-> Points(5),
     MQTTExposed |-> Points(15), SensitivePort |-> Points(2)]

\* Nothing takes points back, and what is worse weighs no less. An operator may
\* save any table; only with one of these a score can be read as a rating.
Sensible(w) ==
    /\ w \in [DOMAIN DefaultWeights -> Nat]
    /\ w.CVELow <= w.CVEMedium /\ w.CVEMedium <= w.CVEHigh /\ w.CVEHigh <= w.CVECritical
    /\ w.VerifiedMultiplier >= 10
    /\ w.SMBShare <= w.AnonymousSMB

sensitivePorts == {21, 23, 135, 139, 445, 1433, 3306, 3389, 5432, 5900, 6379, 9200, 11211, 27017}

cvePenalty(severity, w) ==
    CASE severity = "critical" -> w.CVECritical
      [] severity = "high"     -> w.CVEHigh
      [] severity = "medium"   -> w.CVEMedium
      [] OTHER                 -> w.CVELow

weaknessPenalty(name, w) ==
    CASE name = "default_password" -> w.DefaultPassword
      [] name = "remote_desktop"   -> w.RemoteDesktop
      [] name = "exposed_database" -> w.ExposedDatabase
      [] OTHER                     -> 0

\* Wrong variant of Weight: verified CVEs weigh what others weigh more.
WeightUnverified(f, w) ==
    CASE f.kind = "cve"        -> cvePenalty(f.severity, w) * (IF f.flag THEN 10 ELSE w.VerifiedMultiplier)
      [] f.kind = "port"       -> IF f.port \in sensitivePorts THEN 10 * w.SensitivePort ELSE 0
      [] f.kind = "weakness"   -> 10 * weaknessPenalty(f.name, w)
      [] OTHER                 -> 0

\* What one finding takes away, in hundredths of a point.
Weight(f, w) ==
    CASE f.kind = "cve"        -> cvePenalty(f.severity, w) * (IF f.flag THEN w.VerifiedMultiplier ELSE 10)
      [] f.kind = "port"       -> IF f.port \in sensitivePorts THEN 10 * w.SensitivePort ELSE 0
      [] f.kind = "weakness"   -> 10 * weaknessPenalty(f.name, w)
      [] f.kind = "smb_share"  -> 10 * (IF f.flag THEN w.AnonymousSMB ELSE w.SMBShare)
      [] f.kind = "cert"       -> 10 * (IF f.name \in {"cert_expired", "cert_selfsigned"}
                                        THEN w.CertIssue ELSE w.WeakTLS)
      [] f.kind = "mqtt_topic" -> 10 * w.MQTTExposed
      [] OTHER                 -> 0

\* 100 minus the penalties, rounded (halves away from zero) and clamped.
Score(findings, w) ==
    LET penalty == MapThenSumSet(LAMBDA f : Weight(f, w), findings)
        rounded == (10000 - penalty + 50) \div 100
    IN  IF rounded < 0 THEN 0 ELSE IF rounded > 100 THEN 100 ELSE rounded

Grade(score) ==
    CASE score >= 90 -> "A"
      [] score \in 80..89 -> "B"
      [] score \in 70..79 -> "C"
      [] score \in 60..69 -> "D"
      [] OTHER -> "F"

=============================================================================
