------------------------------ MODULE ConfigPolicy ------------------------------
(***************************************************************************)
(* config.rs, central_config.rs, consumer_policy.rs and the parser of      *)
(* shared_auth_config.rs: what a .shared-auth.toml may say, how a project  *)
(* shadows the central policy, which revision of the interfaces a policy   *)
(* admits, and what a surface may then show and use.                       *)
(*                                                                         *)
(* A document is what the TOML says: "set" is a function from the settings *)
(* it gives to their values (a missing table gives none of its settings).  *)
(* Lists are sequences, since a list may be empty or repeat a value; a     *)
(* brand name or a color is "fine" or not, a theme is any of the three.    *)
(***************************************************************************)
EXTENDS Naturals, Sequences

CONSTANTS
  Revisions,  \* commits of the interfaces repository
  Ancestor,   \* is_ancestor of the caller: pairs <<ancestor, descendant>>
  Central     \* the document checked in as the central policy

ASSUME RevisionAssumption ==
  Ancestor \subseteq Revisions \X Revisions /\ "malformed" \notin Revisions

FactorMethod == {"totp", "passkey", "security-key", "email-otp", "sms-otp", "backup-code"}
AuthPage ==
  {"sign-in", "sign-up", "challenge", "recovery", "consent", "error", "signed-out"}
Theme    == {"system", "light", "dark"}

(* The settings, in the order in which they are validated.                 *)
Settings ==
  <<"two_factor.required", "two_factor.methods", "three_factor.enabled",
    "three_factor.methods", "pages.show", "theme", "brand_name", "accent_color">>
Setting == {Settings[i] : i \in DOMAIN Settings}

Sha == Revisions \cup {"malformed"}

Compatibility ==
  [kind : {"exact"}, repository : {"interfaces", "other"}, commit : Sha]
    \cup [kind : {"range"}, repository : {"interfaces", "other"}, base : Sha, head : Sha]

(* What serde lets through: no other settings, and lists, flags and a      *)
(* compatibility of their types.                                           *)
WellFormed(doc) ==
  /\ doc.compatibility \in Compatibility
  /\ DOMAIN doc.set \subseteq Setting
  /\ \A s \in DOMAIN doc.set :
       /\ s \in {"two_factor.methods", "three_factor.methods"} =>
            doc.set[s] \in Seq(FactorMethod)
       /\ s = "pages.show" => doc.set[s] \in Seq(AuthPage)
       /\ s \in {"two_factor.required", "three_factor.enabled"} => doc.set[s] \in BOOLEAN

(* SharedAuthDefaults::default.                                            *)
CompiledDefaults ==
  [s \in Setting |->
     CASE s = "two_factor.required"  -> TRUE
       [] s = "two_factor.methods"   -> <<"totp", "passkey", "security-key", "backup-code">>
       [] s = "three_factor.enabled" -> FALSE
       [] s = "three_factor.methods" -> <<"totp", "passkey", "security-key">>
       [] s = "pages.show"           -> <<"sign-in", "challenge", "recovery", "error",
                                          "signed-out">>
       [] s = "theme"                -> "system"
       [] OTHER                      -> "fine"]

Success(v) == [ok |-> TRUE, value |-> v]
Fail(e)    == [ok |-> FALSE, error |-> e]

-----------------------------------------------------------------------------
(* The first error of a list of checks, "none" if all went well.           *)
FirstError(errors) ==
  LET bad == {i \in DOMAIN errors : errors[i] # "none"} IN
  IF bad = {} THEN "none" ELSE errors[CHOOSE i \in bad : \A j \in bad : i <= j]

(* validate_repository, validate_git_sha, validate_set, validate_brand_name *)
(* and validate_accent_color.                                              *)
RepositoryError(repository) ==
  IF repository = "interfaces" THEN "none" ELSE "InvalidRepository"

ShaError(sha) == IF sha \in Revisions THEN "none" ELSE "InvalidGitSha"

SetError(values) ==
  IF values = <<>> THEN "EmptySet"
  ELSE IF \E i, j \in DOMAIN values : i < j /\ values[i] = values[j]
    THEN "DuplicateSetValue"
  ELSE "none"

SettingError(s, value) ==
  CASE s \in {"two_factor.methods", "three_factor.methods", "pages.show"} -> SetError(value)
    [] s = "brand_name"   -> IF value = "fine" THEN "none" ELSE "InvalidBrandName"
    [] s = "accent_color" -> IF value = "fine" THEN "none" ELSE "InvalidAccentColor"
    [] OTHER              -> "none"

(* Compatibility::validate.                                                *)
CompatibilityError(c) ==
  FirstError(<<RepositoryError(c.repository)>> \o
             IF c.kind = "exact" THEN <<ShaError(c.commit)>>
             ELSE <<ShaError(c.base), ShaError(c.head)>>)

SettingsError(set) ==
  FirstError([i \in DOMAIN Settings |->
                IF Settings[i] \in DOMAIN set THEN SettingError(Settings[i], set[Settings[i]])
                ELSE "none"])

(* SharedAuthConfigOverlay::validate.                                      *)
OverlayError(doc) ==
  FirstError(<<IF doc.schema = 1 THEN "none" ELSE "UnsupportedSchemaVersion",
               CompatibilityError(doc.compatibility),
               SettingsError(doc.set)>>)

(* parse_toml: a text that is not TOML of this shape, or has an unknown    *)
(* field, does not parse.                                                  *)
ParseToml(doc) ==
  IF ~doc.parses THEN Fail("Toml")
  ELSE IF OverlayError(doc) # "none" THEN Fail(OverlayError(doc))
  ELSE Success(doc)

(* SharedAuthConfigFile::parse of the authority runtime: the same checks,  *)
(* of a type of its own; it resolves nothing.                              *)
AuthorityParse(doc) ==
  LET error == FirstError(<<IF doc.schema = 1 THEN "none" ELSE "Invalid",
                            CompatibilityError(doc.compatibility),
                            SettingsError(doc.set)>>)
  IN  IF ~doc.parses THEN Fail("Parse")
      ELSE IF error # "none" THEN Fail("Invalid")
      ELSE Success(doc)

(* Mutant: a list of the overlay is added to the list it shadows.          *)
ResolveByUnion(doc, defaults) ==
  Success([compatibility |-> doc.compatibility,
           set |-> [s \in Setting |->
                      IF s \notin DOMAIN doc.set THEN defaults[s]
                      ELSE IF s \in {"two_factor.methods", "three_factor.methods", "pages.show"}
                        THEN defaults[s] \o doc.set[s]
                      ELSE doc.set[s]]])

(* SharedAuthConfigOverlay::resolve: what the overlay gives replaces what  *)
(* the defaults say, lists as a whole, and the result is checked again.    *)
Resolve(doc, defaults) ==
  LET set   == [s \in Setting |-> IF s \in DOMAIN doc.set THEN doc.set[s] ELSE defaults[s]]
      error == FirstError(<<OverlayError(doc), SettingsError(set)>>)
  IN  IF error # "none" THEN Fail(error)
      ELSE Success([compatibility |-> doc.compatibility, set |-> set])

(* The ancestry is asked of the caller; commits are never compared as text. *)
Allows(c, revision) ==
  IF c.kind = "exact" THEN c.commit = revision
  ELSE <<c.base, revision>> \in Ancestor /\ <<revision, c.head>> \in Ancestor

(* admits_revision.                                                        *)
RevisionError(c, revision) ==
  FirstError(<<ShaError(revision), CompatibilityError(c),
               IF Allows(c, revision) THEN "none" ELSE "RevisionNotAdmitted">>)

(* compatibility_allows of the authority runtime.                          *)
CompatibilityAllows(c, revision) == revision \in Revisions /\ Allows(c, revision)

(* central_shared_auth_policy and central_shared_auth_policy_for_revision. *)
CentralPolicy ==
  LET parsed == ParseToml(Central) IN
  IF parsed.ok THEN Resolve(parsed.value, CompiledDefaults) ELSE parsed

CentralPolicyFor(revision) ==
  IF ~CentralPolicy.ok THEN CentralPolicy
  ELSE IF RevisionError(CentralPolicy.value.compatibility, revision) # "none"
    THEN Fail(RevisionError(CentralPolicy.value.compatibility, revision))
  ELSE CentralPolicy

-----------------------------------------------------------------------------
ConsumerAction ==
  [kind : {"RenderPage"}, page : AuthPage]
    \cup [kind : {"UseTwoFactor", "UseThreeFactor"}, method : FactorMethod]

Listed(values, v) == \E i \in DOMAIN values : values[i] = v

(* require_consumer_action.  "two_factor.required" is not consulted.       *)
ConsumerActionDenied(set, a) ==
  CASE a.kind = "RenderPage" ->
         IF Listed(set["pages.show"], a.page) THEN "none" ELSE "PageDisabled"
    [] a.kind = "UseTwoFactor" ->
         IF Listed(set["two_factor.methods"], a.method) THEN "none"
         ELSE "TwoFactorMethodDisabled"
    [] OTHER ->
         IF ~set["three_factor.enabled"] THEN "ThreeFactorDisabled"
         ELSE IF Listed(set["three_factor.methods"], a.method) THEN "none"
         ELSE "ThreeFactorMethodDisabled"
=============================================================================
