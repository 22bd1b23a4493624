\* One template and two signatures, of which one each is shipped.
SPECIFICATION Spec
CONSTANTS
  t1 = t1
  s1 = s1
  s2 = s2
  ConfigYml = ConfigYml
  ConfigYaml = ConfigYaml
  NoName = NoName
  Templates <- OneTemplate
  Signatures <- TwoSignatures
  Overrides <- Elsewhere
  Assets <- Defaults
  ShippedTemplate = t1
  ShippedSignature = s1
  UserConfigs <- Written
INVARIANTS TypeOK InitComplete SignedAsNamed
PROPERTY LeavesOthersAlone
