SPECIFICATION Spec
CONSTANTS
  Arns = {"arn:a", "arn:b"}
  MaxLinks = 4
INVARIANTS
  TypeOK
  WalkedInOrder
  MfaOnlyFirst
  OnlyOwnCredentials
