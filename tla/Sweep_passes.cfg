\* A server and a remover; S3 refuses to delete one file.
SPECIFICATION FairSpec
CONSTANTS
  f1 = f1
  f2 = f2
  u1 = u1
  u2 = u2
  FileKey = {f1, f2}
  UploadKey = {u1}
  NoKey = NoKey
  Version = {1, 2}
  Under <- Begins
  Place <- Listing
  Broken = {f2}
  Server = {s1}
  Request = {r1}
  MaxFaults = 1
CONSTRAINT Scope
PROPERTIES ContractSpec Serves KeysSwept
