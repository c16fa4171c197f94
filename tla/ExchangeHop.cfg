SPECIFICATION Spec
CONSTANTS
  cc = cc
  dv = dv
  xcc = xcc
  NameOrder <- MCNameOrder
  Undecodable <- MCUndecodable
  NoValue = NoValue
  CloudFrontHeaders <- MCCloudFrontHeaders
  Overrides <- MCOverrides
  Synthesized <- MCSynthesized
  CompressibleTypes <- MCCompressibleTypes
  Distributions <- MCDistributions
  Requests <- MCRequests
  Objects <- MCObjects
INVARIANT NoListedHeaderReachesOrigin
CHECK_DEADLOCK FALSE
