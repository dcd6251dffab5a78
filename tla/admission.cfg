CONSTANTS
  Specs <- MCSpecs
  Asked = {"none", "bogus", "dedicated", "shared", "reclaimed"}
  Classes = {"none", "high", "critical"}
  Policies <- MCPolicies
SPECIFICATION Spec
INVARIANTS TypeOK NoCpuRequest Footprint CriticalIsSystem Readmitted WholeCoresStored
