CONSTANTS
    Versions <- CodecVersions
    Nonces <- CodecNonces
    Domains <- CodecDomains
    Addresses <- CodecAddresses
    Bodies <- CodecBodies
    Cuts <- CodecCuts
SPECIFICATION Spec
INVARIANT ShortInputIsError
CHECK_DEADLOCK FALSE
